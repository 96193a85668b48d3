---------------------------- MODULE KeepaliveProofs ----------------------------
(***************************************************************************)
(* Theorems about Keepalive, for every set of concurrent calls of ping(),  *)
(* every queue size and every load.                                        *)
(***************************************************************************)
EXTENDS Keepalive, QueueLemmas

-----------------------------------------------------------------------------
(* The list of waiters.                                                    *)

Places == {"idle", "sending", "waiting", "timing", "finished"}
Results == {"rtt", "disconnected", "timeout", "ValueError", "cancelled"}

Typed ==
  /\ conn \in {"up", "closing", "dead"}
  /\ waiters \in Seq(Pings)
  /\ pc \in [Pings -> Places]
  /\ fut \in [Pings -> {"none", "pending", "ok", "lost"}]
  /\ outcome \in [Pings -> Results \cup {"none"}]
  /\ reqs \in Seq(Pings \cup {Own})
  /\ resps \in Seq(Pings \cup {Own, Message})

\* A call is listed only between its beginning and the completion of its future.
ListedIsOpen == \A p \in ToSet(waiters) : pc[p] # "idle" /\ fut[p] = "pending"

\* A call has no outcome before it ends.
OutcomeAtEnd == \A p \in Pings : pc[p] # "finished" => outcome[p] = "none"

\* The inductive invariant: the calls in the list are distinct, too.
ListInv ==
  Typed /\ IsInjective(waiters) /\ ListedIsOpen /\ OutcomeAtEnd /\ PendingIsListed

\* A new connection has no waiters.
LEMMA ListInit == Init => ListInv
<1> SUFFICES ASSUME Init PROVE ListInv
  OBVIOUS
<1>1. Typed
  BY DEF Init, Typed, Places, Results
<1>2. IsInjective(waiters) /\ ToSet(waiters) = {}
  BY DEF Init, IsInjective, ToSet
<1>3. ListedIsOpen /\ OutcomeAtEnd /\ PendingIsListed
  BY <1>2 DEF Init, ListedIsOpen, OutcomeAtEnd, PendingIsListed, Active
<1> QED
  BY <1>1, <1>2, <1>3 DEF ListInv

\* A call that begins is not in the list yet, and is added at its end.
LEMMA ListBegin ==
  ASSUME ListInv, NEW p \in Pings, pc[p] = "idle", BeginPing(p)
  PROVE  ListInv'
<1>1. waiters \in Seq(Pings) /\ IsInjective(waiters)
  BY DEF ListInv, Typed
<1>2. p \notin ToSet(waiters)
  BY DEF ListInv, ListedIsOpen
<1>3. /\ waiters' \in Seq(Pings) /\ IsInjective(waiters')
      /\ ToSet(waiters') = ToSet(waiters) \cup {p}
  BY <1>1, <1>2, AppendQueue DEF BeginPing
<1>4. Typed'
  <2>1. reqs' \in Seq(Pings \cup {Own})
    BY DEF ListInv, Typed, BeginPing, Write
  <2> QED
    BY <1>3, <2>1 DEF ListInv, Typed, BeginPing, Places
<1>5. ToSet(waiters) \subseteq Pings
  BY <1>1 DEF ToSet
<1>6. ListedIsOpen'
  BY <1>3, <1>5 DEF ListInv, ListedIsOpen, Typed, BeginPing
<1>7. OutcomeAtEnd'
  BY DEF ListInv, OutcomeAtEnd, Typed, BeginPing
<1>8. PendingIsListed'
  BY <1>3 DEF ListInv, PendingIsListed, Active, Typed, BeginPing
<1> QED
  BY <1>3, <1>4, <1>6, <1>7, <1>8 DEF ListInv

\* Steps of one call that has begun and stays in the list, or leaves it as it ends.
LEMMA ListMoves ==
  ASSUME ListInv, NEW p \in Pings, Active(p), NEW where \in Places,
         pc' = [pc EXCEPT ![p] = where],
         \/ waiters' = waiters /\ (where = "idle" => fut[p] # "pending")
         \/ waiters' = RemoveFirst(waiters, p) /\ where = "finished",
         fut' = fut, reqs' = reqs, resps' = resps,
         conn' \in {"up", "closing", "dead"},
         \/ outcome' = outcome
         \/ /\ where = "finished"
            /\ \E result \in Results : outcome' = [outcome EXCEPT ![p] = result]
  PROVE  ListInv'
<1>1. waiters \in Seq(Pings) /\ IsInjective(waiters)
  BY DEF ListInv, Typed
<1>2. /\ RemoveFirst(waiters, p) \in Seq(Pings) /\ IsInjective(RemoveFirst(waiters, p))
      /\ ToSet(RemoveFirst(waiters, p)) = ToSet(waiters) \ {p}
  BY <1>1, RemoveQueue
<1>3. /\ waiters' \in Seq(Pings) /\ IsInjective(waiters')
      /\ \/ ToSet(waiters') = ToSet(waiters) /\ (where = "idle" => fut[p] # "pending")
         \/ ToSet(waiters') = ToSet(waiters) \ {p} /\ where = "finished"
  BY <1>1, <1>2
<1>4. Typed'
  BY <1>3 DEF ListInv, Typed
<1>5. ToSet(waiters) \subseteq Pings
  BY <1>1 DEF ToSet
<1>6. ListedIsOpen'
  BY <1>3, <1>5 DEF ListInv, ListedIsOpen, Typed
<1>7. OutcomeAtEnd'
  BY DEF ListInv, OutcomeAtEnd, Typed, Active, Places
<1>8. PendingIsListed'
  BY <1>3 DEF ListInv, PendingIsListed, Active, Typed
<1> QED
  BY <1>3, <1>4, <1>6, <1>7, <1>8 DEF ListInv

\* The handler of PINGRESP completes the waiter it takes off the list; the end of
\* run() completes them all.
LEMMA ListCompletes ==
  ASSUME ListInv, NEW gone \in SUBSET ToSet(waiters),
         waiters' \in Seq(Pings), IsInjective(waiters'),
         ToSet(waiters') = ToSet(waiters) \ gone,
         fut' \in [Pings -> {"none", "pending", "ok", "lost"}],
         \A p \in Pings : IF p \in gone THEN fut'[p] # "pending" ELSE fut'[p] = fut[p],
         \A p \in Pings : pc'[p] = pc[p] \/ (p \notin ToSet(waiters') /\ pc'[p] = "finished"),
         pc' \in [Pings -> Places], outcome' = outcome,
         conn' \in {"up", "closing", "dead"},
         reqs' \in Seq(Pings \cup {Own}), resps' \in Seq(Pings \cup {Own, Message})
  PROVE  ListInv'
<1>1. Typed'
  BY DEF ListInv, Typed
<1>2. ToSet(waiters) \subseteq Pings
  BY DEF ListInv, Typed, ToSet
<1>3. ListedIsOpen'
  BY <1>2 DEF ListInv, ListedIsOpen
<1>4. OutcomeAtEnd'
  BY DEF ListInv, OutcomeAtEnd
<1>5. PendingIsListed'
  BY DEF ListInv, PendingIsListed, Active
<1> QED
  BY <1>1, <1>3, <1>4, <1>5 DEF ListInv

\* Every step keeps the list of waiters in order.
LEMMA ListStep == ListInv /\ [Next]_vars => ListInv'
<1> SUFFICES ASSUME ListInv, [Next]_vars PROVE ListInv'
  OBVIOUS
<1>1. ASSUME UNCHANGED <<conn, waiters, pc, fut, outcome>>,
             reqs' \in Seq(Pings \cup {Own}), resps' \in Seq(Pings \cup {Own, Message})
      PROVE  ListInv'
  BY <1>1 DEF ListInv, Typed, ListedIsOpen, OutcomeAtEnd, PendingIsListed, Active
<1>2. CASE StartLoop
  BY <1>2, ListBegin DEF StartLoop, Pings
<1>3. ASSUME NEW p \in Pings, StartApp(p) PROVE ListInv'
  BY <1>3, ListBegin DEF StartApp
<1>4. ASSUME NEW p \in Pings, SendDone(p) PROVE ListInv'
  BY <1>4, ListMoves DEF SendDone, Active, Places, ListInv, Typed
<1>5. ASSUME NEW p \in Pings, SendFails(p) PROVE ListInv'
  BY <1>5, ListMoves DEF SendFails, Raise, Active, Places, Results, ListInv, Typed
<1>6. ASSUME NEW p \in Pings, Resume(p) PROVE ListInv'
  BY <1>6, ListMoves DEF Resume, Active, Places, Results, ListInv, Typed
<1>7. ASSUME NEW p \in Pings, Timeout(p) PROVE ListInv'
  BY <1>7, ListMoves DEF Timeout, Raise, Active, Places, Results, ListInv, Typed
<1>8. ASSUME NEW p \in Pings, Cancel(p) PROVE ListInv'
  BY <1>8, ListMoves DEF Cancel, Places, Results, ListInv, Typed
<1>9. ASSUME NEW p \in Pings, TimerFires(p) PROVE ListInv'
  BY <1>9, ListMoves DEF TimerFires, Active, Places, ListInv, Typed
<1>10. CASE HandlePingresp
  <2>1. resps' \in Seq(Pings \cup {Own, Message})
    BY <1>10 DEF HandlePingresp, Reads, ListInv, Typed
  <2>2. CASE waiters = <<>>
    BY <1>1, <1>10, <2>1, <2>2 DEF HandlePingresp, ListInv, Typed
  <2>3. CASE waiters # <<>>
    <3>1. waiters \in Seq(Pings) /\ IsInjective(waiters)
      BY DEF ListInv, Typed
    <3>2. /\ Tail(waiters) \in Seq(Pings) /\ IsInjective(Tail(waiters))
          /\ ToSet(Tail(waiters)) = ToSet(waiters) \ {Head(waiters)}
          /\ Head(waiters) \in ToSet(waiters) /\ Head(waiters) \in Pings
      BY <2>3, <3>1, TailQueue
    <3>3. fut[Head(waiters)] = "pending"
      BY <3>2 DEF ListInv, ListedIsOpen
    <3>4. /\ waiters' = Tail(waiters)
          /\ fut' = [fut EXCEPT ![Head(waiters)] = "ok"]
      BY <1>10, <2>3, <3>3 DEF HandlePingresp, ListInv, Typed
    <3>5. UNCHANGED <<conn, pc, outcome, reqs>>
      BY <1>10 DEF HandlePingresp
    <3> DEFINE gone == {Head(waiters)}
    <3>6. /\ gone \in SUBSET ToSet(waiters) /\ ToSet(waiters') = ToSet(waiters) \ gone
          /\ waiters' \in Seq(Pings) /\ IsInjective(waiters')
      BY <3>2, <3>4
    <3>7. /\ fut' \in [Pings -> {"none", "pending", "ok", "lost"}]
          /\ \A p \in Pings : IF p \in gone THEN fut'[p] # "pending" ELSE fut'[p] = fut[p]
      BY <3>2, <3>4 DEF ListInv, Typed
    <3>8. /\ pc' \in [Pings -> Places] /\ outcome' = outcome
          /\ \A p \in Pings : pc'[p] = pc[p]
          /\ conn' \in {"up", "closing", "dead"} /\ reqs' \in Seq(Pings \cup {Own})
      BY <3>5 DEF ListInv, Typed
    <3> HIDE DEF gone
    <3> QED
      BY <2>1, <3>6, <3>7, <3>8, ListCompletes
  <2> QED
    BY <2>2, <2>3
<1>11. CASE HandlePublish \/ PutDone \/ HandlePuback \/ BrokerGoesSilent
  <2>1. UNCHANGED <<conn, waiters, pc, fut, outcome, reqs>>
    BY <1>11 DEF HandlePublish, PutDone, HandlePuback, BrokerGoesSilent, pings
  <2>2. resps' = resps \/ (resps # <<>> /\ resps' = Tail(resps))
    BY <1>11 DEF HandlePublish, PutDone, HandlePuback, BrokerGoesSilent, Reads
  <2>3. resps' \in Seq(Pings \cup {Own, Message})
    BY <2>2 DEF ListInv, Typed
  <2> QED
    BY <1>1, <2>1, <2>3 DEF ListInv, Typed
<1>12. CASE Consume \/ BrokerAnswers \/ BrokerPublishes
  <2>1. UNCHANGED <<conn, waiters, pc, fut, outcome>>
    BY <1>12 DEF Consume, BrokerAnswers, BrokerPublishes, pings
  <2>2. /\ reqs \in Seq(Pings \cup {Own}) /\ resps \in Seq(Pings \cup {Own, Message})
    BY DEF ListInv, Typed
  <2>3. CASE Consume
    <3>1. reqs' \in Seq(Pings \cup {Own}) /\ resps' = resps
      BY <2>2, <2>3 DEF Consume, Write
    <3> QED
      BY <1>1, <2>1, <2>2, <3>1
  <2>4. CASE BrokerAnswers
    <3>1. reqs # <<>> /\ reqs' = Tail(reqs) /\ resps' = Append(resps, Head(reqs))
      BY <2>4 DEF BrokerAnswers
    <3>2. Head(reqs) \in Pings \cup {Own} /\ Tail(reqs) \in Seq(Pings \cup {Own})
      BY <2>2, <3>1
    <3> QED
      BY <1>1, <2>1, <2>2, <3>1, <3>2
  <2>5. CASE BrokerPublishes
    <3>1. reqs' = reqs /\ resps' = Append(resps, Message)
      BY <2>5 DEF BrokerPublishes
    <3> QED
      BY <1>1, <2>1, <2>2, <3>1
  <2> QED
    BY <1>12, <2>3, <2>4, <2>5
<1>13. CASE ConnectionLost
  BY <1>13 DEF ConnectionLost, ListInv, Typed, ListedIsOpen, OutcomeAtEnd, PendingIsListed,
               Active
<1>14. CASE RunExits
  <2>1. waiters' = <<>> /\ waiters' \in Seq(Pings) /\ reqs' = <<>> /\ resps' = <<>>
    BY <1>14 DEF RunExits
  <2>2. IsInjective(waiters') /\ ToSet(waiters') = {}
    BY <2>1 DEF IsInjective, ToSet
  <2>3. \A p \in ToSet(waiters) : fut[p] = "pending" /\ p \in Pings
    BY DEF ListInv, ListedIsOpen, Typed, ToSet
  <2> DEFINE gone == ToSet(waiters)
  <2>4. /\ fut' \in [Pings -> {"none", "pending", "ok", "lost"}]
        /\ \A p \in Pings : IF p \in gone THEN fut'[p] # "pending" ELSE fut'[p] = fut[p]
    BY <1>14, <2>3 DEF RunExits, ListInv, Typed
  <2>5. pc' \in [Pings -> Places] /\ outcome' = outcome /\ conn' \in {"up", "closing", "dead"}
    BY <1>14 DEF RunExits, ListInv, Typed, Places
  <2>6. \A p \in Pings : pc'[p] = pc[p] \/ (p \notin ToSet(waiters') /\ pc'[p] = "finished")
    BY <1>14, <2>2 DEF RunExits, ListInv, Typed
  <2>7. reqs' \in Seq(Pings \cup {Own}) /\ resps' \in Seq(Pings \cup {Own, Message})
    BY <2>1
  <2>8. gone \in SUBSET ToSet(waiters) /\ ToSet(waiters') = ToSet(waiters) \ gone
    BY <2>2
  <2> HIDE DEF gone
  <2> QED
    BY <2>1, <2>2, <2>4, <2>5, <2>6, <2>7, <2>8, ListCompletes
<1>15. CASE UNCHANGED vars
  BY <1>1, <1>15 DEF vars, pings, ListInv, Typed
<1> QED
  BY <1>2, <1>3, <1>4, <1>5, <1>6, <1>7, <1>8, <1>9, <1>10, <1>11, <1>12, <1>13, <1>14, <1>15
  DEF Next, PingStep, ReadLoop

\* No call of ping() is left waiting for a future that nobody completes: whichever
\* calls time out, are cancelled or fail to send, the future of a call that waits is in
\* _ping_waiters.
THEOREM PendingIsListedHolds == Spec => []PendingIsListed
<1>1. Spec => []ListInv
  BY ListInit, ListStep, PTL DEF Spec
<1>2. ListInv => PendingIsListed
  BY DEF ListInv
<1> QED
  BY <1>1, <1>2, PTL

-----------------------------------------------------------------------------
(* The list of waiters and the wire.  A placement f of the list ws among   *)
(* the packets due is carried through every step.                          *)

Packets == Pings \cup {Own, Message}

Fits(ws, due, f) ==
  /\ f \in [1 .. Len(ws) -> 1 .. Len(due)]
  /\ \A i, j \in 1 .. Len(ws) : i < j => f[i] < f[j]
  /\ \A i \in 1 .. Len(ws) : due[f[i]] = ws[i]

Covers(ws, due, f) ==
  \A k \in 1 .. Len(due) : due[k] \in Pings => \E i \in 1 .. Len(ws) : f[i] = k

\* A call that begins joins both ends.
LEMMA FitsBegin ==
  ASSUME NEW ws \in Seq(Pings), NEW due \in Seq(Packets), NEW p \in Pings,
         NEW f, Fits(ws, due, f)
  PROVE  \E g : /\ Fits(Append(ws, p), Append(due, p), g)
                /\ Covers(ws, due, f) => Covers(Append(ws, p), Append(due, p), g)
<1> DEFINE ws2 == Append(ws, p)
           due2 == Append(due, p)
           g == [i \in 1 .. Len(ws) + 1 |-> IF i = Len(ws) + 1 THEN Len(due) + 1 ELSE f[i]]
<1>1. /\ Len(ws) \in Nat /\ Len(ws2) = Len(ws) + 1 /\ ws2[Len(ws) + 1] = p
      /\ \A i \in 1 .. Len(ws) : ws2[i] = ws[i]
  OBVIOUS
<1>2. /\ Len(due) \in Nat /\ Len(due2) = Len(due) + 1 /\ due2[Len(due) + 1] = p
      /\ \A i \in 1 .. Len(due) : due2[i] = due[i]
  OBVIOUS
<1> HIDE DEF ws2, due2
<1>3. Fits(ws2, due2, g)
  <2>1. \A i \in 1 .. Len(ws) : f[i] \in 1 .. Len(due) /\ g[i] = f[i]
    BY <1>1, <1>2 DEF Fits
  <2>2. g[Len(ws) + 1] = Len(due) + 1
    BY <1>1
  <2>3. g \in [1 .. Len(ws2) -> 1 .. Len(due2)]
    <3>1. g = [i \in 1 .. Len(ws) + 1 |-> g[i]]
      OBVIOUS
    <3> HIDE DEF g
    <3>2. \A i \in 1 .. Len(ws) + 1 : g[i] \in 1 .. Len(due) + 1
      BY <1>1, <1>2, <2>1, <2>2
    <3> QED
      BY <1>1, <1>2, <3>1, <3>2
  <2> HIDE DEF g
  <2>4. ASSUME NEW i \in 1 .. Len(ws2), NEW j \in 1 .. Len(ws2), i < j PROVE g[i] < g[j]
    <3>1. i \in 1 .. Len(ws)
      BY <1>1, <2>4
    <3>2. CASE j \in 1 .. Len(ws)
      BY <2>1, <2>4, <3>1, <3>2 DEF Fits
    <3>3. CASE j = Len(ws) + 1
      BY <1>2, <2>1, <2>2, <3>1, <3>3
    <3> QED
      BY <1>1, <3>2, <3>3
  <2>5. \A i \in 1 .. Len(ws2) : due2[g[i]] = ws2[i]
    BY <1>1, <1>2, <2>1, <2>2 DEF Fits
  <2> QED
    BY <2>3, <2>4, <2>5 DEF Fits
<1>4. ASSUME Covers(ws, due, f), NEW k \in 1 .. Len(due2), due2[k] \in Pings
      PROVE  \E i \in 1 .. Len(ws2) : g[i] = k
  <2>1. CASE k = Len(due) + 1
    BY <1>1, <2>1
  <2>2. CASE k \in 1 .. Len(due)
    <3>1. PICK i \in 1 .. Len(ws) : f[i] = k
      BY <1>2, <1>4, <2>2 DEF Covers
    <3> QED
      BY <1>1, <3>1
  <2>3. k = Len(due) + 1 \/ k \in 1 .. Len(due)
    BY <1>2
  <2> QED
    BY <2>1, <2>2, <2>3
<1>5. Covers(ws, due, f) => Covers(ws2, due2, g)
  BY <1>4 DEF Covers
<1> HIDE DEF g
<1> QED
  BY <1>3, <1>5 DEF ws2, due2

\* The read loop handles a packet that is no PINGRESP.
LEMMA FitsSkip ==
  ASSUME NEW ws \in Seq(Pings), NEW due \in Seq(Packets), due # <<>>, Head(due) \notin Pings,
         NEW f, Fits(ws, due, f)
  PROVE  \E g : Fits(ws, Tail(due), g) /\ (Covers(ws, due, f) => Covers(ws, Tail(due), g))
<1> DEFINE due2 == Tail(due)
           g == [i \in 1 .. Len(ws) |-> f[i] - 1]
<1>1. Len(ws) \in Nat /\ \A i \in 1 .. Len(ws) : ws[i] \in Pings
  OBVIOUS
<1>2. /\ Len(due) \in Nat /\ Len(due2) = Len(due) - 1 /\ Head(due) = due[1]
      /\ \A i \in 1 .. Len(due) - 1 : due2[i] = due[i + 1]
  OBVIOUS
<1> HIDE DEF due2
<1>3. \A i \in 1 .. Len(ws) : f[i] \in 2 .. Len(due)
  BY <1>1, <1>2 DEF Fits
<1>4. Fits(ws, due2, g)
  BY <1>1, <1>2, <1>3 DEF Fits
<1>5. ASSUME Covers(ws, due, f), NEW k \in 1 .. Len(due2), due2[k] \in Pings
      PROVE  \E i \in 1 .. Len(ws) : g[i] = k
  <2>1. PICK i \in 1 .. Len(ws) : f[i] = k + 1
    BY <1>2, <1>5 DEF Covers
  <2> QED
    BY <2>1
<1>6. Covers(ws, due, f) => Covers(ws, due2, g)
  BY <1>5 DEF Covers
<1> HIDE DEF g
<1> QED
  BY <1>4, <1>6 DEF due2

\* It handles a PINGRESP: the first waiter takes it, whoever it was meant for.
LEMMA FitsTake ==
  ASSUME NEW ws \in Seq(Pings), NEW due \in Seq(Packets), due # <<>>, Head(due) \in Pings,
         ws # <<>>, NEW f, Fits(ws, due, f)
  PROVE  \E g : /\ Fits(Tail(ws), Tail(due), g)
                /\ Covers(ws, due, f) => Covers(Tail(ws), Tail(due), g)
<1> DEFINE due2 == Tail(due)
           ws2 == Tail(ws)
           g == [i \in 1 .. Len(ws) - 1 |-> f[i + 1] - 1]
<1>1. /\ Len(ws) \in Nat \ {0} /\ Len(ws2) = Len(ws) - 1
      /\ \A i \in 1 .. Len(ws) - 1 : ws2[i] = ws[i + 1]
  OBVIOUS
<1>2. /\ Len(due) \in Nat \ {0} /\ Len(due2) = Len(due) - 1 /\ Head(due) = due[1]
      /\ \A i \in 1 .. Len(due) - 1 : due2[i] = due[i + 1]
  OBVIOUS
<1> HIDE DEF due2, ws2
<1>3. \A i \in 1 .. Len(ws) - 1 : f[i + 1] \in 2 .. Len(due)
  BY <1>1, <1>2 DEF Fits
<1>4. Fits(ws2, due2, g)
  <2>1. \A i \in 1 .. Len(ws) - 1 : i + 1 \in 1 .. Len(ws) /\ g[i] = f[i + 1] - 1
    BY <1>1
  <2>2. g \in [1 .. Len(ws2) -> 1 .. Len(due2)]
    BY <1>1, <1>2, <1>3
  <2> HIDE DEF g
  <2>3. \A i, j \in 1 .. Len(ws2) : i < j => g[i] < g[j]
    BY <1>1, <1>2, <1>3, <2>1 DEF Fits
  <2>4. ASSUME NEW i \in 1 .. Len(ws2) PROVE due2[g[i]] = ws2[i]
    <3>1. g[i] \in 1 .. Len(due) - 1 /\ g[i] + 1 = f[i + 1]
      BY <1>1, <1>2, <1>3, <2>1
    <3> QED
      BY <1>1, <1>2, <2>1, <3>1 DEF Fits
  <2> QED
    BY <2>2, <2>3, <2>4 DEF Fits
<1>5. ASSUME Covers(ws, due, f), NEW k \in 1 .. Len(due2), due2[k] \in Pings
      PROVE  \E i \in 1 .. Len(ws2) : g[i] = k
  <2>0. k + 1 \in 1 .. Len(due) /\ due[k + 1] \in Pings
    BY <1>2, <1>5
  <2>1. PICK i \in 1 .. Len(ws) : f[i] = k + 1
    BY <1>5, <2>0 DEF Covers
  <2>2. PICK h \in 1 .. Len(ws) : f[h] = 1
    BY <1>2, <1>5 DEF Covers
  <2>3. f[1] = 1
    BY <1>1, <1>2, <2>2 DEF Fits
  <2>4. i - 1 \in 1 .. Len(ws) - 1 /\ (i - 1) + 1 = i
    BY <1>1, <2>1, <2>3
  <2>5. g[i - 1] = f[(i - 1) + 1] - 1
    BY <2>4
  <2> HIDE DEF g
  <2>6. g[i - 1] = k
    BY <1>2, <2>1, <2>4, <2>5
  <2> QED
    BY <1>1, <2>4, <2>6
<1>6. Covers(ws, due, f) => Covers(ws2, due2, g)
  BY <1>5 DEF Covers
<1> HIDE DEF g
<1> QED
  BY <1>4, <1>6 DEF due2, ws2

\* A packet that is no PINGRESP comes in between.
LEMMA FitsInsert ==
  ASSUME NEW ws \in Seq(Pings), NEW due \in Seq(Packets), NEW due2 \in Seq(Packets),
         NEW m \in 0 .. Len(due), Len(due2) = Len(due) + 1, due2[m + 1] \notin Pings,
         \A i \in 1 .. m : due2[i] = due[i],
         \A i \in m + 1 .. Len(due) : due2[i + 1] = due[i],
         NEW f, Fits(ws, due, f)
  PROVE  \E g : Fits(ws, due2, g) /\ (Covers(ws, due, f) => Covers(ws, due2, g))
<1> DEFINE g == [i \in 1 .. Len(ws) |-> IF f[i] <= m THEN f[i] ELSE f[i] + 1]
<1>1. Len(ws) \in Nat /\ Len(due) \in Nat
  OBVIOUS
<1>2. Fits(ws, due2, g)
  <2>1. \A i \in 1 .. Len(ws) : f[i] \in 1 .. Len(due) /\ g[i] \in 1 .. Len(due2)
    BY <1>1 DEF Fits
  <2>2. \A i, j \in 1 .. Len(ws) : i < j => g[i] < g[j]
    BY <1>1, <2>1 DEF Fits
  <2>3. \A i \in 1 .. Len(ws) : due2[g[i]] = ws[i]
    BY <1>1, <2>1 DEF Fits
  <2> QED
    BY <2>1, <2>2, <2>3 DEF Fits
<1>3. ASSUME Covers(ws, due, f), NEW k \in 1 .. Len(due2), due2[k] \in Pings
      PROVE  \E i \in 1 .. Len(ws) : g[i] = k
  <2>1. CASE k <= m
    <3>1. PICK i \in 1 .. Len(ws) : f[i] = k
      BY <1>1, <1>3, <2>1 DEF Covers
    <3> QED
      BY <2>1, <3>1
  <2>2. CASE k > m + 1
    <3>1. k - 1 \in m + 1 .. Len(due) /\ due2[k] = due[k - 1]
      BY <1>1, <2>2
    <3>2. k - 1 \in 1 .. Len(due) /\ due[k - 1] \in Pings
      BY <1>1, <1>3, <3>1
    <3>3. PICK i \in 1 .. Len(ws) : f[i] = k - 1
      BY <1>3, <3>2 DEF Covers
    <3> QED
      BY <2>2, <3>3
  <2> QED
    BY <1>1, <1>3, <2>1, <2>2
<1>4. Covers(ws, due, f) => Covers(ws, due2, g)
  BY <1>3 DEF Covers
<1> HIDE DEF g
<1> QED
  BY <1>2, <1>4

\* A call that times out leaves the list; its answer is still due.
LEMMA FitsRemove ==
  ASSUME NEW ws \in Seq(Pings), IsInjective(ws), NEW due \in Seq(Packets),
         NEW p \in ToSet(ws), NEW f, Fits(ws, due, f)
  PROVE  \E g : Fits(RemoveFirst(ws, p), due, g)
<1>1. DOMAIN ws = 1 .. Len(ws) /\ Len(ws) \in Nat /\ Len(due) \in Nat
  OBVIOUS
<1>2. PICK k \in 1 .. Len(ws) : ws[k] = p
  BY <1>1 DEF ToSet
<1>3. \A i \in 1 .. Len(ws) : ws[i] = ws[k] => k <= i
  BY <1>1 DEF IsInjective
<1> DEFINE ws2 == RemoveFirst(ws, ws[k])
           g == [i \in 1 .. Len(ws) - 1 |-> IF i < k THEN f[i] ELSE f[i + 1]]
<1>4. /\ Len(ws2) = Len(ws) - 1
      /\ \A i \in 1 .. Len(ws) - 1 : ws2[i] = IF i < k THEN ws[i] ELSE ws[i + 1]
  BY <1>3, RemoveFirstFacts
<1> HIDE DEF ws2
<1>5. Fits(ws2, due, g)
  BY <1>1, <1>4 DEF Fits
<1> HIDE DEF g
<1> QED
  BY <1>2, <1>5 DEF ws2

NoTimeout == \A p \in Pings : outcome[p] # "timeout"

Aligned ==
  conn = "up" =>
    \E f : Fits(waiters, Due, f) /\ (NoTimeout => Covers(waiters, Due, f))

\* The alignment, in the words of the model.
LEMMA AlignedIsInOrder == ListInv /\ Aligned => PongsInOrder
<1> SUFFICES ASSUME ListInv, Aligned, conn = "up" PROVE PongsInOrder
  BY DEF PongsInOrder
<1>1. waiters \in Seq(Pings) /\ resps \in Seq(Packets) /\ reqs \in Seq(Packets)
  BY DEF ListInv, Typed, Packets
<1>2. Due \in Seq(Packets)
  BY <1>1, ConcatMembers DEF Due
<1>3. DOMAIN waiters = 1 .. Len(waiters) /\ DOMAIN Due = 1 .. Len(Due)
  BY <1>1, <1>2
<1>4. PICK f : Fits(waiters, Due, f) /\ (NoTimeout => Covers(waiters, Due, f))
  BY DEF Aligned
<1>5. f \in [DOMAIN waiters -> DOMAIN Due] /\ InPlace(f)
  BY <1>3, <1>4 DEF InPlace, Fits
<1>6. (\A p \in Pings : outcome[p] # "timeout") =>
        \A k \in DOMAIN Due : Due[k] \in Pings => \E i \in DOMAIN waiters : f[i] = k
  BY <1>3, <1>4 DEF NoTimeout, Covers
<1> QED
  BY <1>5, <1>6, Zenon DEF PongsInOrder

\* A step keeps the alignment when it carries every placement over.
LEMMA AlignedFrom ==
  ASSUME Aligned, conn = "up", NoTimeout' => NoTimeout,
         \A f : Fits(waiters, Due, f) =>
           \E g : /\ Fits(waiters', Due', g)
                  /\ NoTimeout' /\ Covers(waiters, Due, f) => Covers(waiters', Due', g)
  PROVE  Aligned'
<1>1. PICK f : Fits(waiters, Due, f) /\ (NoTimeout => Covers(waiters, Due, f))
  BY DEF Aligned
<1>2. PICK g : /\ Fits(waiters', Due', g)
               /\ NoTimeout' /\ Covers(waiters, Due, f) => Covers(waiters', Due', g)
  BY <1>1
<1>3. \E h : Fits(waiters', Due', h) /\ (NoTimeout' => Covers(waiters', Due', h))
  BY <1>1, <1>2
<1> QED
  BY <1>3, Zenon DEF Aligned, Fits, Covers

\* Every step carries the placement over.
LEMMA AlignedStep == ListInv /\ Aligned /\ [Next]_vars => Aligned'
<1> SUFFICES ASSUME ListInv, Aligned, [Next]_vars PROVE Aligned'
  OBVIOUS
<1>1. CASE conn' # "up"
  BY <1>1 DEF Aligned
<1>2. CASE conn' = "up"
  <2>1. conn = "up"
    BY <1>2 DEF Next, StartLoop, StartApp, BeginPing, PingStep, SendDone, SendFails, Resume,
      Timeout, Raise, Cancel, TimerFires, ReadLoop, HandlePingresp, HandlePublish, PutDone,
      HandlePuback, Consume, BrokerAnswers, BrokerPublishes, BrokerGoesSilent, ConnectionLost,
      RunExits, pings, vars
  <2>2. NoTimeout' => NoTimeout
    BY DEF NoTimeout, ListInv, OutcomeAtEnd, Typed, Active,
      Next, StartLoop, StartApp, BeginPing, PingStep, SendDone, SendFails, Resume,
      Timeout, Raise, Cancel, TimerFires, ReadLoop, HandlePingresp, HandlePublish, PutDone,
      HandlePuback, Consume, BrokerAnswers, BrokerPublishes, BrokerGoesSilent, ConnectionLost,
      RunExits, pings, vars
  <2>3. /\ waiters \in Seq(Pings) /\ IsInjective(waiters)
        /\ resps \in Seq(Packets) /\ reqs \in Seq(Packets)
    BY DEF ListInv, Typed, Packets
  <2>4. resps \in Seq(Packets) /\ reqs \in Seq(Packets)
    BY <2>3
  <2>5. /\ Due \in Seq(Packets) /\ Len(Due) = Len(resps) + Len(reqs)
        /\ \A i \in 1 .. Len(resps) : Due[i] = resps[i]
        /\ \A i \in 1 .. Len(reqs) : Due[Len(resps) + i] = reqs[i]
    BY <2>4, ConcatMembers DEF Due
  <2>6. Own \in Packets /\ Own \notin Pings /\ Message \in Packets /\ Message \notin Pings
    BY KeepaliveAssumption DEF Packets
  \* Nothing on the wire and nothing in the list changes.
  <2>7. ASSUME waiters' = waiters, Due' = Due PROVE Aligned'
    BY <2>1, <2>2, <2>7, AlignedFrom
  <2>8. ASSUME NEW p \in Pings, BeginPing(p) PROVE Aligned'
    <3>1. waiters' = Append(waiters, p) /\ reqs' = Append(reqs, p) /\ resps' = resps
      BY <2>1, <2>8 DEF BeginPing, Write
    <3>2. p \in Packets
      BY DEF Packets
    <3>3. Due' = Append(Due, p)
      BY <2>4, <3>1, <3>2 DEF Due
    <3> QED
      BY <2>1, <2>2, <2>3, <2>5, <3>1, <3>3, FitsBegin, AlignedFrom
  <2>9. ASSUME NEW p \in Pings, Timeout(p) PROVE Aligned'
    <3>1. resps' = resps /\ reqs' = reqs
      BY <2>9 DEF Timeout
    <3>2. Due' = Due
      BY <3>1 DEF Due
    <3>3. CASE p \notin ToSet(waiters)
      BY <2>7, <2>9, <3>2, <3>3 DEF Timeout
    <3>4. CASE p \in ToSet(waiters)
      <4>1. waiters' = RemoveFirst(waiters, p)
        BY <2>9, <3>4 DEF Timeout
      <4>2. ~NoTimeout'
        BY <1>2, <2>9, <3>4 DEF Timeout, Raise, NoTimeout, ListInv, Typed
      <4> QED
        BY <2>1, <2>2, <2>3, <2>5, <3>2, <3>4, <4>1, <4>2, FitsRemove, AlignedFrom
    <3> QED
      BY <3>3, <3>4
  <2>10. CASE HandlePingresp \/ HandlePublish \/ HandlePuback
    <3>1. resps # <<>> /\ resps' = Tail(resps) /\ reqs' = reqs
      BY <2>10 DEF HandlePingresp, HandlePublish, HandlePuback, Reads, pings
    <3>2. Due # <<>> /\ Due' = Tail(Due) /\ Head(Due) = Head(resps)
      BY <2>4, <3>1 DEF Due
    <3>3. CASE Head(resps) \notin Pings
      <4>1. waiters' = waiters
        BY <2>10, <3>3 DEF HandlePingresp, HandlePublish, HandlePuback, Reads, pings
      <4> QED
        BY <2>1, <2>2, <2>3, <2>5, <3>2, <3>3, <4>1, FitsSkip, AlignedFrom
    <3>4. CASE Head(resps) \in Pings /\ waiters # <<>>
      <4>1. waiters' = Tail(waiters)
        BY <2>6, <2>10, <3>4 DEF HandlePingresp, HandlePublish, HandlePuback, Reads
      <4> QED
        BY <2>1, <2>2, <2>3, <2>5, <3>2, <3>4, <4>1, FitsTake, AlignedFrom
    <3>5. CASE Head(resps) \in Pings /\ waiters = <<>>
      <4>1. waiters' = <<>>
        BY <2>6, <2>10, <3>5 DEF HandlePingresp, HandlePublish, HandlePuback, Reads
      <4>2. \A f : ~Covers(waiters, Due, f)
        <5>1. Len(waiters) = 0 /\ 1 \in 1 .. Len(Due) /\ Due[1] \in Pings
          BY <2>5, <3>2, <3>5
        <5> QED
          BY <5>1 DEF Covers
      <4>3. \A f : Fits(waiters, Due, f) => Fits(waiters', Due', f)
        <5>1. Len(waiters) = 0 /\ Len(waiters') = 0
          BY <3>5, <4>1
        <5> QED
          BY <5>1 DEF Fits
      <4> QED
        BY <2>1, <2>2, <4>2, <4>3, AlignedFrom
    <3> QED
      BY <3>3, <3>4, <3>5
  <2>11. CASE Consume
    <3>1. waiters' = waiters /\ resps' = resps /\ reqs' = Append(reqs, Own)
      BY <2>1, <2>11 DEF Consume, Write, pings
    <3>2. Due' = Append(Due, Own)
      BY <2>4, <2>6, <3>1 DEF Due
    <3>3. /\ Due' \in Seq(Packets) /\ Len(Due') = Len(Due) + 1 /\ Len(Due) \in 0 .. Len(Due)
          /\ Due'[Len(Due) + 1] \notin Pings
          /\ \A i \in 1 .. Len(Due) : Due'[i] = Due[i]
          /\ \A i \in Len(Due) + 1 .. Len(Due) : Due'[i + 1] = Due[i]
      BY <2>5, <2>6, <3>2
    <3> QED
      BY <2>1, <2>2, <2>3, <2>5, <3>1, <3>3, FitsInsert, AlignedFrom
  <2>12. CASE BrokerAnswers
    <3>1. /\ reqs # <<>> /\ reqs' = Tail(reqs) /\ resps' = Append(resps, Head(reqs))
          /\ waiters' = waiters
      BY <2>12 DEF BrokerAnswers, pings
    <3>2. Due' = Due
      BY <2>4, <3>1 DEF Due
    <3> QED
      BY <2>7, <3>1, <3>2
  <2>13. CASE BrokerPublishes
    <3>1. waiters' = waiters /\ reqs' = reqs /\ resps' = Append(resps, Message)
      BY <2>13 DEF BrokerPublishes, pings
    <3>2. resps' \in Seq(Packets) /\ reqs' \in Seq(Packets)
      BY <2>4, <2>6, <3>1
    <3>3. /\ Due' \in Seq(Packets) /\ Len(Due') = Len(resps') + Len(reqs')
          /\ \A i \in 1 .. Len(resps') : Due'[i] = resps'[i]
          /\ \A i \in 1 .. Len(reqs') : Due'[Len(resps') + i] = reqs'[i]
      BY <3>2, ConcatMembers DEF Due
    <3>4. /\ Len(resps') = Len(resps) + 1 /\ resps'[Len(resps) + 1] = Message
          /\ \A i \in 1 .. Len(resps) : resps'[i] = resps[i]
          /\ Len(resps) \in Nat /\ Len(reqs) \in Nat
      BY <2>4, <2>6, <3>1
    <3>5. /\ Len(Due') = Len(Due) + 1 /\ Len(resps) \in 0 .. Len(Due)
          /\ Due'[Len(resps) + 1] \notin Pings
          /\ \A i \in 1 .. Len(resps) : Due'[i] = Due[i]
      <4>1. Len(Due') = Len(Due) + 1 /\ Len(resps) \in 0 .. Len(Due)
        BY <2>5, <3>1, <3>3, <3>4
      <4>2. Due'[Len(resps) + 1] \notin Pings
        BY <2>6, <3>3, <3>4
      <4>3. ASSUME NEW i \in 1 .. Len(resps) PROVE Due'[i] = Due[i]
        <5>1. i \in 1 .. Len(resps')
          BY <3>4
        <5> QED
          BY <2>5, <3>3, <3>4, <5>1
      <4> QED
        BY <4>1, <4>2, <4>3
    <3>6. ASSUME NEW i \in Len(resps) + 1 .. Len(Due) PROVE Due'[i + 1] = Due[i]
      <4> DEFINE j == i - Len(resps)
      <4>1. j \in 1 .. Len(reqs) /\ i = Len(resps) + j /\ i + 1 = Len(resps') + j
        BY <2>5, <3>4
      <4> HIDE DEF j
      <4> QED
        BY <2>5, <3>1, <3>3, <4>1
    <3> QED
      BY <2>1, <2>2, <2>3, <2>5, <3>1, <3>3, <3>5, <3>6, FitsInsert, AlignedFrom
  <2>14. ASSUME NEW p \in Pings, SendDone(p) \/ SendFails(p) \/ Resume(p) \/ Cancel(p) \/ TimerFires(p)
         PROVE  Aligned'
    <3>1. waiters' = waiters /\ resps' = resps /\ reqs' = reqs
      BY <2>14 DEF SendDone, SendFails, Resume, Cancel, TimerFires
    <3> QED
      BY <2>7, <3>1 DEF Due
  <2>15. CASE PutDone \/ BrokerGoesSilent \/ ConnectionLost \/ UNCHANGED vars
    <3>1. waiters' = waiters /\ resps' = resps /\ reqs' = reqs
      BY <2>15 DEF PutDone, BrokerGoesSilent, ConnectionLost, vars, pings
    <3> QED
      BY <2>7, <3>1 DEF Due
  <2>16. ~RunExits
    BY <1>2 DEF RunExits
  <2> QED
    BY <2>8, <2>9, <2>10, <2>11, <2>12, <2>13, <2>14, <2>15, <2>16
    DEF Next, StartLoop, StartApp, PingStep, ReadLoop, Pings
<1> QED
  BY <1>1, <1>2

\* PINGRESP carries no identifier, and yet the list stays aligned with the wire through
\* timeouts, cancelled calls and messages in between: every listed waiter's own answer
\* is still due, in order, and without a timeout no other answer is.
THEOREM PongsInOrderHolds == Spec => []PongsInOrder
<1>1. Init => Aligned
  <2> SUFFICES ASSUME Init PROVE \E f : Fits(waiters, Due, f) /\ Covers(waiters, Due, f)
    BY DEF Aligned
  <2>1. Len(waiters) = 0 /\ Len(Due) = 0
    BY DEF Init, Due
  <2>2. Fits(waiters, Due, <<>>) /\ Covers(waiters, Due, <<>>)
    BY <2>1 DEF Fits, Covers
  <2> QED
    BY <2>2
<1>2. Spec => [](ListInv /\ Aligned)
  BY <1>1, ListInit, ListStep, AlignedStep, PTL DEF Spec
<1> QED
  BY <1>2, AlignedIsInOrder, PTL

=============================================================================
