----------------------------- MODULE InboundProofs -----------------------------
(***************************************************************************)
(* What Inbound promises for every set of messages, topics and bounds.     *)
(***************************************************************************)
EXTENDS Inbound, QueueLemmas

-----------------------------------------------------------------------------
(* Types.  What carries an identifier is of QoS 1 or 2, and the other way  *)
(* round.                                                                  *)

Entry == {e \in [m : Messages, id : 0 .. MaxId] : e.id = 0 <=> QoSOf[e.m] = 0}
Item == {x \in [m : Messages, ack : 0 .. MaxId] : x.ack # 0 => QoSOf[x.m] > 0}
Flight ==
  {f \in [m : Messages, put : BOOLEAN] : QoSOf[f.m] = 2 /\ (f.put => TopicOf[f.m] \in Subscribed)}
ToClientPacket ==
  {p \in [type : {"PUBLISH", "PUBREL"}, id : 0 .. MaxId, m : Messages] :
     IF p.type = "PUBLISH" THEN p.id = 0 <=> QoSOf[p.m] = 0 ELSE p.id # 0}
ToBrokerPacket == [type : {"PUBACK", "PUBREC", "PUBCOMP"}, id : PacketId]
Queues == [Subscribed -> Seq(Item)]

TypeInv ==
  /\ conn \in {"up", "down", "failed"} /\ failure \in {"none", "quota", "overflow"}
  /\ bstate \in [Messages -> {"queued", "sent", "rel", "done"}]
  /\ bid \in [Messages -> 0 .. MaxId] /\ resends \subseteq Retransmitted
  /\ toClient \in Seq(ToClientPacket) /\ toBroker \in Seq(ToBrokerPacket)
  /\ rl \in {e \in Entry : TopicOf[e.m] \in Subscribed} \cup {NoEntry}
  /\ entries \subseteq Subscribed
  /\ inflight2 \in [PacketId -> Flight \cup {NoFlight}]
  /\ pendingAck2 \subseteq PacketId /\ unack \subseteq PacketId
  /\ replay \in {"none", "idle", "buffered"}
  /\ publishes \in Seq(Entry) /\ unmatched \in Seq(Entry)
  /\ held \subseteq Entry /\ current \in Entry \cup {NoEntry}
  /\ drain \in [Drainers -> {"idle", "suback", "wants", "writing"}]
  /\ queue \in Queues
  /\ hand \in [Subscribed -> Item \cup {Nothing}]
  /\ appHeld \subseteq {x \in Item : x.ack # 0}
  /\ puts \in [Messages -> 0 .. 2]
  /\ fate \in [Messages -> SUBSET {"queued", "dropped", "acked"}]
  /\ cut \subseteq Messages

\* The rest of a pass: the state of _deliver_pending() after some publishes.
PassState ==
  [queue : Queues, sent : SUBSET Entry, back : Seq(Entry), stop : Entry \cup {NoEntry},
   rest : Seq(Entry)]

PassStart ==
  [queue |-> queue, sent |-> {}, back |-> unmatched, stop |-> NoEntry, rest |-> <<>>]

-----------------------------------------------------------------------------
(* Sequences.                                                              *)

\* What append() adds is the last member.
LEMMA AppendAt ==
  ASSUME NEW S, NEW s \in Seq(S), NEW e \in S
  PROVE  /\ Append(s, e) \in Seq(S) /\ Len(Append(s, e)) = Len(s) + 1
         /\ \A i \in 1 .. Len(s) : Append(s, e)[i] = s[i]
         /\ Append(s, e)[Len(s) + 1] = e
OBVIOUS

\* What is left when the first member is taken.
LEMMA TailAt ==
  ASSUME NEW S, NEW s \in Seq(S), s # <<>>
  PROVE  /\ Tail(s) \in Seq(S) /\ Len(Tail(s)) = Len(s) - 1 /\ Len(s) \in Nat \ {0}
         /\ \A i \in 1 .. Len(s) - 1 : Tail(s)[i] = s[i + 1]
         /\ Head(s) = s[1] /\ s[1] \in S
OBVIOUS

\* The members of a sequence stand at its positions.
LEMMA MembersAt ==
  ASSUME NEW S, NEW s \in Seq(S)
  PROVE  /\ Len(s) \in Nat /\ DOMAIN s = 1 .. Len(s)
         /\ \A x : x \in ToSet(s) <=> \E i \in 1 .. Len(s) : s[i] = x
         /\ ToSet(s) \subseteq S
<1>1. Len(s) \in Nat /\ DOMAIN s = 1 .. Len(s) /\ \A i \in 1 .. Len(s) : s[i] \in S
  OBVIOUS
<1>2. \A x : x \in ToSet(s) <=> \E i \in 1 .. Len(s) : s[i] = x
  BY <1>1, Zenon DEF ToSet, Range
<1> QED
  BY <1>1, <1>2

-----------------------------------------------------------------------------
(* A pass of _deliver_pending().                                           *)

\* What put() queues for the publish e.
ItemOf(e) == [m |-> e.m, ack |-> IF AutoAcked(e.m) THEN 0 ELSE e.id]

\* Such an item belongs to the queue's type.
LEMMA ItemOfType ==
  ASSUME NEW e \in Entry
  PROVE  ItemOf(e) \in Item /\ ItemOf(e).m = e.m
<1> DEFINE a == IF AutoAcked(e.m) THEN 0 ELSE e.id
<1>1. e.m \in Messages /\ e.id \in 0 .. MaxId /\ (e.id = 0 <=> QoSOf[e.m] = 0) /\ QoSOf[e.m] \in 0 .. 2
  BY InboundAssumption DEF Entry
<1>2. MaxId \in Nat
  BY InboundAssumption
<1>3. a \in 0 .. MaxId /\ (a # 0 => QoSOf[e.m] > 0)
  BY <1>1, <1>2
<1> HIDE DEF a
<1> QED
  BY <1>1, <1>3 DEF Item, ItemOf, a

\* put() adds one item, at the end of one queue.
LEMMA PutFacts ==
  ASSUME NEW q \in Queues, NEW e \in Entry, TopicOf[e.m] \in Subscribed
  PROVE  /\ Put(q, e) \in Queues
         /\ \A t \in Subscribed \ {TopicOf[e.m]} : Put(q, e)[t] = q[t]
         /\ Put(q, e)[TopicOf[e.m]] = Append(q[TopicOf[e.m]], ItemOf(e))
<1> DEFINE t == TopicOf[e.m]
<1>1. q \in [Subscribed -> Seq(Item)] /\ ItemOf(e) \in Item
  BY ItemOfType DEF Queues
<1>2. q[t] \in Seq(Item)
  BY <1>1
<1>3. Append(q[t], ItemOf(e)) \in Seq(Item)
  BY <1>1, <1>2
<1>4. Put(q, e) = [q EXCEPT ![t] = Append(q[t], ItemOf(e))]
  BY <1>1, Zenon DEF Put, ItemOf
<1> QED
  BY <1>1, <1>3, <1>4 DEF Queues

\* One turn of the loop leads to a state of the loop.
LEMMA ConsiderType ==
  ASSUME NEW p \in PassState, NEW e \in Entry, entries \subseteq Subscribed
  PROVE  Consider(p, e) \in PassState
<1>1. /\ p.queue \in Queues /\ p.sent \in SUBSET Entry /\ p.back \in Seq(Entry)
      /\ p.stop \in Entry \cup {NoEntry} /\ p.rest \in Seq(Entry)
  BY DEF PassState
<1>2. Append(p.rest, e) \in Seq(Entry) /\ Append(p.back, e) \in Seq(Entry)
  BY <1>1
<1>3. p.sent \cup {e} \in SUBSET Entry
  BY <1>1
<1>4. HasRecipient(e.m) => Put(p.queue, e) \in Queues
  BY <1>1, PutFacts DEF HasRecipient
<1> QED
  BY <1>1, <1>2, <1>3, <1>4 DEF Consider, PassState

\* The loop of a pass: the states it goes through, one per publish it considers.
PassTrace(f) ==
  /\ f \in [0 .. Len(publishes) -> PassState]
  /\ f[0] = PassStart
  /\ \A n \in 1 .. Len(publishes) : f[n] = Consider(f[n - 1], publishes[n])

\* There is such a sequence of states, for as many publishes as there are.
LEMMA PassTraceExists == TypeInv => \E f : PassTrace(f)
<1> SUFFICES ASSUME TypeInv PROVE \E f : PassTrace(f)
  OBVIOUS
<1> DEFINE N == Len(publishes)
           Solves(f, n) == f[0] = PassStart /\ \A i \in 1 .. n : f[i] = Consider(f[i - 1], publishes[i])
           Bad == {n \in 0 .. N : ~\E f \in [0 .. n -> PassState] : Solves(f, n)}
<1>1. /\ N \in Nat /\ \A i \in 1 .. N : publishes[i] \in Entry
      /\ entries \subseteq Subscribed
  BY DEF TypeInv
<1>2. PassStart \in PassState
  BY DEF TypeInv, PassStart, PassState
<1>3. Bad = {}
  <2> SUFFICES ASSUME Bad # {} PROVE FALSE
    OBVIOUS
  <2>1. Bad \in SUBSET Nat
    BY <1>1
  <2>2. PICK n \in Bad : \A j \in Bad : n <= j
    BY <2>1, LeastNatural
  <2>3. n \in 0 .. N /\ ~\E f \in [0 .. n -> PassState] : Solves(f, n)
    BY <2>2
  <2>4. CASE n = 0
    <3> DEFINE g == [i \in 0 .. n |-> PassStart]
    <3>1. g \in [0 .. n -> PassState] /\ Solves(g, n)
      BY <1>2, <2>4
    <3> QED
      BY <2>3, <3>1
  <2>5. CASE n # 0
    <3>1. n \in Nat /\ n - 1 \in 0 .. N /\ ~(n <= n - 1)
      BY <1>1, <2>3, <2>5
    <3>2. PICK f \in [0 .. n - 1 -> PassState] : Solves(f, n - 1)
      <4>1. n - 1 \notin Bad
        BY <2>2, <3>1, Zenon
      <4> QED
        BY <3>1, <4>1, Zenon
    <3> DEFINE g == [i \in 0 .. n |-> IF i = n THEN Consider(f[n - 1], publishes[n]) ELSE f[i]]
    <3>3. f[n - 1] \in PassState /\ publishes[n] \in Entry
      BY <1>1, <2>3, <2>5, <3>1
    <3>4. Consider(f[n - 1], publishes[n]) \in PassState
      BY <1>1, <3>3, ConsiderType
    <3>5. g \in [0 .. n -> PassState]
      BY <3>1, <3>4
    <3>6. ASSUME NEW i \in 1 .. n PROVE g[i] = Consider(g[i - 1], publishes[i])
      <4>1. g[i - 1] = f[i - 1]
        BY <3>1
      <4>2. CASE i = n
        BY <3>1, <4>1, <4>2
      <4>3. CASE i # n
        <5>1. i \in 1 .. n - 1 /\ i \in 0 .. n
          BY <3>1, <4>3
        <5>2. g[i] = f[i] /\ f[i] = Consider(f[i - 1], publishes[i])
          BY <3>2, <4>3, <5>1
        <5> QED
          BY <4>1, <5>2, Zenon
      <4> QED
        BY <4>2, <4>3
    <3>7. g[0] = PassStart
      BY <3>1, <3>2, <2>5
    <3> QED
      BY <2>3, <3>5, <3>6, <3>7, Zenon
  <2> QED
    BY <2>4, <2>5
<1>4. \E f \in [0 .. N -> PassState] : Solves(f, N)
  BY <1>1, <1>3
<1> QED
  BY <1>4, Zenon DEF PassTrace

\* Pass is the last of these states.
LEMMA PassIsLast ==
  ASSUME TypeInv
  PROVE  \E f : PassTrace(f) /\ Pass = f[Len(publishes)]
<1> DEFINE N == Len(publishes)
           Defines(g) == g = [n \in 0 .. N |-> IF n = 0 THEN PassStart ELSE Consider(g[n - 1], publishes[n])]
           pass == CHOOSE g : Defines(g)
<1>1. N \in Nat
  BY DEF TypeInv
<1>2. Pass = pass[N]
  BY Zenon DEF Pass, PassStart
<1>3. PICK f : PassTrace(f)
  BY PassTraceExists
<1>4. Defines(f)
  <2>1. f = [n \in 0 .. N |-> f[n]] /\ f[0] = PassStart
    BY <1>3 DEF PassTrace
  <2>2. \A n \in 0 .. N : f[n] = IF n = 0 THEN PassStart ELSE Consider(f[n - 1], publishes[n])
    BY <1>1, <1>3 DEF PassTrace
  <2> QED
    BY <2>1, <2>2, Zenon
<1>5. Defines(pass)
  BY <1>4, Zenon
<1> HIDE DEF pass
<1>6. \A n \in 0 .. N : pass[n] = IF n = 0 THEN PassStart ELSE Consider(pass[n - 1], publishes[n])
  BY <1>5, Zenon
<1>7. \A n \in 0 .. N : pass[n] = f[n]
  <2> DEFINE Bad == {n \in 0 .. N : pass[n] # f[n]}
  <2> SUFFICES ASSUME Bad # {} PROVE FALSE
    OBVIOUS
  <2>1. Bad \in SUBSET Nat
    BY <1>1
  <2>2. PICK n \in Bad : \A j \in Bad : n <= j
    BY <2>1, LeastNatural
  <2>3. n \in 0 .. N /\ pass[n] # f[n]
    BY <2>2
  <2>4. CASE n = 0
    BY <1>3, <1>6, <2>3, <2>4, Zenon DEF PassTrace
  <2>5. CASE n # 0
    <3>1. n \in 1 .. N /\ n - 1 \in 0 .. N /\ ~(n <= n - 1)
      BY <1>1, <2>3, <2>5
    <3>2. pass[n - 1] = f[n - 1]
      BY <2>2, <3>1, Zenon
    <3>3. pass[n] = Consider(pass[n - 1], publishes[n])
      BY <1>6, <2>3, <2>5, Zenon
    <3>4. f[n] = Consider(f[n - 1], publishes[n])
      BY <1>3, <3>1, Zenon DEF PassTrace
    <3> QED
      BY <2>3, <3>2, <3>3, <3>4, Zenon
  <2> QED
    BY <2>4, <2>5
<1>8. Pass = f[N]
  <2>1. N \in 0 .. N
    BY <1>1
  <2> QED
    BY <1>2, <1>7, <2>1, Zenon
<1> QED
  BY <1>3, <1>8, Zenon

\* The four things one turn of the loop can do.
TurnRests(p, c, e) ==
  /\ p.stop # NoEntry
  /\ c.queue = p.queue /\ c.sent = p.sent /\ c.back = p.back /\ c.stop = p.stop
  /\ c.rest = Append(p.rest, e)

TurnPutsBack(p, c, e) ==
  /\ p.stop = NoEntry /\ (~HasRecipient(e.m) \/ Full(p.queue, e.m))
  /\ c.queue = p.queue /\ c.sent = p.sent /\ c.stop = p.stop /\ c.rest = p.rest
  /\ c.back = Append(p.back, e)

TurnStops(p, c, e) ==
  /\ p.stop = NoEntry /\ HasRecipient(e.m) /\ ~Full(p.queue, e.m) /\ AckedAtOnce(e.m)
  /\ c.queue = p.queue /\ c.sent = p.sent /\ c.back = p.back /\ c.rest = p.rest
  /\ c.stop = e

TurnSends(p, c, e) ==
  /\ p.stop = NoEntry /\ HasRecipient(e.m) /\ ~Full(p.queue, e.m) /\ ~AckedAtOnce(e.m)
  /\ c.back = p.back /\ c.stop = p.stop /\ c.rest = p.rest
  /\ c.queue = Put(p.queue, e) /\ c.sent = p.sent \cup {e}

\* Every turn does one of them.
LEMMA ConsiderCases ==
  ASSUME NEW p \in PassState, NEW e
  PROVE  LET c == Consider(p, e) IN
         TurnRests(p, c, e) \/ TurnPutsBack(p, c, e) \/ TurnStops(p, c, e) \/ TurnSends(p, c, e)
<1>1. CASE p.stop # NoEntry
  BY <1>1 DEF Consider, PassState, TurnRests
<1>2. CASE p.stop = NoEntry /\ (~HasRecipient(e.m) \/ Full(p.queue, e.m))
  BY <1>2 DEF Consider, PassState, TurnPutsBack
<1>3. CASE p.stop = NoEntry /\ HasRecipient(e.m) /\ ~Full(p.queue, e.m) /\ AckedAtOnce(e.m)
  BY <1>3 DEF Consider, PassState, TurnStops
<1>4. CASE p.stop = NoEntry /\ HasRecipient(e.m) /\ ~Full(p.queue, e.m) /\ ~AckedAtOnce(e.m)
  BY <1>4 DEF Consider, PassState, TurnSends
<1> QED
  BY <1>1, <1>2, <1>3, <1>4, Zenon

\* No publish is buffered twice.
Distinct ==
  /\ \A i, j \in 1 .. Len(publishes) : publishes[i] = publishes[j] => i = j
  /\ IsInjective(unmatched)
  /\ \A i \in 1 .. Len(publishes) : publishes[i] \notin ToSet(unmatched)

\* x was buffered before y, and neither has been put back by this pass.
Before(x, y) ==
  \E i, j \in 1 .. Len(publishes) : i < j /\ publishes[i] = x /\ publishes[j] = y

\* What the pass has done to the publishes it has considered: each was sent, put back
\* or stopped at, or is left for later.
Parts(p) == ToSet(p.back) \cup p.sent \cup ({p.stop} \ {NoEntry}) \cup ToSet(p.rest)
First(n) == {publishes[i] : i \in 1 .. n}

PassSets(p, n) ==
  /\ Parts(p) = ToSet(unmatched) \cup First(n)
  /\ IsInjective(p.back) /\ IsInjective(p.rest)
  /\ ToSet(p.back) \cap ToSet(p.rest) = {}
  /\ p.sent \cap (ToSet(p.back) \cup ToSet(p.rest)) = {}
  /\ p.stop \notin ToSet(p.back) \cup ToSet(p.rest) \cup p.sent
  /\ ToSet(unmatched) \subseteq ToSet(p.back)

PassRoute(p) ==
  /\ \A e \in p.sent : HasRecipient(e.m) /\ ~AckedAtOnce(e.m)
  /\ p.stop # NoEntry =>
       HasRecipient(p.stop.m) /\ AckedAtOnce(p.stop.m) /\ ~Full(p.queue, p.stop.m)
  /\ p.stop = NoEntry => p.rest = <<>>
  /\ \A e \in ToSet(p.back) \ ToSet(unmatched) : HasRecipient(e.m) => Full(p.queue, e.m)

PassQueue(p) ==
  \A t \in Subscribed :
    /\ Len(queue[t]) <= Len(p.queue[t])
    /\ \A k \in 1 .. Len(queue[t]) : p.queue[t][k] = queue[t][k]
    /\ \A k \in Len(queue[t]) + 1 .. Len(p.queue[t]) :
         \E e \in p.sent : p.queue[t][k] = ItemOf(e) /\ TopicOf[e.m] = t

PassOrder(p) ==
  /\ \A x \in p.sent \cup ({p.stop} \ {NoEntry}) :
       \A y \in (ToSet(p.back) \ ToSet(unmatched)) \cup ToSet(p.rest) :
         TopicOf[x.m] = TopicOf[y.m] => Before(x, y)
  /\ \A k, l \in 1 .. Len(p.back) :
       k < l /\ p.back[k] \notin ToSet(unmatched) /\ p.back[l] \notin ToSet(unmatched)
       => Before(p.back[k], p.back[l])
  /\ \A k, l \in 1 .. Len(p.rest) : k < l => Before(p.rest[k], p.rest[l])
  /\ p.stop # NoEntry => \A x \in p.sent : Before(x, p.stop)

\* NoEntry stands for no publish.
LEMMA NoEntryIsNone == NoEntry \notin Entry
BY InboundAssumption DEF NoEntry, Entry

\* One turn adds its publish to one of the parts.
LEMMA TurnSets ==
  ASSUME TypeInv, Distinct, NEW n \in 1 .. Len(publishes), NEW p \in PassState,
         PassSets(p, n - 1)
  PROVE  PassSets(Consider(p, publishes[n]), n)
<1> DEFINE e == publishes[n]
           c == Consider(p, e)
<1>1. /\ e \in Entry /\ p.back \in Seq(Entry) /\ p.rest \in Seq(Entry) /\ entries \subseteq Subscribed
      /\ Len(publishes) \in Nat
  BY DEF TypeInv, PassState
<1>2. First(n) = First(n - 1) \cup {e} /\ e \notin First(n - 1)
  BY <1>1 DEF Distinct, First
<1>3. e \notin ToSet(unmatched) /\ e # NoEntry
  BY <1>1, NoEntryIsNone DEF Distinct
<1>4. e \notin ToSet(p.back) /\ e \notin p.sent /\ e # p.stop /\ e \notin ToSet(p.rest)
  BY <1>2, <1>3, Zenon DEF PassSets, Parts
<1>5. /\ ToSet(Append(p.back, e)) = ToSet(p.back) \cup {e}
      /\ IsInjective(p.back) => IsInjective(Append(p.back, e))
  BY <1>1, <1>4, AppendQueue
<1>6. /\ ToSet(Append(p.rest, e)) = ToSet(p.rest) \cup {e}
      /\ IsInjective(p.rest) => IsInjective(Append(p.rest, e))
  BY <1>1, <1>4, AppendQueue
<1>7. TurnRests(p, c, e) \/ TurnPutsBack(p, c, e) \/ TurnStops(p, c, e) \/ TurnSends(p, c, e)
  BY ConsiderCases
<1> SUFFICES PassSets(c, n)
  OBVIOUS
<1> HIDE DEF e, c
<1>8. CASE TurnRests(p, c, e)
  BY <1>2, <1>3, <1>4, <1>6, <1>8 DEF TurnRests, PassSets, Parts
<1>9. CASE TurnPutsBack(p, c, e)
  BY <1>2, <1>3, <1>4, <1>5, <1>9 DEF TurnPutsBack, PassSets, Parts
<1>10. CASE TurnStops(p, c, e)
  BY <1>2, <1>3, <1>4, <1>10 DEF TurnStops, PassSets, Parts
<1>11. CASE TurnSends(p, c, e)
  BY <1>2, <1>3, <1>4, <1>11 DEF TurnSends, PassSets, Parts
<1> QED
  BY <1>7, <1>8, <1>9, <1>10, <1>11

\* A queue only grows during a pass.
LEMMA PutKeepsFull ==
  ASSUME NEW q \in Queues, NEW e \in Entry, TopicOf[e.m] \in Subscribed, NEW m,
         TopicOf[m] \in Subscribed, Full(q, m)
  PROVE  Full(Put(q, e), m)
<1>1. /\ \A t \in Subscribed \ {TopicOf[e.m]} : Put(q, e)[t] = q[t]
      /\ Put(q, e)[TopicOf[e.m]] = Append(q[TopicOf[e.m]], ItemOf(e))
  BY PutFacts
<1>2. q[TopicOf[e.m]] \in Seq(Item) /\ ItemOf(e) \in Item
  BY ItemOfType DEF Queues
<1>3. Len(Append(q[TopicOf[e.m]], ItemOf(e))) = Len(q[TopicOf[e.m]]) + 1
  BY <1>2
<1>4. QueueSize \in Nat /\ Len(q[TopicOf[e.m]]) \in Nat
  BY <1>2, InboundAssumption
<1> QED
  BY <1>1, <1>3, <1>4 DEF Full

\* One turn keeps to the routes of the subscriptions and to the room in the queues.
LEMMA TurnRoute ==
  ASSUME TypeInv, Distinct, NEW n \in 1 .. Len(publishes), NEW p \in PassState,
         PassSets(p, n - 1), PassRoute(p)
  PROVE  PassRoute(Consider(p, publishes[n]))
<1> DEFINE e == publishes[n]
           c == Consider(p, e)
<1>1. /\ e \in Entry /\ p.back \in Seq(Entry) /\ p.rest \in Seq(Entry) /\ entries \subseteq Subscribed
      /\ p.queue \in Queues
  BY DEF TypeInv, PassState
<1>2. e # NoEntry
  BY <1>1, NoEntryIsNone
<1>3. ToSet(Append(p.back, e)) = ToSet(p.back) \cup {e}
  BY <1>1, AppendQueue
<1>4. \A m : HasRecipient(e.m) /\ HasRecipient(m) /\ Full(p.queue, m) => Full(Put(p.queue, e), m)
  BY <1>1, PutKeepsFull DEF HasRecipient
<1>7. TurnRests(p, c, e) \/ TurnPutsBack(p, c, e) \/ TurnStops(p, c, e) \/ TurnSends(p, c, e)
  BY ConsiderCases
<1> SUFFICES PassRoute(c)
  OBVIOUS
<1> HIDE DEF e, c
<1>8. CASE TurnRests(p, c, e)
  BY <1>8, Zenon DEF TurnRests, PassRoute
<1>9. CASE TurnPutsBack(p, c, e)
  BY <1>3, <1>9 DEF TurnPutsBack, PassRoute
<1>10. CASE TurnStops(p, c, e)
  BY <1>2, <1>10, Zenon DEF TurnStops, PassRoute
<1>11. CASE TurnSends(p, c, e)
  <2>1. c.stop = NoEntry /\ c.rest = <<>>
    BY <1>11 DEF TurnSends, PassRoute
  <2>2. \A x \in c.sent : HasRecipient(x.m) /\ ~AckedAtOnce(x.m)
    BY <1>11 DEF TurnSends, PassRoute
  <2>3. \A x \in ToSet(c.back) \ ToSet(unmatched) : HasRecipient(x.m) => Full(c.queue, x.m)
    BY <1>4, <1>11 DEF TurnSends, PassRoute
  <2> QED
    BY <2>1, <2>2, <2>3, Zenon DEF PassRoute
<1> QED
  BY <1>7, <1>8, <1>9, <1>10, <1>11

\* One turn adds at most the item of the publish it sends.
LEMMA TurnQueue ==
  ASSUME TypeInv, NEW n \in 1 .. Len(publishes), NEW p \in PassState, PassQueue(p)
  PROVE  PassQueue(Consider(p, publishes[n]))
<1> DEFINE e == publishes[n]
           c == Consider(p, e)
<1>1. e \in Entry /\ p.queue \in Queues /\ entries \subseteq Subscribed
  BY DEF TypeInv, PassState
<1>7. TurnRests(p, c, e) \/ TurnPutsBack(p, c, e) \/ TurnStops(p, c, e) \/ TurnSends(p, c, e)
  BY ConsiderCases
<1> SUFFICES PassQueue(c)
  OBVIOUS
<1> HIDE DEF e, c
<1>8. CASE c.queue = p.queue /\ c.sent = p.sent
  BY <1>8 DEF PassQueue
<1>9. CASE TurnSends(p, c, e)
  <2>1. /\ TopicOf[e.m] \in Subscribed /\ c.queue = Put(p.queue, e) /\ c.sent = p.sent \cup {e}
    BY <1>1, <1>9 DEF TurnSends, HasRecipient
  <2> SUFFICES ASSUME NEW t \in Subscribed
               PROVE  /\ Len(queue[t]) <= Len(c.queue[t])
                      /\ \A k \in 1 .. Len(queue[t]) : c.queue[t][k] = queue[t][k]
                      /\ \A k \in Len(queue[t]) + 1 .. Len(c.queue[t]) :
                           \E x \in c.sent : c.queue[t][k] = ItemOf(x) /\ TopicOf[x.m] = t
    BY Zenon DEF PassQueue
  <2>2. /\ Len(queue[t]) <= Len(p.queue[t])
        /\ \A k \in 1 .. Len(queue[t]) : p.queue[t][k] = queue[t][k]
        /\ \A k \in Len(queue[t]) + 1 .. Len(p.queue[t]) :
             \E x \in p.sent : p.queue[t][k] = ItemOf(x) /\ TopicOf[x.m] = t
    BY DEF PassQueue
  <2>3. CASE t # TopicOf[e.m]
    <3>1. c.queue[t] = p.queue[t]
      BY <1>1, <2>1, <2>3, PutFacts
    <3> QED
      BY <2>1, <2>2, <3>1
  <2>4. CASE t = TopicOf[e.m]
    <3>1. c.queue[t] = Append(p.queue[t], ItemOf(e))
      BY <1>1, <2>1, <2>4, PutFacts
    <3>2. p.queue[t] \in Seq(Item) /\ ItemOf(e) \in Item /\ queue[t] \in Seq(Item)
      BY <1>1, ItemOfType DEF Queues, TypeInv
    <3>3. /\ Len(c.queue[t]) = Len(p.queue[t]) + 1
          /\ \A i \in 1 .. Len(p.queue[t]) : c.queue[t][i] = p.queue[t][i]
          /\ c.queue[t][Len(p.queue[t]) + 1] = ItemOf(e)
      BY <3>1, <3>2, AppendAt
    <3>4. Len(p.queue[t]) \in Nat /\ Len(queue[t]) \in Nat
      BY <3>2
    <3>5. ASSUME NEW k \in Len(queue[t]) + 1 .. Len(c.queue[t])
          PROVE  \E x \in c.sent : c.queue[t][k] = ItemOf(x) /\ TopicOf[x.m] = t
      <4>1. CASE k = Len(p.queue[t]) + 1
        BY <2>1, <2>4, <3>3, <4>1
      <4>2. CASE k # Len(p.queue[t]) + 1
        <5>1. k \in Len(queue[t]) + 1 .. Len(p.queue[t]) /\ k \in 1 .. Len(p.queue[t])
          BY <3>3, <3>4, <4>2
        <5>2. PICK x \in p.sent : p.queue[t][k] = ItemOf(x) /\ TopicOf[x.m] = t
          BY <2>2, <5>1, Zenon
        <5>3. c.queue[t][k] = ItemOf(x) /\ x \in c.sent
          BY <2>1, <3>3, <5>1, <5>2, Zenon
        <5> QED
          BY <5>2, <5>3, Zenon
      <4> QED
        BY <4>1, <4>2
    <3>6. \A k \in 1 .. Len(queue[t]) : c.queue[t][k] = queue[t][k]
      BY <2>2, <3>3, <3>4
    <3> QED
      BY <2>2, <3>3, <3>4, <3>5, <3>6
  <2> QED
    BY <2>3, <2>4
<1> QED
  BY <1>7, <1>8, <1>9 DEF TurnRests, TurnPutsBack, TurnStops

\* One turn keeps the order in which the publishes were buffered.
LEMMA TurnOrder ==
  ASSUME TypeInv, Distinct, NEW n \in 1 .. Len(publishes), NEW p \in PassState,
         PassSets(p, n - 1), PassRoute(p), PassOrder(p)
  PROVE  PassOrder(Consider(p, publishes[n]))
<1> DEFINE e == publishes[n]
           c == Consider(p, e)
<1>1. /\ e \in Entry /\ p.back \in Seq(Entry) /\ p.rest \in Seq(Entry) /\ Len(publishes) \in Nat
  BY DEF TypeInv, PassState
<1>2. ASSUME NEW x \in First(n - 1) PROVE Before(x, e)
  BY <1>1 DEF First, Before
<1>3. \A x \in Parts(p) \ ToSet(unmatched) : Before(x, e)
  BY <1>2, Zenon DEF PassSets
<1>4. /\ ToSet(Append(p.back, e)) = ToSet(p.back) \cup {e}
      /\ ToSet(Append(p.rest, e)) = ToSet(p.rest) \cup {e}
  BY <1>1, AppendQueue
<1>5. /\ Len(Append(p.back, e)) = Len(p.back) + 1 /\ Len(p.back) \in Nat
      /\ \A i \in 1 .. Len(p.back) : Append(p.back, e)[i] = p.back[i] /\ p.back[i] \in ToSet(p.back)
      /\ Append(p.back, e)[Len(p.back) + 1] = e
  BY <1>1, AppendAt, MembersAt
<1>6. /\ Len(Append(p.rest, e)) = Len(p.rest) + 1 /\ Len(p.rest) \in Nat
      /\ \A i \in 1 .. Len(p.rest) : Append(p.rest, e)[i] = p.rest[i] /\ p.rest[i] \in ToSet(p.rest)
      /\ Append(p.rest, e)[Len(p.rest) + 1] = e
  BY <1>1, AppendAt, MembersAt
<1>7. TurnRests(p, c, e) \/ TurnPutsBack(p, c, e) \/ TurnStops(p, c, e) \/ TurnSends(p, c, e)
  BY ConsiderCases
<1>12. /\ p.sent \cap ToSet(unmatched) = {} /\ p.stop \notin ToSet(unmatched)
       /\ ToSet(p.rest) \cap ToSet(unmatched) = {}
  BY Zenon DEF PassSets
<1>13. \A x \in p.sent \cup ({p.stop} \ {NoEntry}) : Before(x, e)
  BY <1>3, <1>12, Zenon DEF Parts
<1> SUFFICES PassOrder(c)
  OBVIOUS
<1> HIDE DEF e, c
<1>8. CASE TurnRests(p, c, e)
  <2>1. \A k \in 1 .. Len(p.rest) : Before(p.rest[k], e)
    BY <1>3, <1>6, <1>12, Zenon DEF Parts
  <2>2. \A k, l \in 1 .. Len(c.rest) : k < l => Before(c.rest[k], c.rest[l])
    <3> SUFFICES ASSUME NEW k \in 1 .. Len(c.rest), NEW l \in 1 .. Len(c.rest), k < l
                 PROVE  Before(c.rest[k], c.rest[l])
      OBVIOUS
    <3>1. c.rest = Append(p.rest, e) /\ k \in 1 .. Len(p.rest)
      BY <1>6, <1>8 DEF TurnRests
    <3>2. CASE l = Len(p.rest) + 1
      BY <1>6, <2>1, <3>1, <3>2
    <3>3. CASE l # Len(p.rest) + 1
      <4>1. l \in 1 .. Len(p.rest)
        BY <1>6, <3>1, <3>3
      <4> QED
        BY <1>6, <3>1, <4>1 DEF PassOrder
    <3> QED
      BY <3>2, <3>3
  <2>3. \A x \in c.sent \cup ({c.stop} \ {NoEntry}) :
          \A y \in (ToSet(c.back) \ ToSet(unmatched)) \cup ToSet(c.rest) :
            TopicOf[x.m] = TopicOf[y.m] => Before(x, y)
    BY <1>4, <1>8, <1>13 DEF TurnRests, PassOrder
  <2> QED
    BY <1>8, <2>2, <2>3 DEF TurnRests, PassOrder
<1>9. CASE TurnPutsBack(p, c, e)
  <2>1. \A k \in 1 .. Len(p.back) : p.back[k] \notin ToSet(unmatched) => Before(p.back[k], e)
    BY <1>3, <1>5, Zenon DEF Parts
  <2>2. \A k, l \in 1 .. Len(c.back) :
          k < l /\ c.back[k] \notin ToSet(unmatched) /\ c.back[l] \notin ToSet(unmatched)
          => Before(c.back[k], c.back[l])
    <3> SUFFICES ASSUME NEW k \in 1 .. Len(c.back), NEW l \in 1 .. Len(c.back), k < l,
                        c.back[k] \notin ToSet(unmatched), c.back[l] \notin ToSet(unmatched)
                 PROVE  Before(c.back[k], c.back[l])
      OBVIOUS
    <3>1. c.back = Append(p.back, e) /\ k \in 1 .. Len(p.back)
      BY <1>5, <1>9 DEF TurnPutsBack
    <3>2. CASE l = Len(p.back) + 1
      BY <1>5, <2>1, <3>1, <3>2
    <3>3. CASE l # Len(p.back) + 1
      <4>1. l \in 1 .. Len(p.back)
        BY <1>5, <3>1, <3>3
      <4> QED
        BY <1>5, <3>1, <4>1 DEF PassOrder
    <3> QED
      BY <3>2, <3>3
  <2>3. \A x \in c.sent \cup ({c.stop} \ {NoEntry}) :
          \A y \in (ToSet(c.back) \ ToSet(unmatched)) \cup ToSet(c.rest) :
            TopicOf[x.m] = TopicOf[y.m] => Before(x, y)
    BY <1>4, <1>9, <1>13 DEF TurnPutsBack, PassOrder
  <2> QED
    BY <1>9, <2>2, <2>3 DEF TurnPutsBack, PassOrder
<1>10. CASE TurnStops(p, c, e) \/ TurnSends(p, c, e)
  <2>1. /\ p.stop = NoEntry /\ HasRecipient(e.m) /\ ~Full(p.queue, e.m)
        /\ c.back = p.back /\ c.rest = p.rest
        /\ c.sent \cup ({c.stop} \ {NoEntry}) \subseteq p.sent \cup {e}
    BY <1>10 DEF TurnStops, TurnSends
  <2>2. ToSet(c.rest) = {}
    BY <2>1 DEF PassRoute, ToSet
  <2>3. ASSUME NEW y \in ToSet(c.back) \ ToSet(unmatched), TopicOf[e.m] = TopicOf[y.m]
        PROVE  FALSE
    BY <2>1, <2>3 DEF PassRoute, HasRecipient, Full
  <2>4. \A x \in c.sent \cup ({c.stop} \ {NoEntry}) :
          \A y \in (ToSet(c.back) \ ToSet(unmatched)) \cup ToSet(c.rest) :
            TopicOf[x.m] = TopicOf[y.m] => Before(x, y)
    BY <2>1, <2>2, <2>3 DEF PassOrder
  <2>5. c.stop # NoEntry => \A x \in c.sent : Before(x, c.stop)
    BY <1>10, <1>13, <2>1 DEF TurnStops, TurnSends
  <2> QED
    BY <2>1, <2>4, <2>5 DEF PassOrder
<1> QED
  BY <1>7, <1>8, <1>9, <1>10

\* The items a pass has queued that can be acknowledged are all different.
PassItems(p) ==
  \A t \in Subscribed : \A k, l \in Len(queue[t]) + 1 .. Len(p.queue[t]) :
    k # l /\ p.queue[t][k].ack # 0 => p.queue[t][k] # p.queue[t][l]

\* A turn sends a publish that was not sent before.
LEMMA TurnItems ==
  ASSUME TypeInv, Distinct, NEW n \in 1 .. Len(publishes), NEW p \in PassState, PassSets(p, n - 1), PassQueue(p),
         PassItems(p)
  PROVE  PassItems(Consider(p, publishes[n]))
<1> DEFINE e == publishes[n]
           c == Consider(p, e)
<1>1. e \in Entry /\ p.queue \in Queues /\ entries \subseteq Subscribed /\ Len(publishes) \in Nat
  BY DEF TypeInv, PassState
<1>2. e \notin First(n - 1) /\ e \notin ToSet(unmatched)
  BY <1>1 DEF Distinct, First
<1>3. e \notin p.sent
  BY <1>2, Zenon DEF PassSets, Parts
<1>4. TurnRests(p, c, e) \/ TurnPutsBack(p, c, e) \/ TurnStops(p, c, e) \/ TurnSends(p, c, e)
  BY ConsiderCases
<1> SUFFICES PassItems(c)
  OBVIOUS
<1> HIDE DEF e, c
<1>5. CASE c.queue = p.queue
  BY <1>5 DEF PassItems
<1>6. CASE TurnSends(p, c, e)
  <2>1. TopicOf[e.m] \in Subscribed /\ c.queue = Put(p.queue, e)
    BY <1>1, <1>6 DEF TurnSends, HasRecipient
  <2> SUFFICES ASSUME NEW t \in Subscribed
               PROVE  \A k, l \in Len(queue[t]) + 1 .. Len(c.queue[t]) :
                        k # l /\ c.queue[t][k].ack # 0 => c.queue[t][k] # c.queue[t][l]
    BY Zenon DEF PassItems
  <2>2. \A k, l \in Len(queue[t]) + 1 .. Len(p.queue[t]) : k # l /\ p.queue[t][k].ack # 0 => p.queue[t][k] # p.queue[t][l]
    BY DEF PassItems
  <2>3. CASE t # TopicOf[e.m]
    <3>1. c.queue[t] = p.queue[t]
      BY <1>1, <2>1, <2>3, PutFacts
    <3> QED
      BY <2>2, <3>1
  <2>4. CASE t = TopicOf[e.m]
    <3>1. c.queue[t] = Append(p.queue[t], ItemOf(e))
      BY <1>1, <2>1, <2>4, PutFacts
    <3>2. p.queue[t] \in Seq(Item) /\ ItemOf(e) \in Item /\ queue[t] \in Seq(Item)
      BY <1>1, ItemOfType DEF Queues, TypeInv
    <3> DEFINE L == Len(p.queue[t])
               M == Len(queue[t])
               x == ItemOf(e)
    <3>3. Len(c.queue[t]) = L + 1 /\ (\A i \in 1 .. L : c.queue[t][i] = p.queue[t][i]) /\ c.queue[t][L + 1] = x
      BY <3>1, <3>2, AppendAt
    <3>4. L \in Nat /\ M \in Nat
      BY <3>2
    <3>5. ASSUME NEW k \in M + 1 .. L, p.queue[t][k] = x, x.ack # 0 PROVE FALSE
      <4>1. PICK y \in p.sent : p.queue[t][k] = ItemOf(y)
        BY <3>5 DEF PassQueue
      <4>2. y \in Entry
        BY DEF PassState
      <4>3. ItemOf(y).m = ItemOf(e).m /\ ItemOf(y).ack = ItemOf(e).ack /\ ItemOf(e).ack # 0
        BY <3>5, <4>1
      <4>4. y.m = e.m /\ y.id = e.id
        BY <4>3 DEF ItemOf
      <4>5. y = e
        BY <1>1, <4>2, <4>4 DEF Entry
      <4> QED
        BY <1>3, <4>5
    <3> HIDE DEF L, M, x
    <3> SUFFICES ASSUME NEW k \in M + 1 .. L + 1, NEW l \in M + 1 .. L + 1, k # l, c.queue[t][k].ack # 0,
                        c.queue[t][k] = c.queue[t][l]
                 PROVE  FALSE
      BY <3>3 DEF M
    <3>6. \A j \in M + 1 .. L + 1 : (j \in M + 1 .. L /\ c.queue[t][j] = p.queue[t][j]) \/ (j = L + 1 /\ c.queue[t][j] = x)
      BY <3>3, <3>4
    <3>7. (k \in M + 1 .. L /\ c.queue[t][k] = p.queue[t][k]) \/ (k = L + 1 /\ c.queue[t][k] = x)
      BY <3>6
    <3>8. (l \in M + 1 .. L /\ c.queue[t][l] = p.queue[t][l]) \/ (l = L + 1 /\ c.queue[t][l] = x)
      BY <3>6
    <3>9. \A i, j \in M + 1 .. L : i # j /\ p.queue[t][i].ack # 0 => p.queue[t][i] # p.queue[t][j]
      BY <2>2 DEF L, M
    <3> QED
      BY <3>5, <3>7, <3>8, <3>9
  <2> QED
    BY <2>3, <2>4
<1> QED
  BY <1>4, <1>5, <1>6 DEF TurnRests, TurnPutsBack, TurnStops

\* What a pass of any length has done.
PassFacts(p, n) == PassSets(p, n) /\ PassRoute(p) /\ PassQueue(p) /\ PassItems(p) /\ PassOrder(p)

\* The pass as a whole: it has considered every publish.
LEMMA PassResult ==
  ASSUME TypeInv, Distinct
  PROVE  Pass \in PassState /\ PassFacts(Pass, Len(publishes))
<1> DEFINE N == Len(publishes)
<1>1. N \in Nat /\ unmatched \in Seq(Entry)
  BY DEF TypeInv
<1>2. PICK f : PassTrace(f) /\ Pass = f[N]
  BY PassIsLast
<1>3. PassFacts(PassStart, 0)
  <2>1. /\ PassStart.queue = queue /\ PassStart.sent = {} /\ PassStart.back = unmatched
        /\ PassStart.stop = NoEntry /\ PassStart.rest = <<>>
    BY DEF PassStart
  <2>2. ToSet(<<>>) = {} /\ IsInjective(<<>>) /\ Len(<<>>) = 0 /\ First(0) = {}
    BY DEF ToSet, IsInjective, First
  <2>3. NoEntry \notin ToSet(unmatched)
    BY <1>1, NoEntryIsNone, MembersAt
  <2>4. PassSets(PassStart, 0)
    BY <2>1, <2>2, <2>3 DEF PassSets, Parts, Distinct
  <2>5. PassRoute(PassStart)
    BY <2>1 DEF PassRoute
  <2>6. PassQueue(PassStart)
    BY <2>1 DEF PassQueue, TypeInv, Queues
  <2>7. PassOrder(PassStart)
    <3>1. \A k \in 1 .. Len(unmatched) : unmatched[k] \in ToSet(unmatched)
      BY <1>1, MembersAt
    <3> QED
      BY <2>1, <2>2, <3>1 DEF PassOrder
  <2>8. PassItems(PassStart)
    <3>1. \A t \in Subscribed : Len(queue[t]) \in Nat
      BY DEF TypeInv, Queues
    <3>2. \A t \in Subscribed : Len(queue[t]) + 1 .. Len(PassStart.queue[t]) = {}
      BY <2>1, <3>1
    <3> QED
      BY <3>2 DEF PassItems
  <2> QED
    BY <2>4, <2>5, <2>6, <2>7, <2>8 DEF PassFacts
<1>4. ASSUME NEW n \in 1 .. N, PassFacts(f[n - 1], n - 1) PROVE PassFacts(f[n], n)
  <2>1. f[n - 1] \in PassState /\ f[n] = Consider(f[n - 1], publishes[n])
    BY <1>1, <1>2 DEF PassTrace
  <2>2. PassSets(f[n], n)
    BY <1>4, <2>1, TurnSets DEF PassFacts
  <2>3. PassRoute(f[n])
    BY <1>4, <2>1, TurnRoute DEF PassFacts
  <2>4. PassQueue(f[n])
    BY <1>4, <2>1, TurnQueue DEF PassFacts
  <2>5. PassOrder(f[n])
    BY <1>4, <2>1, TurnOrder DEF PassFacts
  <2>6. PassItems(f[n])
    BY <1>4, <2>1, TurnItems DEF PassFacts
  <2> QED
    BY <2>2, <2>3, <2>4, <2>5, <2>6 DEF PassFacts
<1>5. \A n \in 0 .. N : PassFacts(f[n], n)
  <2> DEFINE Bad == {n \in 0 .. N : ~PassFacts(f[n], n)}
  <2> SUFFICES ASSUME Bad # {} PROVE FALSE
    OBVIOUS
  <2>1. Bad \in SUBSET Nat
    BY <1>1
  <2>2. PICK n \in Bad : \A j \in Bad : n <= j
    BY <2>1, LeastNatural
  <2>3. n \in 0 .. N /\ ~PassFacts(f[n], n)
    BY <2>2
  <2>4. CASE n = 0
    BY <1>2, <1>3, <2>3, <2>4 DEF PassTrace
  <2>5. CASE n # 0
    <3>1. n \in 1 .. N /\ n - 1 \in 0 .. N /\ ~(n <= n - 1)
      BY <1>1, <2>3, <2>5
    <3>2. PassFacts(f[n - 1], n - 1)
      BY <2>2, <3>1, Zenon
    <3> QED
      BY <1>4, <2>3, <3>1, <3>2, Zenon
  <2> QED
    BY <2>4, <2>5
<1>6. N \in 0 .. N
  BY <1>1
<1>7. Pass \in PassState
  BY <1>2, <1>6 DEF PassTrace
<1> QED
  BY <1>2, <1>5, <1>6, <1>7, Zenon

-----------------------------------------------------------------------------
(* The broker's session.                                                   *)

\* The identifiers in use are those of the messages in flight, each of one of them;
\* no more are in flight than the client has asked for.
BrokerInv ==
  /\ \A m \in Messages : /\ m \in InFlight <=> bid[m] # 0
                         /\ QoSOf[m] = 0 => bstate[m] \in {"queued", "done"}
                         /\ bstate[m] = "rel" => QoSOf[m] = 2
  /\ \A m, n \in InFlight : bid[m] = bid[n] => m = n
  /\ IsFiniteSet(InFlight)
  /\ ReceiveMaximum # 0 => Cardinality(InFlight) <= ReceiveMaximum

\* The lowest free identifier is free.
LEMMA FreeIdIsFree ==
  ASSUME FreeIds # {}
  PROVE  Min(FreeIds) \in PacketId /\ Min(FreeIds) \notin {bid[m] : m \in InFlight}
<1>1. FreeIds \in SUBSET Nat
  BY InboundAssumption DEF FreeIds, PacketId
<1>2. Min(FreeIds) \in FreeIds
  BY <1>1, LeastNatural
<1> QED
  BY <1>2 DEF FreeIds

\* The identifiers of the broker and of the client's counters are the same kind of
\* number, and a message in flight has one.
LEMMA IdTypes ==
  ASSUME TypeInv, BrokerInv
  PROVE  /\ \A m \in InFlight : bid[m] \in PacketId /\ QoSOf[m] \in 1 .. 2 /\ m \in Messages
         /\ \A m \in Messages : QoSOf[m] \in 0 .. 2 /\ bid[m] \in 0 .. MaxId
         /\ MaxId \in Nat /\ 0 \notin Messages /\ 0 \notin PacketId
<1>1. /\ bid \in [Messages -> 0 .. MaxId] /\ QoSOf \in [Messages -> 0 .. 2] /\ MaxId \in Nat
      /\ 0 \notin Messages /\ 0 \notin PacketId
  BY InboundAssumption DEF TypeInv, PacketId
<1>2. ASSUME NEW m \in InFlight PROVE m \in Messages /\ bid[m] \in PacketId /\ QoSOf[m] \in 1 .. 2
  <2>1. m \in Messages /\ bid[m] # 0 /\ QoSOf[m] # 0
    BY DEF InFlight, BrokerInv
  <2> QED
    BY <1>1, <2>1 DEF PacketId
<1> QED
  BY <1>1, <1>2

\* What the broker resends, from the lowest message to the highest.
LEMMA InOrderFacts ==
  ASSUME NEW S \in SUBSET Nat, IsFiniteSet(S)
  PROVE  /\ Cardinality(S) \in Nat
         /\ InOrder(S) \in [1 .. Cardinality(S) -> S]
         /\ \A i, j \in 1 .. Cardinality(S) : i < j => InOrder(S)[i] < InOrder(S)[j]
<1> DEFINE Ordered(T, s) == \A i, j \in DOMAIN s : i < j => s[i] < s[j]
           Sorts(T) == \E s \in [1 .. Cardinality(T) -> T] : Ordered(T, s)
           Bad == {n \in Nat : \E T \in SUBSET Nat : IsFiniteSet(T) /\ Cardinality(T) = n /\ ~Sorts(T)}
<1>1. Bad = {}
  <2> SUFFICES ASSUME Bad # {} PROVE FALSE
    OBVIOUS
  <2>1. Bad \in SUBSET Nat
    OBVIOUS
  <2>2. PICK n \in Bad : \A j \in Bad : n <= j
    BY <2>1, LeastNatural
  <2>3. PICK T \in SUBSET Nat : IsFiniteSet(T) /\ Cardinality(T) = n /\ ~Sorts(T)
    BY <2>2
  <2>4. n \in Nat
    BY <2>2
  <2>5. CASE T = {}
    <3>1. Cardinality(T) = 0
      BY <2>5, FS_EmptySet
    <3>2. 1 .. Cardinality(T) = {}
      BY <3>1
    <3> DEFINE s == [i \in 1 .. Cardinality(T) |-> i]
    <3>3. s \in [1 .. Cardinality(T) -> T] /\ Ordered(T, s)
      BY <3>2
    <3> QED
      BY <2>3, <3>3
  <2>6. CASE T # {}
    <3> DEFINE least == Min(T)
               U == T \ {least}
    <3>1. least \in T /\ \A j \in T : least <= j
      BY <2>3, <2>6, LeastNatural
    <3>2. IsFiniteSet(U) /\ Cardinality(U) = n - 1
      BY <2>3, <3>1, FS_RemoveElement
    <3>3. n \in Nat \ {0}
      <4>1. Cardinality(U) \in Nat
        BY <3>2, FS_CardinalityType
      <4> QED
        BY <2>4, <3>2, <4>1
    <3>4. Sorts(U)
      <4>1. n - 1 \in Nat /\ ~(n <= n - 1)
        BY <3>3
      <4>2. n - 1 \notin Bad
        BY <2>2, <4>1, Zenon
      <4>3. U \in SUBSET Nat
        OBVIOUS
      <4> HIDE DEF U
      <4> QED
        BY <3>2, <4>1, <4>2, <4>3
    <3>5. PICK s \in [1 .. n - 1 -> U] : Ordered(U, s)
      BY <3>2, <3>4
    <3> DEFINE z == [i \in 1 .. n |-> IF i = 1 THEN least ELSE s[i - 1]]
    <3>6. z \in [1 .. n -> T]
      BY <3>1, <3>3
    <3>7. ASSUME NEW i \in 1 .. n, NEW j \in 1 .. n, i < j PROVE z[i] < z[j]
      <4>1. j - 1 \in 1 .. n - 1 /\ z[j] = s[j - 1] /\ s[j - 1] \in U
        BY <3>3, <3>7
      <4>2. CASE i = 1
        <5>1. z[i] = least /\ least <= s[j - 1] /\ s[j - 1] # least /\ least \in Nat /\ s[j - 1] \in Nat
          BY <3>1, <4>1, <4>2
        <5> QED
          BY <4>1, <5>1
      <4>3. CASE i # 1
        <5>1. i - 1 \in 1 .. n - 1 /\ z[i] = s[i - 1] /\ i - 1 < j - 1
          BY <3>3, <3>7, <4>3
        <5> QED
          BY <3>5, <4>1, <5>1
      <4> QED
        BY <4>2, <4>3
    <3> HIDE DEF z
    <3>8. DOMAIN z = 1 .. n
      BY <3>6
    <3> QED
      BY <2>3, <3>6, <3>7, <3>8
  <2> QED
    BY <2>5, <2>6
<1>2. Cardinality(S) \in Nat
  BY FS_CardinalityType
<1>3. Sorts(S)
  BY <1>1, <1>2
<1>4. InOrder(S) \in [1 .. Cardinality(S) -> S] /\ Ordered(S, InOrder(S))
  BY <1>3, Zenon DEF InOrder
<1> QED
  BY <1>2, <1>4

-----------------------------------------------------------------------------
(* Types.                                                                  *)

Read == [m : Messages, id : 0 .. MaxId]

\* What the read loop takes from the wire.
LEMMA ReadsFacts ==
  ASSUME TypeInv, NEW e \in Read, NEW type \in {"PUBLISH", "PUBREL"}, Reads(e, type)
  PROVE  /\ conn = "up" /\ rl = NoEntry
         /\ Len(toClient) \in Nat \ {0} /\ toClient[1] = [type |-> type, id |-> e.id, m |-> e.m]
         /\ Tail(toClient) \in Seq(ToClientPacket) /\ Len(Tail(toClient)) = Len(toClient) - 1
         /\ \A i \in 1 .. Len(toClient) - 1 : Tail(toClient)[i] = toClient[i + 1]
         /\ type = "PUBLISH" => e \in Entry
         /\ type = "PUBREL" => e.id \in PacketId
<1>1. /\ conn = "up" /\ rl = NoEntry /\ toClient # <<>>
      /\ Head(toClient) = [type |-> type, id |-> e.id, m |-> e.m]
  BY DEF Reads
<1>2. /\ Tail(toClient) \in Seq(ToClientPacket) /\ Len(Tail(toClient)) = Len(toClient) - 1
      /\ Len(toClient) \in Nat \ {0}
      /\ \A i \in 1 .. Len(toClient) - 1 : Tail(toClient)[i] = toClient[i + 1]
      /\ Head(toClient) = toClient[1] /\ toClient[1] \in ToClientPacket
  <2>1. toClient \in Seq(ToClientPacket)
    BY DEF TypeInv
  <2> QED
    BY <1>1, <2>1, TailAt
<1>3. [type |-> type, id |-> e.id, m |-> e.m] \in ToClientPacket
  BY <1>1, <1>2
<1>4. type = "PUBLISH" => e \in Entry
  BY <1>3 DEF ToClientPacket, Entry, Read
<1>5. type = "PUBREL" => e.id \in PacketId
  BY <1>3, InboundAssumption DEF ToClientPacket, Read, PacketId
<1> QED
  BY <1>1, <1>2, <1>4, <1>5

\* The ghosts of delivery keep their types.
LEMMA GhostTypes ==
  ASSUME TypeInv, NEW ms, NEW what \in {"queued", "dropped", "acked"}
  PROVE  /\ CountPuts(ms) => puts' \in [Messages -> 0 .. 2]
         /\ Note(ms, what) => fate' \in [Messages -> SUBSET {"queued", "dropped", "acked"}]
<1>1. CountPuts(ms) => puts' \in [Messages -> 0 .. 2]
  BY DEF TypeInv, CountPuts
<1>2. Note(ms, what) => fate' \in [Messages -> SUBSET {"queued", "dropped", "acked"}]
  BY DEF TypeInv, Note
<1> QED
  BY <1>1, <1>2

\* The acknowledgements the client writes.
LEMMA AckTypes ==
  ASSUME TypeInv, NEW type \in {"PUBACK", "PUBREC", "PUBCOMP"}, NEW id \in PacketId
  PROVE  /\ Ack(type, id) \in ToBrokerPacket
         /\ Append(toBroker, Ack(type, id)) \in Seq(ToBrokerPacket)
<1>1. Ack(type, id) \in ToBrokerPacket
  BY DEF Ack, ToBrokerPacket
<1>2. toBroker \in Seq(ToBrokerPacket)
  BY DEF TypeInv
<1> QED
  BY <1>1, <1>2

\* A publish with an identifier has one in 1 .. MaxId.
LEMMA EntryId ==
  ASSUME NEW e \in Entry
  PROVE  /\ e.m \in Messages /\ QoSOf[e.m] \in 0 .. 2 /\ e.id \in 0 .. MaxId
         /\ QoSOf[e.m] # 0 => e.id \in PacketId
         /\ QoSOf[e.m] = 0 => e.id = 0
<1>1. e.m \in Messages /\ e.id \in 0 .. MaxId /\ (e.id = 0 <=> QoSOf[e.m] = 0)
  BY DEF Entry
<1>2. QoSOf[e.m] \in 0 .. 2 /\ MaxId \in Nat
  BY <1>1, InboundAssumption
<1> QED
  BY <1>1, <1>2 DEF PacketId

\* Delivery.
LEMMA DeliverType ==
  ASSUME TypeInv, NEW e \in Entry, TopicOf[e.m] \in Subscribed,
         NEW quota \in SUBSET PacketId, Deliver(e, quota)
  PROVE  /\ queue' \in Queues /\ puts' \in [Messages -> 0 .. 2]
         /\ fate' \in [Messages -> SUBSET {"queued", "dropped", "acked"}]
         /\ unack' \subseteq PacketId /\ toBroker' \in Seq(ToBrokerPacket)
<1>1. queue' \in Queues
  BY PutFacts DEF Deliver, TypeInv
<1>2. puts' \in [Messages -> 0 .. 2]
  BY GhostTypes DEF Deliver
<1>3. fate' \in [Messages -> SUBSET {"queued", "dropped", "acked"}]
  BY GhostTypes DEF Deliver
<1>4. QoSOf[e.m] = 1 => Append(toBroker, Ack("PUBACK", e.id)) \in Seq(ToBrokerPacket)
  BY AckTypes, EntryId
<1>5. unack' \subseteq PacketId /\ toBroker' \in Seq(ToBrokerPacket)
  BY <1>4 DEF Deliver, Complete, TypeInv
<1> QED
  BY <1>1, <1>2, <1>3, <1>5

\* A flight begins.
LEMMA FlightType ==
  ASSUME TypeInv, NEW id \in PacketId, NEW f \in Flight,
         inflight2' = [inflight2 EXCEPT ![id] = f],
         toBroker' = Append(toBroker, Ack("PUBREC", id))
  PROVE  /\ inflight2' \in [PacketId -> Flight \cup {NoFlight}]
         /\ toBroker' \in Seq(ToBrokerPacket)
<1>1. inflight2' \in [PacketId -> Flight \cup {NoFlight}]
  BY DEF TypeInv
<1>2. toBroker' \in Seq(ToBrokerPacket)
  BY AckTypes
<1> QED
  BY <1>1, <1>2

\* The end of run().
LEMMA ResetType ==
  ASSUME TypeInv, Reset, conn' \in {"up", "down", "failed"},
         failure' \in {"none", "quota", "overflow"}, UNCHANGED broker
  PROVE  TypeInv'
<1>1. \A t \in Subscribed :
        [i \in DOMAIN queue[t] |-> [queue[t][i] EXCEPT !.ack = 0]] \in Seq(Item)
  <2> SUFFICES ASSUME NEW t \in Subscribed
               PROVE  [i \in DOMAIN queue[t] |-> [queue[t][i] EXCEPT !.ack = 0]] \in Seq(Item)
    OBVIOUS
  <2>1. queue[t] \in Seq(Item)
    BY DEF TypeInv, Queues
  <2>2. \A x \in Item : [x EXCEPT !.ack = 0] \in Item
    BY InboundAssumption DEF Item
  <2> QED
    BY <2>1, <2>2
<1>2. queue' \in Queues
  BY <1>1 DEF Reset, Queues
<1>3. cut' \subseteq Messages
  <2>1. \A i \in PacketId : inflight2[i].put => inflight2[i].m \in Messages
    BY DEF TypeInv, Flight, NoFlight
  <2> QED
    BY <2>1 DEF Reset, TypeInv
<1>4. inflight2' \in [PacketId -> Flight \cup {NoFlight}]
  BY DEF Reset
<1>5. drain' \in [Drainers -> {"idle", "suback", "wants", "writing"}]
  BY DEF Reset
<1>6. hand' \in [Subscribed -> Item \cup {Nothing}] /\ puts' \in [Messages -> 0 .. 2]
  BY DEF Reset
<1>7. /\ toClient' \in Seq(ToClientPacket) /\ toBroker' \in Seq(ToBrokerPacket)
      /\ publishes' \in Seq(Entry) /\ unmatched' \in Seq(Entry)
  BY DEF Reset
<1> QED
  BY <1>2, <1>3, <1>4, <1>5, <1>6, <1>7 DEF Reset, TypeInv, broker

\* The handlers of PUBLISH and PUBREL keep the types.
LEMMA ReadLoopType ==
  ASSUME TypeInv, NEW e \in Read, HandlePublish(e) \/ HandlePubrel(e)
  PROVE  TypeInv'
<1> USE DEF broker, flow, buffer, app
<1>1. CASE Reads(e, "PUBLISH") /\ HandlePublish(e)
  <2>1. e \in Entry /\ Tail(toClient) \in Seq(ToClientPacket)
    BY <1>1, ReadsFacts
  <2>2. /\ e.m \in Messages /\ QoSOf[e.m] \in 0 .. 2
        /\ QoSOf[e.m] # 0 => e.id \in PacketId
    BY <2>1, EntryId
  <2>3. Quota(e) \in SUBSET PacketId
    BY <2>2 DEF Quota, TypeInv
  <2>4. CASE PublishOverQuota(e)
    BY <2>4, ResetType DEF PublishOverQuota, Fail
  <2>5. CASE PublishAccepted(e)
    <3>1. toBroker' \in Seq(ToBrokerPacket)
      BY <2>2, <2>5, AckTypes DEF PublishAccepted, Accepted
    <3> QED
      BY <2>1, <2>3, <2>5, <3>1 DEF PublishAccepted, TypeInv
  <2>6. CASE PublishKnown(e)
    BY <2>1, <2>3, <2>6 DEF PublishKnown, TypeInv
  <2>7. CASE PublishOverflows(e)
    BY <2>7, ResetType DEF PublishOverflows, Fail
  <2>8. CASE PublishBuffered(e)
    BY <2>1, <2>3, <2>8 DEF PublishBuffered, TypeInv
  <2>9. CASE PublishDropped(e)
    <3>1. fate' \in [Messages -> SUBSET {"queued", "dropped", "acked"}]
      BY <2>9, GhostTypes DEF PublishDropped
    <3>2. unack' \subseteq PacketId
      BY <2>3, <2>9 DEF PublishDropped, Complete, TypeInv
    <3>3. toBroker' \in Seq(ToBrokerPacket) /\ inflight2' \in [PacketId -> Flight \cup {NoFlight}]
      <4>1. CASE QoSOf[e.m] = 0
        BY <2>9, <4>1 DEF PublishDropped, TypeInv
      <4>2. CASE QoSOf[e.m] = 1
        <5>1. e.id \in PacketId /\ toBroker' = Append(toBroker, Ack("PUBACK", e.id)) /\ inflight2' = inflight2
          BY <2>2, <2>9, <4>2 DEF PublishDropped
        <5> QED
          BY <5>1, AckTypes DEF TypeInv
      <4>3. CASE QoSOf[e.m] = 2
        <5>1. [m |-> e.m, put |-> FALSE] \in Flight
          BY <2>2, <4>3 DEF Flight
        <5> QED
          BY <2>2, <2>9, <4>3, <5>1, FlightType DEF PublishDropped, Accept2
      <4> QED
        BY <2>2, <4>1, <4>2, <4>3
    <3> QED
      BY <2>1, <2>9, <3>1, <3>2, <3>3 DEF PublishDropped, TypeInv
  <2>10. CASE PublishAccept2(e)
    <3>1. toBroker' \in Seq(ToBrokerPacket) /\ inflight2' \in [PacketId -> Flight \cup {NoFlight}]
      <4>1. [m |-> e.m, put |-> TRUE] \in Flight
        BY <2>2, <2>10 DEF Flight, PublishAccept2, HasRecipient, TypeInv
      <4>2. e.id \in PacketId
        BY <2>2, <2>10 DEF PublishAccept2
      <4>3. /\ inflight2' = [inflight2 EXCEPT ![e.id] = [m |-> e.m, put |-> TRUE]]
            /\ toBroker' = Append(toBroker, Ack("PUBREC", e.id))
        BY <2>10, Zenon DEF PublishAccept2, Accept2
      <4> QED
        BY <4>1, <4>2, <4>3, FlightType
    <3> QED
      BY <2>1, <2>3, <2>10, <3>1 DEF PublishAccept2, TypeInv
  <2>11. CASE PublishRouted(e)
    <3>1. TopicOf[e.m] \in Subscribed
      BY <2>11 DEF PublishRouted, HasRecipient, TypeInv
    <3>2. pendingAck2' \subseteq PacketId
      BY <2>2, <2>11 DEF PublishRouted, TypeInv
    <3>3. CASE Full(queue, e.m)
      BY <2>1, <2>3, <2>11, <3>1, <3>2, <3>3 DEF PublishRouted, TypeInv
    <3>4. CASE ~Full(queue, e.m)
      <4>1. Deliver(e, Quota(e)) /\ rl' = rl
        BY <2>11, <3>4 DEF PublishRouted
      <4>2. /\ queue' \in Queues /\ puts' \in [Messages -> 0 .. 2]
            /\ fate' \in [Messages -> SUBSET {"queued", "dropped", "acked"}]
            /\ unack' \subseteq PacketId /\ toBroker' \in Seq(ToBrokerPacket)
        BY <2>1, <2>3, <3>1, <4>1, DeliverType
      <4> QED
        BY <2>1, <2>11, <3>2, <4>1, <4>2 DEF PublishRouted, TypeInv
    <3> QED
      BY <3>3, <3>4
  <2> QED
    BY <1>1, <2>4, <2>5, <2>6, <2>7, <2>8, <2>9, <2>10, <2>11 DEF HandlePublish
<1>2. CASE HandlePubrel(e)
  <2>1. e.id \in PacketId /\ Tail(toClient) \in Seq(ToClientPacket)
    BY <1>2, ReadsFacts DEF HandlePubrel
  <2>2. toBroker' \in Seq(ToBrokerPacket)
    BY <1>2, <2>1, AckTypes DEF HandlePubrel
  <2>3. unack' \subseteq PacketId
    BY <1>2 DEF HandlePubrel, Complete, TypeInv
  <2>4. inflight2' \in [PacketId -> Flight \cup {NoFlight}]
    BY <1>2, <2>1 DEF HandlePubrel, TypeInv
  <2>5. rl' \in {x \in Entry : TopicOf[x.m] \in Subscribed} \cup {NoEntry}
    <3>1. CASE ~inflight2[e.id].put
      BY <1>2, <3>1 DEF HandlePubrel
    <3>2. CASE inflight2[e.id].put
      <4>1. inflight2[e.id] \in Flight /\ rl' = [m |-> inflight2[e.id].m, id |-> e.id]
        BY <1>2, <2>1, <3>2 DEF HandlePubrel, TypeInv, NoFlight
      <4>2. /\ inflight2[e.id].m \in Messages /\ QoSOf[inflight2[e.id].m] = 2
            /\ TopicOf[inflight2[e.id].m] \in Subscribed
        BY <3>2, <4>1 DEF Flight
      <4>3. e.id \in 0 .. MaxId /\ e.id # 0
        BY <2>1, InboundAssumption DEF PacketId
      <4> QED
        BY <4>1, <4>2, <4>3 DEF Entry
    <3> QED
      BY <3>1, <3>2
  <2> QED
    BY <1>2, <2>1, <2>2, <2>3, <2>4, <2>5 DEF HandlePubrel, TypeInv
<1>3. HandlePublish(e) => Reads(e, "PUBLISH")
  BY DEF HandlePublish, PublishOverQuota, PublishAccepted, PublishKnown, PublishOverflows,
         PublishBuffered, PublishDropped, PublishAccept2, PublishRouted, Fresh
<1> QED
  BY <1>1, <1>2, <1>3

\* So does put() of the read loop.
LEMMA ReadLoopPutsType == TypeInv /\ ReadLoopPuts => TypeInv'
<1> SUFFICES ASSUME TypeInv, ReadLoopPuts PROVE TypeInv'
  OBVIOUS
<1>1. rl \in Entry /\ TopicOf[rl.m] \in Subscribed
  BY DEF TypeInv, ReadLoopPuts
<1>2. unack \in SUBSET PacketId /\ Deliver(rl, unack)
  BY DEF TypeInv, ReadLoopPuts
<1>3. /\ queue' \in Queues /\ puts' \in [Messages -> 0 .. 2]
      /\ fate' \in [Messages -> SUBSET {"queued", "dropped", "acked"}]
      /\ unack' \subseteq PacketId /\ toBroker' \in Seq(ToBrokerPacket)
  BY <1>1, <1>2, DeliverType
<1> QED
  BY <1>3 DEF ReadLoopPuts, TypeInv, broker, flow, buffer, app

\* The tasks that drain.
LEMMA DrainersOf ==
  /\ \A t \in Subscribed : <<"sub", t>> \in Drainers /\ <<"get", t>> \in Drainers
  /\ Expiry \in Drainers
BY DEF Drainers

\* Subscribing, reading and the timeout of the replay buffer keep the types.
LEMMA ConsumerType ==
  ASSUME TypeInv,
         \/ \E t \in Subscribed : Subscribe(t) \/ Subscribes(t) \/ GetMessage(t)
         \/ ReplayTimesOut
  PROVE  TypeInv'
<1> USE DEF broker, wire, flow, buffer, app
<1>1. ASSUME NEW t \in Subscribed, Subscribe(t) PROVE TypeInv'
  <2>1. drain' \in [Drainers -> {"idle", "suback", "wants", "writing"}]
    BY <1>1, DrainersOf DEF Subscribe, TypeInv
  <2> QED
    BY <1>1, <2>1 DEF Subscribe, TypeInv
<1>2. ASSUME NEW t \in Subscribed, Subscribes(t) PROVE TypeInv'
  <2>1. drain' \in [Drainers -> {"idle", "suback", "wants", "writing"}]
    BY <1>2, DrainersOf DEF Subscribes, TypeInv, BeginDrain
  <2> QED
    BY <1>2, <2>1 DEF Subscribes, TypeInv
<1>3. ASSUME NEW t \in Subscribed, GetMessage(t) PROVE TypeInv'
  <2>1. drain' \in [Drainers -> {"idle", "suback", "wants", "writing"}]
    BY <1>3, DrainersOf DEF GetMessage, TypeInv, BeginDrain
  <2>2. queue[t] \in Seq(Item) /\ queue[t] # <<>> /\ queue \in [Subscribed -> Seq(Item)]
    BY <1>3 DEF GetMessage, TypeInv, Queues
  <2>3. Tail(queue[t]) \in Seq(Item) /\ Head(queue[t]) \in Item
    BY <2>2
  <2>4. queue' \in Queues
    BY <1>3, <2>2, <2>3 DEF GetMessage, Queues
  <2>5. hand' \in [Subscribed -> Item \cup {Nothing}]
    BY <1>3, <2>3 DEF GetMessage, TypeInv
  <2>6. appHeld' \subseteq {x \in Item : x.ack # 0}
    BY <1>3, <2>3 DEF GetMessage, Hand, TypeInv
  <2> QED
    BY <1>3, <2>1, <2>4, <2>5, <2>6 DEF GetMessage, TypeInv
<1>4. CASE ReplayTimesOut
  <2>1. drain' \in [Drainers -> {"idle", "suback", "wants", "writing"}]
    BY <1>4, DrainersOf DEF ReplayTimesOut, TypeInv
  <2> QED
    BY <1>4, <2>1 DEF ReplayTimesOut, TypeInv
<1> QED
  BY <1>1, <1>2, <1>3, <1>4

\* A pass keeps the types.
LEMMA DrainType ==
  ASSUME TypeInv, Distinct, NEW d \in Drainers, Drain(d)
  PROVE  TypeInv'
<1> USE DEF broker, wire, flow, buffer, app
<1>1. Pass \in PassState /\ PassRoute(Pass)
  BY PassResult DEF PassFacts
<1>2. /\ Pass.queue \in Queues /\ Pass.sent \in SUBSET Entry /\ Pass.back \in Seq(Entry)
      /\ Pass.stop \in Entry \cup {NoEntry} /\ Pass.rest \in Seq(Entry)
  BY <1>1 DEF PassState
<1>3. pendingAck2 \cup AwaitingAck(Pass) \subseteq PacketId
  <2>1. \A e \in Pass.sent : QoSOf[e.m] = 2 => e.id \in PacketId
    BY <1>2, EntryId
  <2> QED
    BY <2>1 DEF AwaitingAck, TypeInv
<1>4. Remaining(Pass) \subseteq Entry
  BY DEF Remaining, TypeInv
<1>5. CASE DrainDelivers(d)
  <2> DEFINE e == Pass.stop
  <2>1. e \in Entry /\ TopicOf[e.m] \in Subscribed /\ QoSOf[e.m] \in 1 .. 2 /\ e.id \in PacketId
    <3>1. e \in Entry /\ HasRecipient(e.m) /\ AckedAtOnce(e.m)
      BY <1>1, <1>2, <1>5 DEF DrainDelivers, PassRoute
    <3>2. QoSOf[e.m] # 0 /\ TopicOf[e.m] \in Subscribed
      BY <3>1 DEF HasRecipient, AckedAtOnce, TypeInv
    <3>3. QoSOf[e.m] \in 0 .. 2 /\ e.id \in PacketId
      BY <3>1, <3>2, EntryId
    <3> QED
      BY <3>1, <3>2, <3>3
  <2>2. /\ publishes' = Pass.rest /\ unmatched' = Pass.back
        /\ held' = Remaining(Pass) /\ current' = Pass.stop
        /\ drain' = [drain EXCEPT ![d] = "writing"]
        /\ pendingAck2' = pendingAck2 \cup AwaitingAck(Pass)
        /\ UNCHANGED <<conn, failure, connections, broker, toClient, rl, entries, replay, app, cut>>
    BY <1>5, Zenon DEF DrainDelivers
  <2>3. drain' \in [Drainers -> {"idle", "suback", "wants", "writing"}]
    BY <2>2 DEF TypeInv
  <2>4. /\ queue' \in Queues
        /\ puts' \in [Messages -> 0 .. 2]
        /\ fate' \in [Messages -> SUBSET {"queued", "dropped", "acked"}]
        /\ unack' \subseteq PacketId /\ toBroker' \in Seq(ToBrokerPacket)
        /\ inflight2' \in [PacketId -> Flight \cup {NoFlight}]
    <3>1. CASE QoSOf[e.m] = 1
      <4>1. /\ queue' = Put(Pass.queue, e)
            /\ CountPuts(DeliveredBySend(Pass) \cup {e.m})
            /\ Note(DeliveredBySend(Pass) \cup {e.m}, "queued")
            /\ unack' = Complete(unack, e.id)
            /\ toBroker' = Append(toBroker, Ack("PUBACK", e.id))
            /\ UNCHANGED inflight2
        BY <1>5, <3>1, Zenon DEF DrainDelivers
      <4>2. queue' \in Queues
        BY <1>2, <2>1, <4>1, PutFacts
      <4>3. puts' \in [Messages -> 0 .. 2]
        BY <4>1, GhostTypes
      <4>4. fate' \in [Messages -> SUBSET {"queued", "dropped", "acked"}]
        BY <4>1, GhostTypes
      <4>5. toBroker' \in Seq(ToBrokerPacket)
        BY <2>1, <4>1, AckTypes
      <4> QED
        BY <4>1, <4>2, <4>3, <4>4, <4>5 DEF TypeInv, Complete
    <3>2. CASE QoSOf[e.m] # 1
      <4>1. /\ queue' = Pass.queue
            /\ CountPuts(DeliveredBySend(Pass)) /\ Note(DeliveredBySend(Pass), "queued")
            /\ inflight2' = [inflight2 EXCEPT ![e.id] = [m |-> e.m, put |-> TRUE]]
            /\ toBroker' = Append(toBroker, Ack("PUBREC", e.id))
            /\ UNCHANGED unack
        BY <1>5, <3>2, Zenon DEF DrainDelivers, Accept2
      <4>2. [m |-> e.m, put |-> TRUE] \in Flight
        BY <2>1, <3>2 DEF Flight, Entry
      <4>3. puts' \in [Messages -> 0 .. 2]
        BY <4>1, GhostTypes
      <4>4. fate' \in [Messages -> SUBSET {"queued", "dropped", "acked"}]
        BY <4>1, GhostTypes
      <4>5. toBroker' \in Seq(ToBrokerPacket) /\ inflight2' \in [PacketId -> Flight \cup {NoFlight}]
        BY <2>1, <4>1, <4>2, FlightType
      <4> QED
        BY <1>2, <4>1, <4>3, <4>4, <4>5 DEF TypeInv
    <3> QED
      BY <3>1, <3>2
  <2> QED
    BY <1>2, <1>3, <1>4, <2>2, <2>3, <2>4 DEF TypeInv
<1>6. CASE DrainEnds(d)
  <2> DEFINE next == AfterPass(d, Pass)
             over == {x \in Drainers : x = d \/ (drain[x] = "wants" /\ next # "buffered")}
             back == {t \in Subscribed : <<"get", t>> \in over}
  <2>1. /\ replay' = next
        /\ publishes' = (IF next = "buffered" THEN Pass.back ELSE <<>>)
        /\ held' = (IF next = "buffered" THEN Remaining(Pass) ELSE {})
        /\ unmatched' = <<>> /\ current' = NoEntry
        /\ queue' = Pass.queue
        /\ pendingAck2' = pendingAck2 \cup AwaitingAck(Pass)
        /\ CountPuts(DeliveredBySend(Pass)) /\ Note(DeliveredBySend(Pass), "queued")
        /\ Hand({hand[t] : t \in back})
        /\ hand' = [t \in Subscribed |-> IF t \in back THEN Nothing ELSE hand[t]]
        /\ drain' = [x \in Drainers |-> IF x \in over THEN "idle" ELSE drain[x]]
        /\ UNCHANGED <<conn, failure, connections, broker, wire, rl, entries, inflight2, unack, cut>>
    BY <1>6, Zenon DEF DrainEnds
  <2>2. puts' \in [Messages -> 0 .. 2]
    BY <2>1, GhostTypes
  <2>3. fate' \in [Messages -> SUBSET {"queued", "dropped", "acked"}]
    BY <2>1, GhostTypes
  <2>4. drain' \in [Drainers -> {"idle", "suback", "wants", "writing"}]
    BY <2>1 DEF TypeInv
  <2>5. hand' \in [Subscribed -> Item \cup {Nothing}]
    BY <2>1 DEF TypeInv
  <2>6. appHeld' \subseteq {x \in Item : x.ack # 0}
    <3>1. \A t \in back : hand[t] \in Item \cup {Nothing}
      BY DEF TypeInv
    <3>2. {x \in {hand[t] : t \in back} : x.ack # 0} \subseteq {x \in Item : x.ack # 0}
      <4>1. Nothing.ack = 0
        BY DEF Nothing
      <4> HIDE DEF back
      <4> QED
        BY <3>1, <4>1
    <3> QED
      BY <2>1, <3>2 DEF Hand, TypeInv
  <2>7. publishes' \in Seq(Entry) /\ held' \subseteq Entry /\ unmatched' \in Seq(Entry)
    BY <1>2, <1>4, <2>1
  <2>8. replay' \in {"none", "idle", "buffered"}
    BY <2>1 DEF AfterPass
  <2> HIDE DEF next, over, back
  <2> QED
    BY <1>2, <1>3, <2>1, <2>2, <2>3, <2>4, <2>5, <2>6, <2>7, <2>8 DEF TypeInv
<1> QED
  BY <1>5, <1>6 DEF Drain

\* ack() keeps the types.
LEMMA AppAckType ==
  ASSUME TypeInv, NEW x \in appHeld, AppAck(x)
  PROVE  TypeInv'
<1> USE DEF broker, wire, flow, buffer, app
<1>1. /\ x \in Item /\ x.ack # 0
  BY DEF TypeInv
<1>2. x.m \in Messages /\ QoSOf[x.m] \in 1 .. 2 /\ x.ack \in PacketId
  <2>1. x.m \in Messages /\ x.ack \in 0 .. MaxId /\ QoSOf[x.m] > 0
    BY <1>1 DEF Item
  <2>2. QoSOf[x.m] \in 0 .. 2 /\ MaxId \in Nat
    BY <2>1, InboundAssumption
  <2> QED
    BY <1>1, <2>1, <2>2 DEF PacketId
<1>3. fate' \in [Messages -> SUBSET {"queued", "dropped", "acked"}]
  BY GhostTypes DEF AppAck
<1>4. CASE QoSOf[x.m] = 1
  <2>1. toBroker' \in Seq(ToBrokerPacket)
    BY <1>2, <1>4, AckTypes DEF AppAck
  <2> QED
    BY <1>3, <1>4, <2>1 DEF AppAck, Complete, TypeInv
<1>5. CASE QoSOf[x.m] # 1
  <2>1. /\ inflight2' = [inflight2 EXCEPT ![x.ack] = [m |-> x.m, put |-> FALSE]]
        /\ toBroker' = Append(toBroker, Ack("PUBREC", x.ack))
    BY <1>5 DEF AppAck, Accept2
  <2>2. [m |-> x.m, put |-> FALSE] \in Flight
    BY <1>2, <1>5 DEF Flight
  <2>3. toBroker' \in Seq(ToBrokerPacket) /\ inflight2' \in [PacketId -> Flight \cup {NoFlight}]
    BY <1>2, <2>1, <2>2, FlightType
  <2> QED
    BY <1>3, <1>5, <2>3 DEF AppAck, TypeInv
<1> QED
  BY <1>4, <1>5

\* The steps of the broker and of the connection keep the types.
LEMMA BrokerType ==
  ASSUME TypeInv, BrokerInv,
         \/ Broker \/ ConnectionLost \/ Reconnect
         \/ \E m \in Messages : BrokerRetransmits(m)
  PROVE  TypeInv'
<1> USE DEF broker, wire, flow, buffer, app
<1>1. /\ \A m \in InFlight : bid[m] \in PacketId /\ QoSOf[m] \in 1 .. 2 /\ m \in Messages
      /\ \A m \in Messages : QoSOf[m] \in 0 .. 2 /\ bid[m] \in 0 .. MaxId
      /\ MaxId \in Nat /\ 0 \notin PacketId
  BY IdTypes
<1>2. ASSUME NEW m \in Messages, NEW id \in PacketId, QoSOf[m] # 0
      PROVE  Publish(m, id) \in ToClientPacket
  BY <1>1, <1>2 DEF ToClientPacket, Publish, PacketId
<1>3. ASSUME NEW m \in Messages, NEW id \in PacketId
      PROVE  Pubrel(m, id) \in ToClientPacket
  BY <1>1, <1>3 DEF ToClientPacket, Pubrel, PacketId
<1>4. toClient \in Seq(ToClientPacket) /\ \A x \in ToClientPacket : Append(toClient, x) \in Seq(ToClientPacket)
  BY DEF TypeInv
<1>5. ASSUME NEW m \in Messages, BrokerSends0(m) PROVE TypeInv'
  <2>1. Publish(m, 0) \in ToClientPacket
    BY <1>1, <1>5 DEF ToClientPacket, Publish, BrokerSends0
  <2> QED
    BY <1>4, <1>5, <2>1 DEF BrokerSends0, TypeInv
<1>6. ASSUME NEW m \in Messages, BrokerSends(m) PROVE TypeInv'
  <2>1. Min(FreeIds) \in PacketId /\ QoSOf[m] # 0
    BY <1>6, FreeIdIsFree DEF BrokerSends
  <2>2. toClient' \in Seq(ToClientPacket)
    BY <1>2, <1>4, <1>6, <2>1 DEF BrokerSends
  <2>3. bid' \in [Messages -> 0 .. MaxId]
    BY <1>6, <2>1 DEF BrokerSends, TypeInv, PacketId
  <2>4. bstate' \in [Messages -> {"queued", "sent", "rel", "done"}]
    BY <1>6 DEF BrokerSends, TypeInv
  <2> QED
    BY <1>6, <2>2, <2>3, <2>4 DEF BrokerSends, TypeInv
<1>7. CASE BrokerReceives
  <2> DEFINE p == Head(toBroker)
             ends == {m \in Messages : Completes(p, m)}
             rels == {m \in InFlight : p.type = "PUBREC" /\ bid[m] = p.id /\ QoSOf[m] = 2}
             sends == [i \in 1 .. Cardinality(rels) |-> Pubrel(CHOOSE m \in rels : TRUE, p.id)]
  <2>1. /\ toBroker # <<>> /\ toBroker' = Tail(toBroker)
        /\ bstate' = [m \in Messages |-> IF m \in ends THEN "done"
                                         ELSE IF m \in rels THEN "rel" ELSE bstate[m]]
        /\ bid' = [m \in Messages |-> IF m \in ends THEN 0 ELSE bid[m]]
        /\ toClient' = toClient \o sends
        /\ resends' = resends \ rels
        /\ UNCHANGED <<conn, failure, connections, rl, flow, buffer, drain, queue, app, puts, fate, cut>>
    BY <1>7, Zenon DEF BrokerReceives
  <2>2. Tail(toBroker) \in Seq(ToBrokerPacket) /\ p \in ToBrokerPacket
    BY <2>1 DEF TypeInv
  <2>3. Cardinality(rels) \in Nat /\ (Cardinality(rels) # 0 => rels # {})
    <3>1. IsFiniteSet(rels)
      BY FS_Subset DEF BrokerInv
    <3> QED
      BY <3>1, FS_CardinalityType, FS_EmptySet
  <2>4. rels # {} => Pubrel(CHOOSE m \in rels : TRUE, p.id) \in ToClientPacket
    <3> SUFFICES ASSUME rels # {} PROVE Pubrel(CHOOSE m \in rels : TRUE, p.id) \in ToClientPacket
      OBVIOUS
    <3>1. (CHOOSE m \in rels : TRUE) \in rels
      BY Zenon
    <3>2. (CHOOSE m \in rels : TRUE) \in Messages /\ p.id \in PacketId
      BY <1>1, <2>2, <3>1 DEF ToBrokerPacket
    <3> QED
      BY <1>3, <3>2
  <2>5. sends \in Seq(ToClientPacket)
    <3> HIDE DEF rels
    <3> QED
      BY <2>3, <2>4
  <2>6. toClient' \in Seq(ToClientPacket)
    BY <1>4, <2>1, <2>5
  <2>7. bstate' \in [Messages -> {"queued", "sent", "rel", "done"}] /\ bid' \in [Messages -> 0 .. MaxId]
    BY <1>1, <2>1 DEF TypeInv
  <2> QED
    BY <2>1, <2>2, <2>6, <2>7 DEF TypeInv
<1>8. ASSUME NEW m \in Messages, BrokerRetransmits(m) PROVE TypeInv'
  <2>1. m \in InFlight
    BY <1>8 DEF BrokerRetransmits, InFlight
  <2>2. Publish(m, bid[m]) \in ToClientPacket
    BY <1>1, <1>2, <2>1
  <2> QED
    BY <1>4, <1>8, <2>2 DEF BrokerRetransmits, TypeInv
<1>9. CASE ConnectionLost
  BY <1>9, ResetType DEF ConnectionLost, TypeInv
<1>10. CASE Reconnect
  <2>1. \A m \in InFlight : Resend(m) \in ToClientPacket
    BY <1>1, <1>2, <1>3 DEF Resend
  <2>2. /\ InOrder(InFlight) \in [1 .. Cardinality(InFlight) -> InFlight]
        /\ Cardinality(InFlight) \in Nat
    <3>1. InFlight \in SUBSET Nat /\ IsFiniteSet(InFlight)
      BY InboundAssumption DEF InFlight, BrokerInv
    <3> QED
      BY <3>1, InOrderFacts
  <2>3. toClient' = [i \in 1 .. Cardinality(InFlight) |-> Resend(InOrder(InFlight)[i])]
    BY <1>10 DEF Reconnect
  <2>4. toClient' \in Seq(ToClientPacket)
    BY <2>1, <2>2, <2>3
  <2> QED
    BY <1>10, <2>4 DEF Reconnect, TypeInv
<1> QED
  BY <1>5, <1>6, <1>7, <1>8, <1>9, <1>10 DEF Broker

\* A call of get_message() or subscribe() is cancelled.
Cancelled ==
  \/ \E d \in Drainers \ {Expiry} : CancelWait(d) \/ CancelWrite(d)
  \/ \E t \in Subscribed : TakeCancelled(t)

\* What a concatenation holds at a place.
LEMMA ConcatAt ==
  ASSUME NEW S, NEW a \in Seq(S), NEW b \in Seq(S)
  PROVE  /\ ToSet(a \o b) = ToSet(a) \cup ToSet(b)
         /\ \A i \in 1 .. Len(a \o b) :
              \/ i \in 1 .. Len(a) /\ (a \o b)[i] = a[i]
              \/ i > Len(a) /\ i - Len(a) \in 1 .. Len(b) /\ (a \o b)[i] = b[i - Len(a)]
<1> DEFINE c == a \o b
<1>1. /\ c \in Seq(S) /\ Len(c) = Len(a) + Len(b)
      /\ \A i \in 1 .. Len(a) : c[i] = a[i]
      /\ \A i \in 1 .. Len(b) : c[Len(a) + i] = b[i]
  BY ConcatMembers
<1>2. Len(a) \in Nat /\ Len(b) \in Nat
  OBVIOUS
<1> HIDE DEF c
<1>3. ASSUME NEW i \in 1 .. Len(c), i \notin 1 .. Len(a)
      PROVE  i > Len(a) /\ i - Len(a) \in 1 .. Len(b) /\ c[i] = b[i - Len(a)]
  <2>1. i > Len(a) /\ i - Len(a) \in 1 .. Len(b) /\ Len(a) + (i - Len(a)) = i
    BY <1>1, <1>2, <1>3
  <2> QED
    BY <1>1, <2>1
<1>4. /\ \A x : x \in ToSet(a) <=> \E i \in 1 .. Len(a) : a[i] = x
      /\ \A x : x \in ToSet(b) <=> \E i \in 1 .. Len(b) : b[i] = x
      /\ \A x : x \in ToSet(c) <=> \E i \in 1 .. Len(c) : c[i] = x
  BY <1>1, MembersAt
<1>5. ASSUME NEW x \in ToSet(c) PROVE x \in ToSet(a) \cup ToSet(b)
  BY <1>1, <1>3, <1>4
<1>6. ASSUME NEW x \in ToSet(a) PROVE x \in ToSet(c)
  <2>1. PICK i \in 1 .. Len(a) : a[i] = x
    BY <1>4
  <2>2. i \in 1 .. Len(c) /\ c[i] = x
    BY <1>1, <1>2, <2>1
  <2> QED
    BY <1>4, <2>2
<1>7. ASSUME NEW x \in ToSet(b) PROVE x \in ToSet(c)
  <2>1. PICK i \in 1 .. Len(b) : b[i] = x
    BY <1>4
  <2>2. Len(a) + i \in 1 .. Len(c) /\ c[Len(a) + i] = x
    BY <1>1, <1>2, <2>1
  <2> QED
    BY <1>4, <2>2
<1>8. ToSet(c) = ToSet(a) \cup ToSet(b)
  BY <1>5, <1>6, <1>7
<1>9. \A i \in 1 .. Len(c) :
        \/ i \in 1 .. Len(a) /\ c[i] = a[i]
        \/ i > Len(a) /\ i - Len(a) \in 1 .. Len(b) /\ c[i] = b[i - Len(a)]
  BY <1>1, <1>3
<1> QED
  BY <1>8, <1>9 DEF c

\* A wait that is cancelled leaves everything but the task and what it had taken.
LEMMA WaitFacts ==
  ASSUME NEW d, CancelWait(d)
  PROVE  /\ d # Expiry /\ drain[d] = "wants" /\ missed' = TRUE
         /\ drain' = [drain EXCEPT ![d] = "idle"]
         /\ hand' = [t \in Subscribed |-> IF d = <<"get", t>> THEN Nothing ELSE hand[t]]
         /\ UNCHANGED <<conn, failure, connections, bstate, bid, resends, toClient, toBroker, rl, entries,
                        inflight2, pendingAck2, unack, replay, publishes, unmatched, held, current,
                        queue, appHeld, puts, fate, cut, requeued>>
<1>1. UNCHANGED <<conn, failure, connections, broker, wire, rl, flow, buffer, queue, appHeld,
                  puts, fate, cut, requeued>>
  BY Zenon DEF CancelWait
<1>2. UNCHANGED <<conn, failure, connections, bstate, bid, resends, toClient, toBroker, rl, entries,
                  inflight2, pendingAck2, unack, replay, publishes, unmatched, held, current,
                  queue, appHeld, puts, fate, cut, requeued>>
  BY <1>1 DEF broker, wire, flow, buffer
<1> QED
  BY <1>2, Zenon DEF CancelWait, Gone

\* A write that is cancelled puts the rest of its pass back.
LEMMA WriteFacts ==
  ASSUME NEW d, CancelWrite(d)
  PROVE  /\ d # Expiry /\ drain[d] = "writing" /\ missed' = TRUE /\ requeued' = TRUE
         /\ drain' = [drain EXCEPT ![d] = "idle"]
         /\ hand' = [t \in Subscribed |-> IF d = <<"get", t>> THEN Nothing ELSE hand[t]]
         /\ publishes' = Append(unmatched, current) \o publishes
         /\ unmatched' = <<>> /\ current' = NoEntry
         /\ UNCHANGED <<conn, failure, connections, bstate, bid, resends, toClient, toBroker, rl, entries,
                        inflight2, pendingAck2, unack, replay, held, queue, appHeld, puts, fate, cut>>
<1>1. UNCHANGED <<conn, failure, connections, broker, wire, rl, flow, replay, held, queue,
                  appHeld, puts, fate, cut>>
  BY Zenon DEF CancelWrite
<1>2. UNCHANGED <<conn, failure, connections, bstate, bid, resends, toClient, toBroker, rl, entries,
                  inflight2, pendingAck2, unack, replay, held, queue, appHeld, puts, fate, cut>>
  BY <1>1 DEF broker, wire, flow
<1> QED
  BY <1>2, Zenon DEF CancelWrite, Gone

\* A call that is cancelled with its message changes nothing but the queue.
LEMMA TakeFacts ==
  ASSUME NEW t, TakeCancelled(t)
  PROVE  /\ conn # "failed" /\ hand[t] = Nothing /\ queue[t] # <<>>
         /\ queue' = [queue EXCEPT ![t] = Tail(@)]
         /\ missed' = (missed \/ replay = "buffered")
         /\ UNCHANGED <<conn, failure, connections, bstate, bid, resends, toClient, toBroker, rl, entries,
                        inflight2, pendingAck2, unack, replay, publishes, unmatched, held, current,
                        drain, hand, appHeld, puts, fate, cut, requeued>>
<1>1. UNCHANGED <<conn, failure, connections, broker, wire, rl, flow, buffer, drain, app, puts,
                  fate, cut, requeued>>
  BY Zenon DEF TakeCancelled
<1>2. UNCHANGED <<conn, failure, connections, bstate, bid, resends, toClient, toBroker, rl, entries,
                  inflight2, pendingAck2, unack, replay, publishes, unmatched, held, current,
                  drain, hand, appHeld, puts, fate, cut, requeued>>
  BY <1>1 DEF broker, wire, flow, buffer, app
<1> QED
  BY <1>2, Zenon DEF TakeCancelled

\* What all of them leave alone.
LEMMA CancelledFrame ==
  ASSUME Cancelled
  PROVE  UNCHANGED <<conn, failure, bstate, bid, resends, toClient, toBroker, rl, entries, inflight2,
                     pendingAck2, unack, replay, held, appHeld, puts, fate, cut>>
<1>1. ASSUME NEW d, CancelWait(d)
      PROVE  UNCHANGED <<conn, failure, bstate, bid, resends, toClient, toBroker, rl, entries, inflight2,
                         pendingAck2, unack, replay, held, appHeld, puts, fate, cut>>
  BY <1>1, WaitFacts
<1>2. ASSUME NEW d, CancelWrite(d)
      PROVE  UNCHANGED <<conn, failure, bstate, bid, resends, toClient, toBroker, rl, entries, inflight2,
                         pendingAck2, unack, replay, held, appHeld, puts, fate, cut>>
  BY <1>2, WriteFacts
<1>3. ASSUME NEW t, TakeCancelled(t)
      PROVE  UNCHANGED <<conn, failure, bstate, bid, resends, toClient, toBroker, rl, entries, inflight2,
                         pendingAck2, unack, replay, held, appHeld, puts, fate, cut>>
  BY <1>3, TakeFacts
<1> QED
  BY <1>1, <1>2, <1>3, Zenon DEF Cancelled

\* A cancelled call keeps the types.
LEMMA CancelledType ==
  ASSUME TypeInv, Cancelled, \A d \in Drainers : drain[d] = "writing" => current # NoEntry
  PROVE  TypeInv'
<1>1. UNCHANGED <<conn, failure, bstate, bid, resends, toClient, toBroker, rl, entries, inflight2,
                  pendingAck2, unack, replay, held, appHeld, puts, fate, cut>>
  BY CancelledFrame
<1>2. /\ drain \in [Drainers -> {"idle", "suback", "wants", "writing"}]
      /\ hand \in [Subscribed -> Item \cup {Nothing}] /\ queue \in [Subscribed -> Seq(Item)]
      /\ publishes \in Seq(Entry) /\ unmatched \in Seq(Entry) /\ current \in Entry \cup {NoEntry}
  BY DEF TypeInv, Queues
<1>3. ASSUME NEW d \in Drainers \ {Expiry}, CancelWait(d) PROVE TypeInv'
  <2>1. /\ drain' = [drain EXCEPT ![d] = "idle"]
        /\ hand' = [t \in Subscribed |-> IF d = <<"get", t>> THEN Nothing ELSE hand[t]]
        /\ UNCHANGED <<publishes, unmatched, current, queue>>
    BY <1>3, WaitFacts
  <2>2. /\ drain' \in [Drainers -> {"idle", "suback", "wants", "writing"}]
        /\ hand' \in [Subscribed -> Item \cup {Nothing}]
    BY <1>2, <2>1
  <2> QED
    BY <1>1, <2>1, <2>2 DEF TypeInv
<1>4. ASSUME NEW d \in Drainers \ {Expiry}, CancelWrite(d) PROVE TypeInv'
  <2>1. /\ drain' = [drain EXCEPT ![d] = "idle"] /\ drain[d] = "writing"
        /\ hand' = [t \in Subscribed |-> IF d = <<"get", t>> THEN Nothing ELSE hand[t]]
        /\ publishes' = Append(unmatched, current) \o publishes
        /\ unmatched' = <<>> /\ current' = NoEntry /\ queue' = queue
    BY <1>4, WriteFacts
  <2>2. /\ drain' \in [Drainers -> {"idle", "suback", "wants", "writing"}]
        /\ hand' \in [Subscribed -> Item \cup {Nothing}]
    BY <1>2, <2>1
  <2>3. Append(unmatched, current) \in Seq(Entry)
    BY <1>2, <2>1
  <2>4. publishes' \in Seq(Entry) /\ unmatched' \in Seq(Entry)
    BY <1>2, <2>1, <2>3
  <2> QED
    BY <1>1, <2>1, <2>2, <2>4 DEF TypeInv
<1>5. ASSUME NEW t \in Subscribed, TakeCancelled(t) PROVE TypeInv'
  <2>1. /\ queue[t] # <<>> /\ queue' = [queue EXCEPT ![t] = Tail(@)]
        /\ UNCHANGED <<publishes, unmatched, current, drain, hand>>
    BY <1>5, TakeFacts
  <2>2. Tail(queue[t]) \in Seq(Item)
    BY <1>2, <2>1
  <2>3. queue' \in Queues
    BY <1>2, <2>1, <2>2 DEF Queues
  <2> QED
    BY <1>1, <2>1, <2>3 DEF TypeInv
<1> QED
  BY <1>3, <1>4, <1>5, Zenon DEF Cancelled

\* A step of the specification is one of these.
LEMMA StepCases ==
  ASSUME TypeInv, Next
  PROVE  \/ ReadLoopPuts
         \/ \E e \in Read : HandlePublish(e) \/ HandlePubrel(e)
         \/ \E t \in Subscribed : Subscribe(t) \/ Subscribes(t) \/ GetMessage(t)
         \/ ReplayTimesOut
         \/ \E d \in Drainers : Drain(d)
         \/ \E x \in appHeld : AppAck(x)
         \/ Broker \/ ConnectionLost \/ Reconnect
         \/ \E m \in Messages : BrokerRetransmits(m)
         \/ Cancelled
<1>1. ASSUME NEW p \in ToSet(toClient) PROVE [m |-> p.m, id |-> p.id] \in Read
  <2>1. toClient \in Seq(ToClientPacket)
    BY DEF TypeInv
  <2>2. p \in ToClientPacket
    BY <2>1, MembersAt
  <2> QED
    BY <2>2 DEF ToClientPacket, Read
<1>2. ReadLoop => ReadLoopPuts \/ \E e \in Read : HandlePublish(e) \/ HandlePubrel(e)
  BY <1>1, Zenon DEF ReadLoop
<1> QED
  BY <1>2, Zenon DEF Next, Cancelled

\* The session of the broker changes only in its own steps.
LEMMA BrokerFrame ==
  ASSUME \/ ReadLoopPuts
         \/ \E e \in Read : HandlePublish(e) \/ HandlePubrel(e)
         \/ \E t \in Subscribed : Subscribe(t) \/ Subscribes(t) \/ GetMessage(t)
         \/ ReplayTimesOut
         \/ \E d \in Drainers : Drain(d)
         \/ \E x \in appHeld : AppAck(x)
         \/ ConnectionLost \/ Reconnect \/ Cancelled
  PROVE  UNCHANGED <<bstate, bid, resends>>
<1>1. \A e \in Read : HandlePublish(e) \/ HandlePubrel(e) => UNCHANGED broker
  BY Zenon DEF HandlePublish, HandlePubrel, PublishOverQuota, PublishAccepted, PublishKnown, PublishOverflows,
     PublishBuffered, PublishDropped, PublishAccept2, PublishRouted, Fail
<1>2. \A d \in Drainers : Drain(d) => UNCHANGED broker
  BY Zenon DEF Drain, DrainDelivers, DrainEnds
<1>3. Cancelled \/ UNCHANGED broker
  BY <1>1, <1>2, Zenon DEF ReadLoopPuts, Subscribe, Subscribes, GetMessage, ReplayTimesOut, AppAck,
     ConnectionLost, Reconnect
<1>4. UNCHANGED broker => UNCHANGED <<bstate, bid, resends>>
  BY DEF broker
<1>5. Cancelled => UNCHANGED <<bstate, bid, resends>>
  BY CancelledFrame
<1> QED
  BY <1>3, <1>4, <1>5

\* The identifiers of the broker's session stay apart.
LEMMA BrokerInvStep ==
  ASSUME TypeInv, BrokerInv, Next
  PROVE  BrokerInv'
<1>1. CASE UNCHANGED <<bstate, bid, resends>>
  BY <1>1 DEF BrokerInv, InFlight
<1>2. /\ \A m \in InFlight : bid[m] \in PacketId /\ QoSOf[m] \in 1 .. 2 /\ m \in Messages
      /\ \A m \in Messages : QoSOf[m] \in 0 .. 2 /\ bid[m] \in 0 .. MaxId
      /\ MaxId \in Nat /\ 0 \notin PacketId
  BY IdTypes
<1>3. /\ bstate \in [Messages -> {"queued", "sent", "rel", "done"}]
      /\ bid \in [Messages -> 0 .. MaxId]
  BY DEF TypeInv
<1>4. ASSUME NEW m \in Messages, BrokerSends0(m) PROVE BrokerInv'
  <2>1. bstate' = [bstate EXCEPT ![m] = "done"] /\ bid' = bid /\ bstate[m] = "queued" /\ QoSOf[m] = 0
    BY <1>4 DEF BrokerSends0, MaySend
  <2>2. InFlight' = InFlight
    BY <1>3, <2>1 DEF InFlight
  <2> QED
    BY <1>3, <2>1, <2>2 DEF BrokerInv
<1>5. ASSUME NEW m \in Messages, BrokerSends(m) PROVE BrokerInv'
  <2> DEFINE id == Min(FreeIds)
  <2>1. /\ bstate' = [bstate EXCEPT ![m] = "sent"] /\ bid' = [bid EXCEPT ![m] = id]
        /\ bstate[m] = "queued" /\ QoSOf[m] > 0 /\ FreeIds # {}
        /\ ReceiveMaximum = 0 \/ Cardinality(InFlight) < ReceiveMaximum
    BY <1>5 DEF BrokerSends, MaySend
  <2>2. id \in PacketId /\ id \notin {bid[n] : n \in InFlight}
    BY <2>1, FreeIdIsFree
  <2> HIDE DEF id
  <2>3. InFlight' = InFlight \cup {m} /\ m \notin InFlight
    BY <1>3, <2>1 DEF InFlight
  <2>4. \A n \in Messages : bid'[n] = IF n = m THEN id ELSE bid[n]
    BY <1>3, <2>1
  <2>5. \A n \in Messages : bstate'[n] = IF n = m THEN "sent" ELSE bstate[n]
    BY <1>3, <2>1
  <2>6. \A n \in Messages : /\ n \in InFlight' <=> bid'[n] # 0
                            /\ QoSOf[n] = 0 => bstate'[n] \in {"queued", "done"}
                            /\ bstate'[n] = "rel" => QoSOf[n] = 2
    BY <1>2, <2>1, <2>2, <2>3, <2>4, <2>5 DEF BrokerInv
  <2>7. \A i, j \in InFlight' : bid'[i] = bid'[j] => i = j
    BY <1>2, <2>2, <2>3, <2>4 DEF BrokerInv
  <2>8. IsFiniteSet(InFlight') /\ Cardinality(InFlight') = Cardinality(InFlight) + 1
    <3>1. IsFiniteSet(InFlight)
      BY DEF BrokerInv
    <3> QED
      BY <2>3, <3>1, FS_AddElement
  <2>9. Cardinality(InFlight) \in Nat /\ ReceiveMaximum \in Nat
    BY FS_CardinalityType, InboundAssumption DEF BrokerInv
  <2>10. ReceiveMaximum # 0 => Cardinality(InFlight') <= ReceiveMaximum
    BY <2>1, <2>8, <2>9
  <2> QED
    BY <2>6, <2>7, <2>8, <2>10 DEF BrokerInv
<1>6. CASE BrokerReceives
  <2> DEFINE p == Head(toBroker)
             ends == {m \in Messages : Completes(p, m)}
             rels == {m \in InFlight : p.type = "PUBREC" /\ bid[m] = p.id /\ QoSOf[m] = 2}
  <2>1. /\ bstate' = [m \in Messages |-> IF m \in ends THEN "done"
                                         ELSE IF m \in rels THEN "rel" ELSE bstate[m]]
        /\ bid' = [m \in Messages |-> IF m \in ends THEN 0 ELSE bid[m]]
    BY <1>6, Zenon DEF BrokerReceives
  <2>2. ends \subseteq InFlight /\ rels \subseteq InFlight /\ \A m \in rels : QoSOf[m] = 2
    BY DEF Completes
  <2> HIDE DEF ends, rels
  <2>3. \A m \in Messages : bid'[m] = IF m \in ends THEN 0 ELSE bid[m]
    BY <2>1
  <2>4. \A m \in Messages : bstate'[m] = IF m \in ends THEN "done" ELSE IF m \in rels THEN "rel" ELSE bstate[m]
    BY <2>1
  <2>5. InFlight' = InFlight \ ends
    BY <2>2, <2>4 DEF InFlight
  <2>6. \A n \in Messages : /\ n \in InFlight' <=> bid'[n] # 0
                            /\ QoSOf[n] = 0 => bstate'[n] \in {"queued", "done"}
                            /\ bstate'[n] = "rel" => QoSOf[n] = 2
    BY <1>2, <2>2, <2>3, <2>4, <2>5 DEF BrokerInv
  <2>7. \A i, j \in InFlight' : bid'[i] = bid'[j] => i = j
    BY <1>2, <2>3, <2>5 DEF BrokerInv
  <2>8. /\ IsFiniteSet(InFlight') /\ Cardinality(InFlight') <= Cardinality(InFlight)
        /\ Cardinality(InFlight') \in Nat /\ Cardinality(InFlight) \in Nat
    <3>1. IsFiniteSet(InFlight) /\ InFlight' \subseteq InFlight
      BY <2>5 DEF BrokerInv
    <3> QED
      BY <3>1, FS_Subset, FS_CardinalityType
  <2>9. ReceiveMaximum # 0 => Cardinality(InFlight') <= ReceiveMaximum
    BY <2>8, InboundAssumption DEF BrokerInv
  <2> QED
    BY <2>6, <2>7, <2>8, <2>9 DEF BrokerInv
<1>7. ASSUME NEW m \in Messages, BrokerRetransmits(m) PROVE BrokerInv'
  BY <1>7 DEF BrokerRetransmits, BrokerInv, InFlight
<1> QED
  <2>1. Broker => BrokerInv'
    BY <1>4, <1>5, <1>6, Zenon DEF Broker
  <2> QED
    BY <1>1, <1>7, <2>1, StepCases, BrokerFrame, Zenon

-----------------------------------------------------------------------------
(* Connections and the lock.                                               *)

\* Between two connections the client has nothing but messages it cannot acknowledge.
DownInv ==
  conn # "up" =>
    /\ toClient = <<>> /\ toBroker = <<>> /\ rl = NoEntry /\ entries = {}
    /\ inflight2 = [i \in PacketId |-> NoFlight] /\ pendingAck2 = {} /\ unack = {}
    /\ replay = "none" /\ publishes = <<>> /\ unmatched = <<>> /\ held = {} /\ current = NoEntry
    /\ drain = [d \in Drainers |-> "idle"]
    /\ \A t \in Subscribed : \A k \in 1 .. Len(queue[t]) : queue[t][k].ack = 0
    /\ hand = [t \in Subscribed |-> Nothing] /\ appHeld = {}
    /\ puts = [m \in Messages |-> 0]

\* Only one task writes, the one whose publish is current; a consumer that drains has a
\* message in its hand, and one that subscribes has its entry.
LockInv ==
  /\ \A d, e \in Drainers : drain[d] = "writing" /\ drain[e] = "writing" => d = e
  /\ current # NoEntry <=> \E d \in Drainers : drain[d] = "writing"
  /\ current = NoEntry => unmatched = <<>>
  /\ \A t \in Subscribed : /\ hand[t] = Nothing => drain[<<"get", t>>] = "idle"
                           /\ drain[<<"get", t>>] # "suback"
                           /\ t \notin entries => drain[<<"sub", t>>] = "idle"

\* The end of run() leaves nothing behind.
LEMMA ResetDown ==
  ASSUME TypeInv, Reset
  PROVE  DownInv' /\ LockInv'
<1>1. \A t \in Subscribed : \A k \in 1 .. Len(queue'[t]) : queue'[t][k].ack = 0
  <2> SUFFICES ASSUME NEW t \in Subscribed
               PROVE  \A k \in 1 .. Len(queue'[t]) : queue'[t][k].ack = 0
    OBVIOUS
  <2>1. queue[t] \in Seq(Item)
    BY DEF TypeInv, Queues
  <2>2. queue'[t] = [i \in 1 .. Len(queue[t]) |-> [queue[t][i] EXCEPT !.ack = 0]]
    BY <2>1 DEF Reset
  <2>3. Len(queue'[t]) = Len(queue[t])
    BY <2>1, <2>2
  <2>4. \A i \in 1 .. Len(queue[t]) : [queue[t][i] EXCEPT !.ack = 0].ack = 0
    BY <2>1 DEF Item
  <2> QED
    BY <2>2, <2>3, <2>4
<1>2. DownInv'
  BY <1>1 DEF Reset, DownInv
<1>3. LockInv'
  BY DrainersOf DEF Reset, LockInv
<1> QED
  BY <1>2, <1>3

\* Between two connections nothing arrives and nothing is written.
LEMMA DownInvStep ==
  ASSUME TypeInv, DownInv, Next
  PROVE  DownInv'
<1>1. CASE conn = "up" /\ conn' = "up"
  BY <1>1 DEF DownInv
<1>2. CASE Reset
  BY <1>2, ResetDown
<1>3. CASE Reconnect
  BY <1>3 DEF Reconnect, DownInv
<1>4. ASSUME conn # "up", NEW t \in Subscribed, GetMessage(t) PROVE DownInv'
  <2>1. /\ queue[t] # <<>> /\ queue[t] \in Seq(Item) /\ replay = "none" /\ hand = [s \in Subscribed |-> Nothing]
        /\ \A s \in Subscribed : \A k \in 1 .. Len(queue[s]) : queue[s][k].ack = 0
    BY <1>4 DEF GetMessage, DownInv, TypeInv, Queues
  <2>2. /\ Len(Tail(queue[t])) = Len(queue[t]) - 1 /\ Len(queue[t]) \in Nat \ {0}
        /\ \A i \in 1 .. Len(queue[t]) - 1 : Tail(queue[t])[i] = queue[t][i + 1]
        /\ Head(queue[t]) = queue[t][1]
    BY <2>1, TailAt
  <2>3. /\ queue' = [queue EXCEPT ![t] = Tail(queue[t])] /\ appHeld' = appHeld \cup {x \in {Head(queue[t])} : x.ack # 0}
        /\ drain' = [drain EXCEPT ![<<"get", t>>] = "idle"] /\ UNCHANGED hand
    BY <1>4, <2>1 DEF GetMessage, Hand, BeginDrain
  <2>4. Head(queue[t]).ack = 0
    BY <2>1, <2>2
  <2>5. appHeld' = {}
    BY <1>4, <2>3, <2>4 DEF DownInv
  <2>6. \A s \in Subscribed : \A k \in 1 .. Len(queue'[s]) : queue'[s][k].ack = 0
    <3>1. queue \in [Subscribed -> Seq(Item)]
      BY DEF TypeInv, Queues
    <3>2. \A k \in 1 .. Len(Tail(queue[t])) : Tail(queue[t])[k].ack = 0
      BY <2>1, <2>2
    <3> QED
      BY <2>1, <2>3, <3>1, <3>2
  <2>7. drain' = [d \in Drainers |-> "idle"]
    BY <1>4, <2>3, DrainersOf DEF DownInv
  <2> QED
    BY <1>4, <2>3, <2>5, <2>6, <2>7 DEF GetMessage, DownInv, wire, flow, buffer
<1>7. ASSUME conn # "up", NEW t \in Subscribed, TakeCancelled(t) PROVE DownInv'
  <2>1. /\ queue[t] # <<>> /\ queue[t] \in Seq(Item) /\ queue' = [queue EXCEPT ![t] = Tail(queue[t])]
        /\ UNCHANGED <<toClient, toBroker, rl, entries, inflight2, pendingAck2, unack, replay, publishes,
                       unmatched, held, current, drain, hand, appHeld, puts>>
    BY <1>7, TakeFacts DEF TypeInv, Queues
  <2>2. /\ Len(Tail(queue[t])) = Len(queue[t]) - 1 /\ Len(queue[t]) \in Nat \ {0}
        /\ \A i \in 1 .. Len(queue[t]) - 1 : Tail(queue[t])[i] = queue[t][i + 1]
    BY <2>1, TailAt
  <2>3. \A s \in Subscribed : \A k \in 1 .. Len(queue[s]) : queue[s][k].ack = 0
    BY <1>7 DEF DownInv
  <2>4. \A s \in Subscribed : \A k \in 1 .. Len(queue'[s]) : queue'[s][k].ack = 0
    <3>1. queue \in [Subscribed -> Seq(Item)]
      BY DEF TypeInv, Queues
    <3>2. \A k \in 1 .. Len(Tail(queue[t])) : Tail(queue[t])[k].ack = 0
      BY <2>2, <2>3
    <3> QED
      BY <2>1, <2>3, <3>1, <3>2
  <2> QED
    BY <1>7, <2>1, <2>4 DEF DownInv
<1>5. ASSUME conn # "up" PROVE Reconnect \/ \E t \in Subscribed : GetMessage(t) \/ TakeCancelled(t)
  <2>1. replay = "none" /\ appHeld = {}
    BY <1>5 DEF DownInv
  <2>2. \A e : ~HandlePublish(e) /\ ~HandlePubrel(e)
    BY <1>5, Zenon DEF HandlePublish, HandlePubrel, PublishOverQuota, PublishAccepted, PublishKnown,
       PublishOverflows, PublishBuffered, PublishDropped, PublishAccept2, PublishRouted, Fresh, Reads
  <2>3. \A d : ~Drain(d)
    BY <1>5, Zenon DEF Drain, DrainDelivers, DrainEnds
  <2>4. ~ReplayTimesOut
    BY <2>1 DEF ReplayTimesOut
  <2>5. ~Broker
    BY <1>5, Zenon DEF Broker, BrokerSends0, BrokerSends, MaySend, BrokerReceives
  <2>6. ~ReadLoopPuts /\ ~ConnectionLost /\ \A m : ~BrokerRetransmits(m)
    BY <1>5 DEF ReadLoopPuts, ConnectionLost, BrokerRetransmits
  <2>7. \A t : ~Subscribe(t) /\ ~Subscribes(t)
    BY <1>5 DEF Subscribe, Subscribes
  <2>8. \A d \in Drainers : ~CancelWait(d) /\ ~CancelWrite(d)
    BY <1>5, WaitFacts, WriteFacts DEF DownInv
  <2> QED
    BY <2>1, <2>2, <2>3, <2>4, <2>5, <2>6, <2>7, <2>8, StepCases, Zenon DEF Cancelled
<1>6. ASSUME conn = "up" PROVE conn' = "up" \/ Reset
  <2>1. \A e : HandlePublish(e) \/ HandlePubrel(e) => conn' = conn \/ Reset
    BY Zenon DEF HandlePublish, HandlePubrel, PublishOverQuota, PublishAccepted, PublishKnown, Fail,
       PublishOverflows, PublishBuffered, PublishDropped, PublishAccept2, PublishRouted
  <2>2. \A d : Drain(d) => conn' = conn
    BY Zenon DEF Drain, DrainDelivers, DrainEnds
  <2>3. Broker => conn' = conn
    BY Zenon DEF Broker, BrokerSends0, BrokerSends, BrokerReceives
  <2>4. \/ ReadLoopPuts
        \/ \E t \in Subscribed : Subscribe(t) \/ Subscribes(t) \/ GetMessage(t)
        \/ ReplayTimesOut \/ \E x \in appHeld : AppAck(x)
        \/ \E m \in Messages : BrokerRetransmits(m)
        => conn' = conn
    BY Zenon DEF ReadLoopPuts, Subscribe, Subscribes, GetMessage, ReplayTimesOut, AppAck, BrokerRetransmits
  <2>5. ConnectionLost => Reset
    BY DEF ConnectionLost
  <2>6. Reconnect => conn' = "up"
    BY DEF Reconnect
  <2> QED
    BY <1>6, <2>1, <2>2, <2>3, <2>4, <2>5, <2>6, CancelledFrame, StepCases, Zenon
<1> QED
  BY <1>1, <1>2, <1>3, <1>4, <1>5, <1>6, <1>7, Zenon

\* What the tasks that drain share changes in these steps only.
LEMMA LockFrame ==
  ASSUME \/ ReadLoopPuts \/ \E e \in Read : HandlePublish(e) \/ HandlePubrel(e)
         \/ \E x \in appHeld : AppAck(x)
         \/ Broker \/ Reconnect \/ \E m \in Messages : BrokerRetransmits(m)
  PROVE  Reset \/ UNCHANGED <<drain, current, unmatched, hand, entries>>
<1>1. \A e : HandlePublish(e) \/ HandlePubrel(e) => Reset \/ UNCHANGED <<drain, current, unmatched, hand, entries>>
  BY DEF HandlePublish, HandlePubrel, PublishOverQuota, PublishAccepted, PublishKnown, Fail,
     PublishOverflows, PublishBuffered, PublishDropped, PublishAccept2, PublishRouted, buffer, app
<1>2. Broker => UNCHANGED <<drain, current, unmatched, hand, entries>>
  BY DEF Broker, BrokerSends0, BrokerSends, BrokerReceives, buffer, app, flow
<1>3. \/ ReadLoopPuts \/ Reconnect \/ \E x \in appHeld : AppAck(x)
      \/ \E m \in Messages : BrokerRetransmits(m)
      => UNCHANGED <<drain, current, unmatched, hand, entries>>
  BY DEF ReadLoopPuts, Reconnect, AppAck, BrokerRetransmits, buffer, app, flow
<1> QED
  BY <1>1, <1>2, <1>3, Zenon

\* The tasks that stop draining when the pass of d ends, and the consumers among them.
Over(d) == {x \in Drainers : x = d \/ (drain[x] = "wants" /\ AfterPass(d, Pass) # "buffered")}
Back(d) == {t \in Subscribed : <<"get", t>> \in Over(d)}

\* The effect of the end of a pass, in terms of these.
LEMMA EndsFacts ==
  ASSUME NEW d, DrainEnds(d)
  PROVE  /\ conn = "up" /\ Runs(d) /\ Pass.stop = NoEntry
         /\ replay' = AfterPass(d, Pass)
         /\ publishes' = (IF AfterPass(d, Pass) = "buffered" THEN Pass.back ELSE <<>>)
         /\ held' = (IF AfterPass(d, Pass) = "buffered" THEN Remaining(Pass) ELSE {})
         /\ unmatched' = <<>> /\ current' = NoEntry
         /\ queue' = Pass.queue
         /\ pendingAck2' = pendingAck2 \cup AwaitingAck(Pass)
         /\ CountPuts(DeliveredBySend(Pass)) /\ Note(DeliveredBySend(Pass), "queued")
         /\ Hand({hand[t] : t \in Back(d)})
         /\ hand' = [t \in Subscribed |-> IF t \in Back(d) THEN Nothing ELSE hand[t]]
         /\ drain' = [x \in Drainers |-> IF x \in Over(d) THEN "idle" ELSE drain[x]]
         /\ UNCHANGED <<conn, failure, connections, bstate, bid, resends, toClient, toBroker, rl, entries,
                        inflight2, unack, cut>>
<1>1. UNCHANGED <<conn, failure, connections, broker, wire, rl, entries, inflight2, unack, cut>>
  BY Zenon DEF DrainEnds
<1>2. UNCHANGED <<conn, failure, connections, bstate, bid, resends, toClient, toBroker, rl, entries,
                  inflight2, unack, cut>>
  BY <1>1 DEF broker, wire
<1> QED
  BY <1>2, Zenon DEF DrainEnds, Over, Back

\* The effect of a pass that stops at a publish.
LEMMA DeliversFacts ==
  ASSUME NEW d, DrainDelivers(d)
  PROVE  /\ conn = "up" /\ Runs(d) /\ Pass.stop # NoEntry
         /\ publishes' = Pass.rest /\ unmatched' = Pass.back
         /\ held' = Remaining(Pass) /\ current' = Pass.stop
         /\ drain' = [drain EXCEPT ![d] = "writing"]
         /\ \/ /\ QoSOf[Pass.stop.m] = 1
               /\ queue' = Put(Pass.queue, Pass.stop)
               /\ CountPuts(DeliveredBySend(Pass) \cup {Pass.stop.m})
               /\ Note(DeliveredBySend(Pass) \cup {Pass.stop.m}, "queued")
               /\ unack' = Complete(unack, Pass.stop.id)
               /\ toBroker' = Append(toBroker, Ack("PUBACK", Pass.stop.id))
               /\ UNCHANGED inflight2
            \/ /\ QoSOf[Pass.stop.m] # 1
               /\ queue' = Pass.queue
               /\ CountPuts(DeliveredBySend(Pass)) /\ Note(DeliveredBySend(Pass), "queued")
               /\ inflight2' = [inflight2 EXCEPT ![Pass.stop.id] = [m |-> Pass.stop.m, put |-> TRUE]]
               /\ toBroker' = Append(toBroker, Ack("PUBREC", Pass.stop.id))
               /\ UNCHANGED unack
         /\ pendingAck2' = pendingAck2 \cup AwaitingAck(Pass)
         /\ UNCHANGED <<conn, failure, connections, bstate, bid, resends, toClient, rl, entries, replay,
                        hand, appHeld, cut>>
<1>1. UNCHANGED <<conn, failure, connections, broker, toClient, rl, entries, replay, app, cut>>
  BY Zenon DEF DrainDelivers
<1>2. UNCHANGED <<conn, failure, connections, bstate, bid, resends, toClient, rl, entries, replay,
                  hand, appHeld, cut>>
  BY <1>1 DEF broker, app
<1> QED
  BY <1>2, Zenon DEF DrainDelivers, Accept2

\* The lock is held by one task at a time.
LEMMA LockInvStep ==
  ASSUME TypeInv, LockInv, Next
  PROVE  LockInv'
<1>1. CASE UNCHANGED <<drain, current, unmatched, hand, entries>>
  BY <1>1 DEF LockInv
<1>2. CASE Reset
  BY <1>2, ResetDown
<1>3. /\ drain \in [Drainers -> {"idle", "suback", "wants", "writing"}]
      /\ hand \in [Subscribed -> Item \cup {Nothing}]
  BY DEF TypeInv
<1>4. \A t \in Subscribed : <<"get", t>> # <<"sub", t>> /\ <<"get", t>> # Expiry /\ <<"sub", t>> # Expiry
  BY DEF Expiry
<1>5. ASSUME NEW t \in Subscribed, Subscribe(t) PROVE LockInv'
  <2>1. /\ drain' = [drain EXCEPT ![<<"sub", t>>] = "suback"] /\ entries' = entries \cup {t} /\ t \notin entries
        /\ UNCHANGED <<current, unmatched, hand>>
    BY <1>5 DEF Subscribe, buffer, app
  <2>2. drain[<<"sub", t>>] = "idle"
    BY <2>1 DEF LockInv
  <2> QED
    BY <1>3, <1>4, <2>1, <2>2, DrainersOf DEF LockInv
<1>6. ASSUME NEW t \in Subscribed, Subscribes(t) PROVE LockInv'
  <2>1. /\ drain' = [drain EXCEPT ![<<"sub", t>>] = BeginDrain] /\ drain[<<"sub", t>>] = "suback"
        /\ UNCHANGED <<current, unmatched, hand, entries>>
    BY <1>6 DEF Subscribes, buffer, app, flow
  <2>2. BeginDrain \in {"idle", "wants"} /\ t \in entries
    BY <2>1 DEF BeginDrain, LockInv
  <2> QED
    BY <1>3, <1>4, <2>1, <2>2, DrainersOf DEF LockInv
<1>7. ASSUME NEW t \in Subscribed, GetMessage(t) PROVE LockInv'
  <2>1. /\ drain' = [drain EXCEPT ![<<"get", t>>] = BeginDrain] /\ hand[t] = Nothing
        /\ UNCHANGED <<current, unmatched, entries>>
    BY <1>7 DEF GetMessage, buffer, flow
  <2>2. drain[<<"get", t>>] = "idle" /\ BeginDrain \in {"idle", "wants"}
    BY <2>1 DEF LockInv, BeginDrain
  <2>3. CASE replay = "buffered"
    <3>1. queue[t] \in Seq(Item) /\ queue[t] # <<>> /\ hand' = [hand EXCEPT ![t] = Head(queue[t])]
      BY <1>7, <2>3 DEF GetMessage, TypeInv, Queues
    <3>2. Head(queue[t]) # Nothing
      BY <3>1, InboundAssumption DEF Item, Nothing
    <3> QED
      BY <1>3, <1>4, <2>1, <2>2, <3>1, <3>2, DrainersOf DEF LockInv
  <2>4. CASE replay # "buffered"
    <3>1. drain' = drain /\ hand' = hand
      BY <1>3, <1>7, <2>1, <2>2, <2>4, DrainersOf DEF BeginDrain, GetMessage
    <3> QED
      BY <1>1, <2>1, <3>1
  <2> QED
    BY <2>3, <2>4
<1>8. CASE ReplayTimesOut
  <2>1. /\ drain' = [drain EXCEPT ![Expiry] = "wants"] /\ drain[Expiry] = "idle"
        /\ UNCHANGED <<current, unmatched, hand, entries>>
    BY <1>8 DEF ReplayTimesOut, buffer, app, flow
  <2> QED
    BY <1>3, <1>4, <2>1, DrainersOf DEF LockInv
<1>9. ASSUME NEW d \in Drainers, DrainDelivers(d) PROVE LockInv'
  <2>1. /\ Runs(d) /\ Pass.stop # NoEntry
        /\ current' = Pass.stop /\ drain' = [drain EXCEPT ![d] = "writing"] /\ UNCHANGED <<hand, entries>>
    BY <1>9, DeliversFacts
  <2>2. /\ drain[d] # "idle" /\ drain[d] # "suback"
        /\ \A x \in Drainers : drain[x] = "writing" => x = d
    BY <1>3, <2>1 DEF Runs, LockInv
  <2>3. /\ \A x \in Drainers : drain'[x] = IF x = d THEN "writing" ELSE drain[x]
        /\ current' # NoEntry
    BY <1>3, <2>1
  <2>4. \A t \in Subscribed : /\ hand'[t] = Nothing => drain'[<<"get", t>>] = "idle"
                              /\ drain'[<<"get", t>>] # "suback"
                              /\ t \notin entries' => drain'[<<"sub", t>>] = "idle"
    <3> SUFFICES ASSUME NEW t \in Subscribed
                 PROVE  /\ hand[t] = Nothing => drain'[<<"get", t>>] = "idle"
                        /\ drain'[<<"get", t>>] # "suback"
                        /\ t \notin entries => drain'[<<"sub", t>>] = "idle"
      BY <2>1
    <3>1. /\ hand[t] = Nothing => drain[<<"get", t>>] = "idle"
          /\ drain[<<"get", t>>] # "suback"
          /\ t \notin entries => drain[<<"sub", t>>] = "idle"
      BY DEF LockInv
    <3>2. <<"get", t>> \in Drainers /\ <<"sub", t>> \in Drainers
      BY DrainersOf
    <3> DEFINE g == <<"get", t>>
               s == <<"sub", t>>
    <3> HIDE DEF g, s
    <3> QED
      BY <2>2, <2>3, <3>1, <3>2 DEF g, s
  <2> QED
    BY <2>2, <2>3, <2>4 DEF LockInv
<1>10. ASSUME NEW d \in Drainers, DrainEnds(d) PROVE LockInv'
  <2>1. /\ Runs(d) /\ unmatched' = <<>> /\ current' = NoEntry
        /\ hand' = [t \in Subscribed |-> IF t \in Back(d) THEN Nothing ELSE hand[t]]
        /\ drain' = [x \in Drainers |-> IF x \in Over(d) THEN "idle" ELSE drain[x]]
        /\ UNCHANGED entries
    BY <1>10, EndsFacts
  <2>2. \A x \in Drainers : drain[x] = "writing" => x = d
    BY <1>3, <2>1 DEF Runs, LockInv
  <2>3. d \in Over(d) /\ \A t \in Subscribed : t \in Back(d) <=> <<"get", t>> \in Over(d)
    BY DEF Over, Back
  <2>4. \A x \in Drainers : drain'[x] # "writing"
    BY <2>1, <2>2, <2>3
  <2>5. \A t \in Subscribed : /\ hand'[t] = Nothing => drain'[<<"get", t>>] = "idle"
                              /\ drain'[<<"get", t>>] # "suback"
                              /\ t \notin entries' => drain'[<<"sub", t>>] = "idle"
    BY <2>1, <2>3, DrainersOf DEF LockInv
  <2> QED
    BY <2>1, <2>4, <2>5 DEF LockInv
<1>11. ConnectionLost => Reset
  BY DEF ConnectionLost
<1>12. ASSUME NEW d \in Drainers, drain[d] # "suback", drain' = [drain EXCEPT ![d] = "idle"],
              hand' = [t \in Subscribed |-> IF d = <<"get", t>> THEN Nothing ELSE hand[t]],
              entries' = entries
       PROVE  \A t \in Subscribed : /\ hand'[t] = Nothing => drain'[<<"get", t>>] = "idle"
                                    /\ drain'[<<"get", t>>] # "suback"
                                    /\ t \notin entries' => drain'[<<"sub", t>>] = "idle"
  BY <1>3, <1>12, DrainersOf DEF LockInv
<1>13. ASSUME NEW d \in Drainers, CancelWait(d) PROVE LockInv'
  <2>1. /\ drain[d] = "wants" /\ drain' = [drain EXCEPT ![d] = "idle"]
        /\ hand' = [t \in Subscribed |-> IF d = <<"get", t>> THEN Nothing ELSE hand[t]]
        /\ UNCHANGED <<current, unmatched, entries>>
    BY <1>13, WaitFacts
  <2>2. \A x \in Drainers : drain'[x] = "writing" <=> drain[x] = "writing"
    BY <1>3, <2>1
  <2>3. \A t \in Subscribed : /\ hand'[t] = Nothing => drain'[<<"get", t>>] = "idle"
                              /\ drain'[<<"get", t>>] # "suback"
                              /\ t \notin entries' => drain'[<<"sub", t>>] = "idle"
    BY <1>12, <2>1
  <2> QED
    BY <2>1, <2>2, <2>3 DEF LockInv
<1>14. ASSUME NEW d \in Drainers, CancelWrite(d) PROVE LockInv'
  <2>1. /\ drain[d] = "writing" /\ drain' = [drain EXCEPT ![d] = "idle"]
        /\ hand' = [t \in Subscribed |-> IF d = <<"get", t>> THEN Nothing ELSE hand[t]]
        /\ current' = NoEntry /\ unmatched' = <<>> /\ entries' = entries
    BY <1>14, WriteFacts
  <2>2. \A x \in Drainers : drain'[x] # "writing"
    BY <1>3, <2>1 DEF LockInv
  <2>3. \A t \in Subscribed : /\ hand'[t] = Nothing => drain'[<<"get", t>>] = "idle"
                              /\ drain'[<<"get", t>>] # "suback"
                              /\ t \notin entries' => drain'[<<"sub", t>>] = "idle"
    BY <1>12, <2>1
  <2> QED
    BY <2>1, <2>2, <2>3 DEF LockInv
<1>15. ASSUME NEW t \in Subscribed, TakeCancelled(t) PROVE LockInv'
  BY <1>1, <1>15, TakeFacts
<1>16. CASE Cancelled
  BY <1>13, <1>14, <1>15, <1>16, Zenon DEF Cancelled
<1> QED
  BY <1>1, <1>2, <1>5, <1>6, <1>7, <1>8, <1>9, <1>10, <1>11, <1>16, StepCases, LockFrame, Zenon DEF Drain

-----------------------------------------------------------------------------
(* The order of the messages of QoS 0 and 1, and the accounts of the       *)
(* replay buffer.                                                          *)

\* The client has n on this connection: queued, waiting for room or buffered.
Seen(n) == puts[n] > 0 \/ rl.m = n \/ \E e \in held : e.m = n

\* The broker publishes in order, and a message of QoS 0 or 1 once on a connection:
\* what is under way comes after what the client has seen.
WireInv ==
  /\ \A m, n \in Messages : bstate[m] = "queued" /\ m < n => bstate[n] = "queued"
  /\ \A n \in Messages : Seen(n) /\ QoSOf[n] < 2 => bstate[n] # "queued"
  /\ \A k \in 1 .. Len(toClient) : bstate[toClient[k].m] # "queued"
  /\ \A k, l \in 1 .. Len(toClient) :
       /\ k < l /\ toClient[k].type = "PUBLISH" /\ toClient[l].type = "PUBLISH"
       /\ QoSOf[toClient[k].m] < 2 /\ QoSOf[toClient[l].m] < 2
       => toClient[k].m < toClient[l].m
  /\ \A k \in 1 .. Len(toClient) : \A n \in Messages :
       /\ toClient[k].type = "PUBLISH" /\ QoSOf[toClient[k].m] < 2
       /\ Seen(n) /\ QoSOf[n] < 2
       => n < toClient[k].m

\* The accounts of the replay buffer, with the two deques apart.
HeldInv ==
  /\ held = ToSet(unmatched) \cup ToSet(publishes) \cup ({current} \ {NoEntry})
  /\ Distinct /\ current \notin ToSet(unmatched) \cup ToSet(publishes)
  /\ replay # "buffered" => held = {}

\* They are the accounts that ReplayAccounting speaks of.
LEMMA HeldInvAccounts == TypeInv /\ HeldInv => ReplayAccounting
<1> SUFFICES ASSUME TypeInv, HeldInv PROVE ReplayAccounting
  OBVIOUS
<1> DEFINE c == unmatched \o publishes
           a == Len(unmatched)
           b == Len(publishes)
<1>1. unmatched \in Seq(Entry) /\ publishes \in Seq(Entry)
  BY DEF TypeInv
<1>2. a \in Nat /\ b \in Nat
  BY <1>1
<1>3. /\ c \in Seq(Entry) /\ Len(c) = a + b
      /\ \A i \in 1 .. a : c[i] = unmatched[i]
      /\ \A i \in 1 .. b : c[a + i] = publishes[i]
  BY <1>1, ConcatMembers
<1> HIDE DEF c
<1>4. DOMAIN c = 1 .. a + b
  BY <1>3
<1>5. /\ \A x : x \in ToSet(unmatched) <=> \E i \in 1 .. a : unmatched[i] = x
      /\ \A x : x \in ToSet(publishes) <=> \E i \in 1 .. b : publishes[i] = x
      /\ \A x : x \in ToSet(c) <=> \E i \in 1 .. a + b : c[i] = x
      /\ DOMAIN unmatched = 1 .. a
  <2>1. \A x : x \in ToSet(unmatched) <=> \E i \in 1 .. a : unmatched[i] = x
    BY <1>1, MembersAt
  <2>2. \A x : x \in ToSet(publishes) <=> \E i \in 1 .. b : publishes[i] = x
    BY <1>1, MembersAt
  <2>3. \A x : x \in ToSet(c) <=> \E i \in 1 .. Len(c) : c[i] = x
    BY <1>3, MembersAt
  <2> QED
    BY <1>1, <1>3, <2>1, <2>2, <2>3
<1>6. \A i \in 1 .. a + b : i \in 1 .. a \/ (i - a \in 1 .. b /\ c[i] = publishes[i - a])
  <2> SUFFICES ASSUME NEW i \in 1 .. a + b, i \notin 1 .. a
               PROVE  i - a \in 1 .. b /\ c[i] = publishes[i - a]
    OBVIOUS
  <2>1. i - a \in 1 .. b /\ a + (i - a) = i
    BY <1>2
  <2> QED
    BY <1>3, <2>1
<1>7. ToSet(c) = ToSet(unmatched) \cup ToSet(publishes)
  <2>1. ASSUME NEW x \in ToSet(c) PROVE x \in ToSet(unmatched) \cup ToSet(publishes)
    BY <1>3, <1>5, <1>6
  <2>2. ASSUME NEW x \in ToSet(unmatched) PROVE x \in ToSet(c)
    BY <1>2, <1>3, <1>5
  <2>3. ASSUME NEW x \in ToSet(publishes) PROVE x \in ToSet(c)
    <3>1. PICK i \in 1 .. b : publishes[i] = x
      BY <1>5
    <3>2. a + i \in 1 .. a + b /\ c[a + i] = x
      BY <1>2, <1>3, <3>1
    <3> QED
      BY <1>5, <3>2
  <2> QED
    BY <2>1, <2>2, <2>3
<1>8. IsInjective(c)
  <2> SUFFICES ASSUME NEW i \in 1 .. a + b, NEW j \in 1 .. a + b, c[i] = c[j] PROVE i = j
    BY <1>4 DEF IsInjective
  <2>1. CASE i \in 1 .. a /\ j \in 1 .. a
    BY <1>3, <1>5, <2>1 DEF HeldInv, Distinct, IsInjective
  <2>2. CASE i \notin 1 .. a /\ j \notin 1 .. a
    <3>1. i - a \in 1 .. b /\ j - a \in 1 .. b /\ publishes[i - a] = publishes[j - a]
      BY <1>6, <2>2
    <3>2. i - a = j - a
      BY <3>1 DEF HeldInv, Distinct
    <3> QED
      BY <1>2, <3>2
  <2>3. CASE i \in 1 .. a /\ j \notin 1 .. a
    BY <1>3, <1>5, <1>6, <2>3 DEF HeldInv, Distinct
  <2>4. CASE i \notin 1 .. a /\ j \in 1 .. a
    BY <1>3, <1>5, <1>6, <2>4 DEF HeldInv, Distinct
  <2> QED
    BY <2>1, <2>2, <2>3, <2>4
<1> QED
  BY <1>7, <1>8 DEF HeldInv, ReplayAccounting, c

\* A publish that is neither accepted nor known is not in the replay buffer.
LEMMA FreshIsNew ==
  ASSUME TypeInv, WireInv, NEW e \in Read, Fresh(e)
  PROVE  /\ e \notin held /\ e \in Entry
         /\ \A n \in Messages : Seen(n) /\ QoSOf[n] < 2 /\ QoSOf[e.m] < 2 => n < e.m
<1>1. Reads(e, "PUBLISH") /\ ~Known(e)
  BY DEF Fresh
<1>2. e \in Entry /\ toClient[1] = Publish(e.m, e.id) /\ 1 \in 1 .. Len(toClient)
  <2>1. e \in Entry /\ toClient[1] = [type |-> "PUBLISH", id |-> e.id, m |-> e.m] /\ Len(toClient) \in Nat \ {0}
    BY <1>1, ReadsFacts
  <2> QED
    BY <2>1 DEF Publish
<1>3. toClient[1].type = "PUBLISH" /\ toClient[1].m = e.m
  BY <1>2 DEF Publish
<1>4. \A n \in Messages : Seen(n) /\ QoSOf[n] < 2 /\ QoSOf[e.m] < 2 => n < e.m
  BY <1>2, <1>3 DEF WireInv
<1>5. e.m \in Messages /\ QoSOf[e.m] \in 0 .. 2 /\ (QoSOf[e.m] # 0 => e.id \in PacketId)
  BY <1>2, EntryId
<1>6. ASSUME e \in held PROVE FALSE
  <2>1. CASE QoSOf[e.m] = 0
    <3>1. Seen(e.m) /\ e.m \in Nat
      BY <1>5, <1>6, InboundAssumption DEF Seen
    <3> QED
      BY <1>4, <1>5, <2>1, <3>1
  <2>2. CASE QoSOf[e.m] # 0
    <3>1. QoSOf[e.m] > 0 /\ e.id # 0
      BY <1>5, <2>2, InboundAssumption DEF PacketId
    <3> QED
      BY <1>1, <1>6, <3>1 DEF Known, HeldIds
  <2> QED
    BY <2>1, <2>2
<1> QED
  BY <1>2, <1>4, <1>6

\* The parts of a finished pass, and what stays accounted for.
LEMMA PassLeaves ==
  ASSUME TypeInv, HeldInv
  PROVE  /\ Pass \in PassState
         /\ PassRoute(Pass) /\ PassQueue(Pass) /\ PassItems(Pass) /\ PassOrder(Pass)
         /\ Parts(Pass) = ToSet(unmatched) \cup ToSet(publishes)
         /\ IsInjective(Pass.back) /\ IsInjective(Pass.rest)
         /\ ToSet(Pass.back) \cap ToSet(Pass.rest) = {}
         /\ Pass.sent \cap (ToSet(Pass.back) \cup ToSet(Pass.rest)) = {}
         /\ Pass.stop \notin ToSet(Pass.back) \cup ToSet(Pass.rest) \cup Pass.sent
         /\ ToSet(unmatched) \subseteq ToSet(Pass.back)
         /\ Remaining(Pass) = ToSet(Pass.back) \cup ToSet(Pass.rest) \cup ({Pass.stop} \ {NoEntry})
         /\ Pass.sent \subseteq ToSet(publishes) /\ Pass.sent \subseteq held
         /\ Pass.stop # NoEntry => Pass.stop \in held /\ Pass.stop \in ToSet(publishes)
         /\ current \notin ToSet(Pass.back) \cup ToSet(Pass.rest) \cup Pass.sent
<1>1. Pass \in PassState /\ PassFacts(Pass, Len(publishes))
  BY PassResult DEF HeldInv
<1>2. First(Len(publishes)) = ToSet(publishes)
  <2>1. publishes \in Seq(Entry)
    BY DEF TypeInv
  <2>2. DOMAIN publishes = 1 .. Len(publishes)
    BY <2>1
  <2> QED
    BY <2>2 DEF First, ToSet
<1>3. /\ Parts(Pass) = ToSet(unmatched) \cup ToSet(publishes)
      /\ IsInjective(Pass.back) /\ IsInjective(Pass.rest)
      /\ ToSet(Pass.back) \cap ToSet(Pass.rest) = {}
      /\ Pass.sent \cap (ToSet(Pass.back) \cup ToSet(Pass.rest)) = {}
      /\ Pass.stop \notin ToSet(Pass.back) \cup ToSet(Pass.rest) \cup Pass.sent
      /\ ToSet(unmatched) \subseteq ToSet(Pass.back)
  BY <1>1, <1>2, Zenon DEF PassFacts, PassSets
<1>4. /\ Parts(Pass) = ToSet(Pass.back) \cup Pass.sent \cup ({Pass.stop} \ {NoEntry}) \cup ToSet(Pass.rest)
      /\ Remaining(Pass) = held \ (Pass.sent \cup {current})
      /\ held = ToSet(unmatched) \cup ToSet(publishes) \cup ({current} \ {NoEntry})
      /\ current \notin ToSet(unmatched) \cup ToSet(publishes)
  BY Zenon DEF Parts, Remaining, HeldInv
<1>5. Remaining(Pass) = ToSet(Pass.back) \cup ToSet(Pass.rest) \cup ({Pass.stop} \ {NoEntry})
  BY <1>3, <1>4
<1>6. Pass.sent \subseteq ToSet(publishes) /\ Pass.sent \subseteq held
  BY <1>3, <1>4
<1>7. Pass.stop # NoEntry => Pass.stop \in held /\ Pass.stop \in ToSet(publishes)
  BY <1>3, <1>4
<1>8. current \notin ToSet(Pass.back) \cup ToSet(Pass.rest) \cup Pass.sent
  BY <1>3, <1>4
<1> QED
  BY <1>1, <1>3, <1>5, <1>6, <1>7, <1>8, Zenon DEF PassFacts

\* The accounts of the replay buffer change in these steps only.
LEMMA HeldFrame ==
  ASSUME \/ ReadLoopPuts \/ \E e \in Read : HandlePubrel(e)
         \/ \E e \in Read : HandlePublish(e) /\ ~PublishBuffered(e)
         \/ \E t \in Subscribed : Subscribe(t) \/ Subscribes(t) \/ GetMessage(t)
         \/ ReplayTimesOut \/ \E x \in appHeld : AppAck(x)
         \/ Broker \/ ConnectionLost \/ \E m \in Messages : BrokerRetransmits(m)
  PROVE  Reset \/ UNCHANGED <<replay, publishes, unmatched, held, current>>
<1>1. \A e : HandlePublish(e) /\ ~PublishBuffered(e) => Reset \/ UNCHANGED buffer
  BY Zenon DEF HandlePublish, PublishOverQuota, PublishAccepted, PublishKnown, Fail,
     PublishOverflows, PublishDropped, PublishAccept2, PublishRouted
<1>2. \A e : HandlePubrel(e) => UNCHANGED buffer
  BY Zenon DEF HandlePubrel
<1>3. Broker => UNCHANGED buffer
  BY Zenon DEF Broker, BrokerSends0, BrokerSends, BrokerReceives
<1>4. \/ ReadLoopPuts \/ ReplayTimesOut \/ \E x \in appHeld : AppAck(x)
      \/ \E t \in Subscribed : Subscribe(t) \/ Subscribes(t) \/ GetMessage(t)
      \/ \E m \in Messages : BrokerRetransmits(m)
      => UNCHANGED buffer
  BY Zenon DEF ReadLoopPuts, Subscribe, Subscribes, GetMessage, ReplayTimesOut, AppAck, BrokerRetransmits
<1>5. ConnectionLost => Reset
  BY DEF ConnectionLost
<1>6. Reset \/ UNCHANGED buffer
  BY <1>1, <1>2, <1>3, <1>4, <1>5, Zenon
<1> QED
  BY <1>6 DEF buffer

\* The accounts stay exact.
LEMMA HeldInvStep ==
  ASSUME TypeInv, DownInv, LockInv, WireInv, HeldInv, Next
  PROVE  HeldInv'
<1>1. CASE UNCHANGED <<replay, publishes, unmatched, held, current>>
  BY <1>1 DEF HeldInv, Distinct
<1>2. CASE Reset
  <2>1. ToSet(<<>>) = {} /\ IsInjective(<<>>) /\ Len(<<>>) = 0
    BY DEF ToSet, IsInjective
  <2> QED
    BY <1>2, <2>1 DEF Reset, HeldInv, Distinct
<1>3. CASE Reconnect
  BY <1>3 DEF Reconnect, DownInv, HeldInv, Distinct
<1>4. /\ publishes \in Seq(Entry) /\ unmatched \in Seq(Entry)
      /\ current \in Entry \cup {NoEntry}
  BY DEF TypeInv
<1>5. ASSUME NEW e \in Read, PublishBuffered(e) PROVE HeldInv'
  <2>1. /\ Fresh(e) /\ replay' = "buffered" /\ publishes' = Append(publishes, e) /\ held' = held \cup {e}
        /\ UNCHANGED <<unmatched, current>>
    BY <1>5 DEF PublishBuffered
  <2>2. e \notin held /\ e \in Entry
    BY <2>1, FreshIsNew
  <2>3. e \notin ToSet(unmatched) /\ e \notin ToSet(publishes) /\ e # current
    BY <2>2, NoEntryIsNone DEF HeldInv
  <2>4. ToSet(publishes') = ToSet(publishes) \cup {e}
    BY <1>4, <2>1, <2>2, AppendQueue
  <2>5. /\ Len(publishes') = Len(publishes) + 1 /\ Len(publishes) \in Nat
        /\ \A i \in 1 .. Len(publishes) : publishes'[i] = publishes[i] /\ publishes[i] \in ToSet(publishes)
        /\ publishes'[Len(publishes) + 1] = e
    <3>1. \A i \in 1 .. Len(publishes) : publishes[i] \in ToSet(publishes)
      BY <1>4, MembersAt
    <3> QED
      BY <1>4, <2>1, <2>2, <3>1, AppendAt
  <2>6. \A i, j \in 1 .. Len(publishes') : publishes'[i] = publishes'[j] => i = j
    <3> SUFFICES ASSUME NEW i \in 1 .. Len(publishes'), NEW j \in 1 .. Len(publishes'),
                        publishes'[i] = publishes'[j]
                 PROVE  i = j
      OBVIOUS
    <3>1. CASE i = Len(publishes) + 1 /\ j # Len(publishes) + 1
      BY <2>3, <2>5, <3>1
    <3>2. CASE i # Len(publishes) + 1 /\ j = Len(publishes) + 1
      BY <2>3, <2>5, <3>2
    <3>3. CASE i # Len(publishes) + 1 /\ j # Len(publishes) + 1
      <4>1. i \in 1 .. Len(publishes) /\ j \in 1 .. Len(publishes)
        BY <2>5, <3>3
      <4> QED
        BY <2>5, <4>1 DEF HeldInv, Distinct
    <3> QED
      BY <3>1, <3>2, <3>3
  <2>7. \A i \in 1 .. Len(publishes') : publishes'[i] \notin ToSet(unmatched)
    <3> SUFFICES ASSUME NEW i \in 1 .. Len(publishes') PROVE publishes'[i] \notin ToSet(unmatched)
      OBVIOUS
    <3>1. i = Len(publishes) + 1 \/ i \in 1 .. Len(publishes)
      BY <2>5
    <3> QED
      BY <2>3, <2>5, <3>1 DEF HeldInv, Distinct
  <2>8. Distinct'
    BY <2>1, <2>6, <2>7 DEF Distinct, HeldInv
  <2> QED
    BY <2>1, <2>3, <2>4, <2>8 DEF HeldInv
<1>6. ASSUME NEW d \in Drainers, Drain(d) PROVE HeldInv'
  <2>1. /\ Parts(Pass) = ToSet(unmatched) \cup ToSet(publishes)
        /\ IsInjective(Pass.back) /\ IsInjective(Pass.rest)
        /\ ToSet(Pass.back) \cap ToSet(Pass.rest) = {}
        /\ Pass.stop \notin ToSet(Pass.back) \cup ToSet(Pass.rest) \cup Pass.sent
        /\ Remaining(Pass) = ToSet(Pass.back) \cup ToSet(Pass.rest) \cup ({Pass.stop} \ {NoEntry})
        /\ Pass.stop = NoEntry => Pass.rest = <<>>
    BY PassLeaves, Zenon DEF PassRoute
  <2>2. Pass.back \in Seq(Entry) /\ Pass.rest \in Seq(Entry)
    BY PassLeaves DEF PassState
  <2>3. ToSet(<<>>) = {} /\ IsInjective(<<>>) /\ Len(<<>>) = 0
    BY DEF ToSet, IsInjective
  <2>4. /\ \A s \in Seq(Entry) : \A i \in 1 .. Len(s) : s[i] \in ToSet(s)
        /\ \A s \in Seq(Entry) : IsInjective(s) => \A i, j \in 1 .. Len(s) : s[i] = s[j] => i = j
    <3>1. \A s \in Seq(Entry) : DOMAIN s = 1 .. Len(s)
      OBVIOUS
    <3> QED
      BY <3>1, Zenon DEF ToSet, IsInjective
  <2>5. CASE DrainDelivers(d)
    <3>1. /\ publishes' = Pass.rest /\ unmatched' = Pass.back
          /\ held' = Remaining(Pass) /\ current' = Pass.stop /\ replay' = replay
      BY <2>5, DeliversFacts
    <3>2. \A i, j \in 1 .. Len(publishes') : publishes'[i] = publishes'[j] => i = j
      BY <2>1, <2>2, <2>4, <3>1
    <3>3. \A i \in 1 .. Len(publishes') : publishes'[i] \notin ToSet(unmatched')
      BY <2>1, <2>2, <2>4, <3>1
    <3>4. Distinct'
      BY <2>1, <3>1, <3>2, <3>3 DEF Distinct
    <3>5. held' \subseteq held
      BY <3>1 DEF Remaining
    <3>6. replay' # "buffered" => held' = {}
      BY <3>1, <3>5 DEF HeldInv
    <3>7. held' = ToSet(unmatched') \cup ToSet(publishes') \cup ({current'} \ {NoEntry})
      BY <2>1, <3>1
    <3>8. current' \notin ToSet(unmatched') \cup ToSet(publishes')
      BY <2>1, <3>1
    <3> QED
      BY <3>4, <3>6, <3>7, <3>8 DEF HeldInv
  <2>6. CASE DrainEnds(d)
    <3>1. /\ replay' = AfterPass(d, Pass) /\ Pass.stop = NoEntry
          /\ publishes' = (IF AfterPass(d, Pass) = "buffered" THEN Pass.back ELSE <<>>)
          /\ held' = (IF AfterPass(d, Pass) = "buffered" THEN Remaining(Pass) ELSE {})
          /\ unmatched' = <<>> /\ current' = NoEntry
      BY <2>6, EndsFacts
    <3>2. Remaining(Pass) = ToSet(Pass.back)
      BY <2>1, <2>3, <3>1
    <3>3. ToSet(unmatched') = {} /\ IsInjective(unmatched')
      BY <2>3, <3>1
    <3>4. \A i, j \in 1 .. Len(publishes') : publishes'[i] = publishes'[j] => i = j
      BY <2>1, <2>2, <2>3, <2>4, <3>1
    <3>5. held' = ToSet(publishes')
      BY <2>3, <3>1, <3>2
    <3>6. NoEntry \notin ToSet(publishes')
      <4>1. NoEntry \notin ToSet(Pass.back)
        BY <2>1, <3>1
      <4> QED
        BY <2>3, <3>1, <4>1
    <3>7. Distinct'
      BY <3>3, <3>4 DEF Distinct
    <3> QED
      BY <3>1, <3>3, <3>5, <3>6, <3>7 DEF HeldInv
  <2> QED
    BY <1>6, <2>5, <2>6 DEF Drain
<1>7. ASSUME NEW d \in Drainers, CancelWrite(d) PROVE HeldInv'
  <2> DEFINE u == Append(unmatched, current)
  <2>1. /\ drain[d] = "writing" /\ publishes' = u \o publishes /\ unmatched' = <<>> /\ current' = NoEntry
        /\ UNCHANGED <<replay, held>>
    BY <1>7, WriteFacts
  <2>2. current # NoEntry /\ current \in Entry
    BY <1>4, <2>1 DEF LockInv
  <2>3. current \notin ToSet(unmatched) /\ current \notin ToSet(publishes) /\ IsInjective(unmatched)
    BY DEF HeldInv, Distinct
  <2>4. u \in Seq(Entry) /\ ToSet(u) = ToSet(unmatched) \cup {current} /\ IsInjective(u)
    BY <1>4, <2>2, <2>3, AppendQueue
  <2> HIDE DEF u
  <2>5. /\ ToSet(publishes') = ToSet(u) \cup ToSet(publishes)
        /\ \A i \in 1 .. Len(publishes') :
             \/ i \in 1 .. Len(u) /\ publishes'[i] = u[i]
             \/ i > Len(u) /\ i - Len(u) \in 1 .. Len(publishes) /\ publishes'[i] = publishes[i - Len(u)]
    BY <1>4, <2>1, <2>4, ConcatAt
  <2>6. /\ \A i \in 1 .. Len(u) : u[i] \in ToSet(u)
        /\ \A i \in 1 .. Len(publishes) : publishes[i] \in ToSet(publishes)
        /\ \A i, j \in 1 .. Len(u) : u[i] = u[j] => i = j
        /\ \A i, j \in 1 .. Len(publishes) : publishes[i] = publishes[j] => i = j
    <3>1. /\ \A i \in 1 .. Len(u) : u[i] \in ToSet(u)
          /\ \A i \in 1 .. Len(publishes) : publishes[i] \in ToSet(publishes)
      BY <1>4, <2>4, MembersAt
    <3>2. DOMAIN u = 1 .. Len(u)
      BY <2>4
    <3> QED
      BY <2>4, <3>1, <3>2 DEF HeldInv, Distinct, IsInjective
  <2>7. ToSet(u) \cap ToSet(publishes) = {}
    <3>1. \A x \in ToSet(publishes) : \E i \in 1 .. Len(publishes) : publishes[i] = x
      BY <1>4, MembersAt
    <3>2. \A x \in ToSet(publishes) : x \notin ToSet(unmatched)
      BY <3>1 DEF HeldInv, Distinct
    <3> QED
      BY <2>3, <2>4, <3>2
  <2>8. \A i, j \in 1 .. Len(publishes') : publishes'[i] = publishes'[j] => i = j
    <3> SUFFICES ASSUME NEW i \in 1 .. Len(publishes'), NEW j \in 1 .. Len(publishes'),
                        publishes'[i] = publishes'[j]
                 PROVE  i = j
      OBVIOUS
    <3>1. \/ i \in 1 .. Len(u) /\ publishes'[i] = u[i]
          \/ i > Len(u) /\ i - Len(u) \in 1 .. Len(publishes) /\ publishes'[i] = publishes[i - Len(u)]
      BY <2>5
    <3>2. \/ j \in 1 .. Len(u) /\ publishes'[j] = u[j]
          \/ j > Len(u) /\ j - Len(u) \in 1 .. Len(publishes) /\ publishes'[j] = publishes[j - Len(u)]
      BY <2>5
    <3>3. Len(u) \in Nat
      BY <2>4
    <3>4. CASE i > Len(u) /\ j > Len(u)
      <4>1. i - Len(u) = j - Len(u)
        BY <2>6, <3>1, <3>2, <3>3, <3>4
      <4> QED
        BY <3>3, <4>1
    <3> QED
      BY <2>6, <2>7, <3>1, <3>2, <3>3, <3>4
  <2>9. ToSet(unmatched') = {} /\ IsInjective(unmatched')
    BY <2>1 DEF ToSet, IsInjective
  <2>10. Distinct'
    BY <2>8, <2>9 DEF Distinct
  <2>11. held' = ToSet(unmatched') \cup ToSet(publishes') \cup ({current'} \ {NoEntry})
    BY <2>1, <2>2, <2>4, <2>5, <2>9 DEF HeldInv
  <2>12. current' \notin ToSet(unmatched') \cup ToSet(publishes')
    <3>1. \A x \in ToSet(publishes) : x \in Entry
      BY <1>4, MembersAt
    <3>2. \A x \in ToSet(unmatched) : x \in Entry
      BY <1>4, MembersAt
    <3> QED
      BY <2>1, <2>2, <2>4, <2>5, <2>9, <3>1, <3>2, NoEntryIsNone
  <2> QED
    BY <2>1, <2>10, <2>11, <2>12 DEF HeldInv
<1>8. ASSUME Cancelled PROVE HeldInv'
  <2>1. ASSUME NEW d, CancelWait(d) PROVE HeldInv'
    BY <1>1, <2>1, WaitFacts
  <2>2. ASSUME NEW t, TakeCancelled(t) PROVE HeldInv'
    BY <1>1, <2>2, TakeFacts
  <2> QED
    BY <1>7, <1>8, <2>1, <2>2, Zenon DEF Cancelled
<1> QED
  BY <1>1, <1>2, <1>3, <1>5, <1>6, <1>8, StepCases, HeldFrame, Zenon

\* How puts change.
LEMMA CountFacts ==
  ASSUME TypeInv, NEW ms, CountPuts(ms)
  PROVE  /\ \A m \in Messages : puts'[m] > 0 => puts[m] > 0 \/ m \in ms
         /\ \A m \in Messages : m \notin ms => puts'[m] = puts[m]
BY DEF CountPuts, TypeInv

\* No message of QoS 0 or 1 comes to the client by the step but from the wire.
Unseen == \A n \in Messages : QoSOf[n] < 2 /\ Seen(n)' => Seen(n)

\* What the read loop sees is what it has read.
LEMMA ReadSeen ==
  ASSUME TypeInv, NEW e \in Read, HandlePublish(e) \/ HandlePubrel(e)
  PROVE  \/ Reset
         \/ /\ Reads(e, "PUBLISH") \/ Reads(e, "PUBREL")
            /\ toClient' = Tail(toClient)
            /\ \A n \in Messages : QoSOf[n] < 2 /\ Seen(n)' => Seen(n) \/ (n = e.m /\ Reads(e, "PUBLISH"))
<1>1. CASE UNCHANGED <<puts, rl, held>> /\ toClient' = Tail(toClient) /\ Reads(e, "PUBLISH")
  BY <1>1 DEF Seen
<1>2. CASE PublishBuffered(e)
  BY <1>2 DEF PublishBuffered, Seen, Fresh
<1>3. CASE PublishRouted(e)
  <2>1. Reads(e, "PUBLISH") /\ toClient' = Tail(toClient) /\ held' = held
    BY <1>3 DEF PublishRouted, Fresh, buffer
  <2>2. CASE Full(queue, e.m)
    BY <1>3, <2>1, <2>2 DEF PublishRouted, Seen
  <2>3. CASE ~Full(queue, e.m)
    <3>1. CountPuts({e.m}) /\ rl' = rl
      BY <1>3, <2>3 DEF PublishRouted, Deliver
    <3>2. \A m \in Messages : puts'[m] > 0 => puts[m] > 0 \/ m \in {e.m}
      BY <3>1, CountFacts
    <3> QED
      BY <2>1, <3>1, <3>2 DEF Seen
  <2> QED
    BY <2>2, <2>3
<1>4. CASE HandlePubrel(e)
  <2>1. /\ Reads(e, "PUBREL") /\ toClient' = Tail(toClient) /\ held' = held /\ puts' = puts
        /\ rl' = IF inflight2[e.id].put THEN [m |-> inflight2[e.id].m, id |-> e.id] ELSE NoEntry
    BY <1>4 DEF HandlePubrel, buffer
  <2>2. e.id \in PacketId
    BY <2>1, ReadsFacts
  <2>3. inflight2[e.id].put => inflight2[e.id] \in Flight
    BY <2>2 DEF TypeInv, NoFlight
  <2>4. rl'.m = 0 \/ QoSOf[rl'.m] = 2
    BY <2>1, <2>3 DEF Flight, NoEntry
  <2>5. \A n \in Messages : QoSOf[n] < 2 /\ Seen(n)' => Seen(n)
    BY <2>1, <2>4, InboundAssumption DEF Seen
  <2> QED
    BY <2>1, <2>5
<1>5. PublishOverQuota(e) \/ PublishOverflows(e) => Reset
  BY DEF PublishOverQuota, PublishOverflows, Fail
<1>6. PublishAccepted(e) \/ PublishKnown(e) \/ PublishDropped(e) \/ PublishAccept2(e)
      => UNCHANGED <<puts, rl, held>> /\ toClient' = Tail(toClient) /\ Reads(e, "PUBLISH")
  BY DEF PublishAccepted, PublishKnown, PublishDropped, PublishAccept2, Fresh, buffer
<1> QED
  BY <1>1, <1>2, <1>3, <1>4, <1>5, <1>6 DEF HandlePublish

\* Nor do the other tasks see anything new.
LEMMA TasksSee ==
  ASSUME TypeInv, HeldInv,
         \/ ReadLoopPuts
         \/ \E t \in Subscribed : Subscribe(t) \/ Subscribes(t) \/ GetMessage(t)
         \/ ReplayTimesOut
         \/ \E d \in Drainers : Drain(d)
         \/ \E x \in appHeld : AppAck(x)
         \/ Cancelled
  PROVE  Unseen /\ toClient' = toClient
<1>1. CASE UNCHANGED <<puts, rl, held, toClient>>
  BY <1>1 DEF Unseen, Seen
<1>2. CASE ReadLoopPuts
  <2>1. CountPuts({rl.m}) /\ held' = held /\ toClient' = toClient /\ rl' = NoEntry
    BY <1>2 DEF ReadLoopPuts, Deliver, buffer
  <2>2. \A m \in Messages : puts'[m] > 0 => puts[m] > 0 \/ m \in {rl.m}
    BY <2>1, CountFacts
  <2>3. NoEntry.m \notin Messages
    BY InboundAssumption DEF NoEntry
  <2> QED
    BY <2>1, <2>2, <2>3 DEF Unseen, Seen
<1>3. ASSUME NEW d \in Drainers, Drain(d) PROVE Unseen /\ toClient' = toClient
  <2>1. Pass.sent \subseteq held /\ (Pass.stop # NoEntry => Pass.stop \in held) /\ Remaining(Pass) \subseteq held
    <3>1. Pass.sent \subseteq held
      BY PassLeaves
    <3>2. Pass.stop # NoEntry => Pass.stop \in held
      BY PassLeaves
    <3> QED
      BY <3>1, <3>2 DEF Remaining
  <2>2. CASE DrainDelivers(d)
    <3>1. /\ Pass.stop # NoEntry /\ held' = Remaining(Pass) /\ rl' = rl /\ toClient' = toClient
          /\ \/ CountPuts(DeliveredBySend(Pass) \cup {Pass.stop.m}) \/ CountPuts(DeliveredBySend(Pass))
      BY <2>2, DeliversFacts, Zenon
    <3>2. \A m \in Messages : puts'[m] > 0 => puts[m] > 0 \/ m \in DeliveredBySend(Pass) \cup {Pass.stop.m}
      BY <3>1, CountFacts
    <3>3. \A m \in DeliveredBySend(Pass) \cup {Pass.stop.m} : \E e \in held : e.m = m
      BY <2>1, <3>1 DEF DeliveredBySend
    <3> QED
      BY <2>1, <3>1, <3>2, <3>3 DEF Unseen, Seen
  <2>3. CASE DrainEnds(d)
    <3>1. /\ held' = (IF AfterPass(d, Pass) = "buffered" THEN Remaining(Pass) ELSE {})
          /\ rl' = rl /\ toClient' = toClient /\ CountPuts(DeliveredBySend(Pass))
      BY <2>3, EndsFacts, Zenon
    <3>2. \A m \in Messages : puts'[m] > 0 => puts[m] > 0 \/ m \in DeliveredBySend(Pass)
      BY <3>1, CountFacts
    <3>3. \A m \in DeliveredBySend(Pass) : \E e \in held : e.m = m
      BY <2>1 DEF DeliveredBySend
    <3>4. held' \subseteq held
      BY <2>1, <3>1
    <3> QED
      BY <3>1, <3>2, <3>3, <3>4 DEF Unseen, Seen
  <2> QED
    BY <1>3, <2>2, <2>3 DEF Drain
<1>4. \/ \E t \in Subscribed : Subscribe(t) \/ Subscribes(t) \/ GetMessage(t)
      \/ ReplayTimesOut \/ \E x \in appHeld : AppAck(x)
      => UNCHANGED <<puts, rl, held, toClient>>
  BY DEF Subscribe, Subscribes, GetMessage, ReplayTimesOut, AppAck, buffer, wire
<1>5. Cancelled => UNCHANGED <<puts, rl, held, toClient>>
  BY CancelledFrame
<1> QED
  BY <1>1, <1>2, <1>3, <1>4, <1>5

\* After a lost connection nothing has been seen.
LEMMA NothingSeen ==
  ASSUME puts = [m \in Messages |-> 0], rl = NoEntry, held = {}
  PROVE  \A n \in Messages : ~Seen(n)
BY InboundAssumption DEF Seen, NoEntry

\* A message in flight is not queued.
LEMMA InFlightSent ==
  ASSUME NEW m \in InFlight
  PROVE  bstate[m] # "queued"
BY DEF InFlight

\* The order on the wire is kept.
LEMMA WireInvStep ==
  ASSUME TypeInv, BrokerInv, DownInv, HeldInv, WireInv, Next
  PROVE  WireInv'
<1>1. CASE Unseen /\ UNCHANGED <<toClient, bstate>>
  BY <1>1 DEF WireInv, Unseen
<1>2. CASE Reset /\ UNCHANGED bstate
  <2>1. /\ toClient' = <<>> /\ rl' = NoEntry /\ held' = {} /\ puts' = [m \in Messages |-> 0]
    BY <1>2 DEF Reset
  <2>2. \A n \in Messages : ~Seen(n)'
    BY <2>1, InboundAssumption DEF Seen, NoEntry
  <2> QED
    BY <1>2, <2>1, <2>2 DEF WireInv
<1>3. /\ bstate \in [Messages -> {"queued", "sent", "rel", "done"}]
      /\ toClient \in Seq(ToClientPacket) /\ Messages \subseteq Nat /\ QoSOf \in [Messages -> 0 .. 2]
  BY InboundAssumption DEF TypeInv
<1>4. Len(toClient) \in Nat /\ \A k \in 1 .. Len(toClient) : toClient[k].m \in Messages
  <2>1. \A k \in 1 .. Len(toClient) : toClient[k] \in ToClientPacket
    BY <1>3
  <2> QED
    BY <1>3, <2>1 DEF ToClientPacket
<1>5. ASSUME NEW e \in Read, HandlePublish(e) \/ HandlePubrel(e), ~Reset PROVE WireInv'
  <2>1. /\ Reads(e, "PUBLISH") \/ Reads(e, "PUBREL")
        /\ toClient' = Tail(toClient)
        /\ \A n \in Messages : QoSOf[n] < 2 /\ Seen(n)' => Seen(n) \/ (n = e.m /\ Reads(e, "PUBLISH"))
    BY <1>5, ReadSeen, Zenon
  <2>2. bstate' = bstate
    BY <1>5, BrokerFrame
  <2>3. /\ Len(toClient) \in Nat \ {0}
        /\ Len(Tail(toClient)) = Len(toClient) - 1
        /\ \A i \in 1 .. Len(toClient) - 1 : Tail(toClient)[i] = toClient[i + 1]
        /\ Reads(e, "PUBLISH") => toClient[1] = Publish(e.m, e.id)
    <3>1. CASE Reads(e, "PUBREL")
      <4>1. toClient[1] = [type |-> "PUBREL", id |-> e.id, m |-> e.m]
        BY <3>1, ReadsFacts
      <4>2. ~Reads(e, "PUBLISH")
        BY <3>1 DEF Reads
      <4> QED
        BY <3>1, <4>2, ReadsFacts
    <3>2. CASE Reads(e, "PUBLISH")
      <4>1. toClient[1] = Publish(e.m, e.id)
        BY <3>2, ReadsFacts DEF Publish
      <4> QED
        BY <3>2, <4>1, ReadsFacts
    <3> QED
      BY <2>1, <3>1, <3>2
  <2>4. \A i \in 1 .. Len(toClient') : i + 1 \in 1 .. Len(toClient) /\ toClient'[i] = toClient[i + 1]
    BY <2>1, <2>3
  <2>5. \A n \in Messages : QoSOf[n] < 2 /\ Seen(n)' =>
           Seen(n) \/ (1 \in 1 .. Len(toClient) /\ toClient[1].m = n /\ toClient[1].type = "PUBLISH")
    BY <2>1, <2>3 DEF Publish
  <2>6. Len(toClient') \in Nat
    BY <2>1, <2>3
  <2>7. \A n \in Messages : Seen(n)' /\ QoSOf[n] < 2 => bstate'[n] # "queued"
    BY <2>2, <2>5 DEF WireInv
  <2>8. \A k \in 1 .. Len(toClient') : bstate'[toClient'[k].m] # "queued"
    BY <2>2, <2>4 DEF WireInv
  <2>9. \A k, l \in 1 .. Len(toClient') :
          /\ k < l /\ toClient'[k].type = "PUBLISH" /\ toClient'[l].type = "PUBLISH"
          /\ QoSOf[toClient'[k].m] < 2 /\ QoSOf[toClient'[l].m] < 2
          => toClient'[k].m < toClient'[l].m
    <3> SUFFICES ASSUME NEW k \in 1 .. Len(toClient'), NEW l \in 1 .. Len(toClient'), k < l,
                        toClient'[k].type = "PUBLISH", toClient'[l].type = "PUBLISH",
                        QoSOf[toClient'[k].m] < 2, QoSOf[toClient'[l].m] < 2
                 PROVE  toClient'[k].m < toClient'[l].m
      OBVIOUS
    <3>1. k + 1 < l + 1
      BY <2>6
    <3> QED
      BY <2>4, <3>1 DEF WireInv
  <2>10. \A k \in 1 .. Len(toClient') : \A n \in Messages :
           /\ toClient'[k].type = "PUBLISH" /\ QoSOf[toClient'[k].m] < 2
           /\ Seen(n)' /\ QoSOf[n] < 2
           => n < toClient'[k].m
    <3> SUFFICES ASSUME NEW k \in 1 .. Len(toClient'), NEW n \in Messages,
                        toClient'[k].type = "PUBLISH", QoSOf[toClient'[k].m] < 2,
                        Seen(n)', QoSOf[n] < 2
                 PROVE  n < toClient'[k].m
      OBVIOUS
    <3>1. k + 1 \in 1 .. Len(toClient) /\ toClient'[k] = toClient[k + 1] /\ 1 < k + 1
      BY <2>4, <2>6
    <3>2. CASE Seen(n)
      BY <3>1, <3>2 DEF WireInv
    <3>3. CASE ~Seen(n)
      <4>1. 1 \in 1 .. Len(toClient) /\ toClient[1].m = n /\ toClient[1].type = "PUBLISH"
        BY <2>5, <3>3
      <4> QED
        BY <3>1, <4>1 DEF WireInv
    <3> QED
      BY <3>2, <3>3
  <2> QED
    BY <2>2, <2>7, <2>8, <2>9, <2>10 DEF WireInv
<1>6. ASSUME NEW m \in Messages, NEW id, UNCHANGED <<puts, rl, held>>,
             bstate[m] = "queued", \A n \in Messages : n < m => bstate[n] # "queued",
             bstate' \in [Messages -> {"queued", "sent", "rel", "done"}],
             \A n \in Messages : IF n = m THEN bstate'[n] # "queued" ELSE bstate'[n] = bstate[n],
             Publish(m, id) \in ToClientPacket,
             toClient' = Append(toClient, Publish(m, id))
      PROVE  WireInv'
  <2>1. \A n \in Messages : Seen(n)' <=> Seen(n)
    BY <1>6 DEF Seen
  <2>2. /\ Len(toClient') = Len(toClient) + 1
        /\ \A i \in 1 .. Len(toClient) : toClient'[i] = toClient[i]
        /\ toClient'[Len(toClient) + 1] = Publish(m, id)
    BY <1>3, <1>6, AppendAt
  <2>3. \A k \in 1 .. Len(toClient') :
           \/ k \in 1 .. Len(toClient) /\ toClient'[k] = toClient[k]
           \/ k = Len(toClient) + 1 /\ toClient'[k].m = m /\ toClient'[k].type = "PUBLISH"
    BY <1>4, <2>2 DEF Publish
  <2>4. \A n \in Messages : bstate[n] # "queued" => n < m
    <3> SUFFICES ASSUME NEW n \in Messages, bstate[n] # "queued", ~(n < m) PROVE FALSE
      OBVIOUS
    <3>1. m < n
      BY <1>3, <1>6
    <3> QED
      BY <1>6, <3>1 DEF WireInv
  <2>5. \A a, b \in Messages : bstate'[a] = "queued" /\ a < b => bstate'[b] = "queued"
    <3> SUFFICES ASSUME NEW a \in Messages, NEW b \in Messages, bstate'[a] = "queued", a < b
                 PROVE  bstate'[b] = "queued"
      OBVIOUS
    <3>1. a # m /\ bstate[a] = "queued"
      BY <1>6
    <3>2. bstate[b] = "queued" /\ b # m
      BY <1>6, <3>1 DEF WireInv
    <3> QED
      BY <1>6, <3>2
  <2>6. \A n \in Messages : Seen(n)' /\ QoSOf[n] < 2 => bstate'[n] # "queued"
    BY <1>6, <2>1 DEF WireInv
  <2>7. \A k \in 1 .. Len(toClient') : bstate'[toClient'[k].m] # "queued"
    BY <1>4, <1>6, <2>3 DEF WireInv
  <2>8. \A k, l \in 1 .. Len(toClient') :
          /\ k < l /\ toClient'[k].type = "PUBLISH" /\ toClient'[l].type = "PUBLISH"
          /\ QoSOf[toClient'[k].m] < 2 /\ QoSOf[toClient'[l].m] < 2
          => toClient'[k].m < toClient'[l].m
    <3> SUFFICES ASSUME NEW k \in 1 .. Len(toClient'), NEW l \in 1 .. Len(toClient'), k < l,
                        toClient'[k].type = "PUBLISH", toClient'[l].type = "PUBLISH",
                        QoSOf[toClient'[k].m] < 2, QoSOf[toClient'[l].m] < 2
                 PROVE  toClient'[k].m < toClient'[l].m
      OBVIOUS
    <3>1. k \in 1 .. Len(toClient) /\ toClient'[k] = toClient[k]
      BY <1>4, <2>2
    <3>2. CASE l \in 1 .. Len(toClient)
      BY <2>2, <3>1, <3>2 DEF WireInv
    <3>3. CASE toClient'[l].m = m
      BY <1>4, <2>4, <3>1, <3>3 DEF WireInv
    <3> QED
      BY <2>3, <3>2, <3>3
  <2>9. \A k \in 1 .. Len(toClient') : \A n \in Messages :
           /\ toClient'[k].type = "PUBLISH" /\ QoSOf[toClient'[k].m] < 2
           /\ Seen(n)' /\ QoSOf[n] < 2
           => n < toClient'[k].m
    BY <2>1, <2>3, <2>4 DEF WireInv
  <2> QED
    BY <2>5, <2>6, <2>7, <2>8, <2>9 DEF WireInv
<1>7. ASSUME NEW m \in Messages, BrokerSends0(m) PROVE WireInv'
  <2>1. Publish(m, 0) \in ToClientPacket
    BY <1>7, InboundAssumption DEF ToClientPacket, Publish, BrokerSends0
  <2>2. /\ bstate' = [bstate EXCEPT ![m] = "done"] /\ toClient' = Append(toClient, Publish(m, 0))
        /\ bstate[m] = "queued" /\ \A n \in Messages : n < m => bstate[n] # "queued"
        /\ UNCHANGED <<puts, rl, held>>
    BY <1>7 DEF BrokerSends0, MaySend, buffer
  <2>3. /\ bstate' \in [Messages -> {"queued", "sent", "rel", "done"}]
        /\ \A n \in Messages : IF n = m THEN bstate'[n] # "queued" ELSE bstate'[n] = bstate[n]
    BY <1>3, <2>2
  <2> QED
    BY <1>6, <2>1, <2>2, <2>3, Zenon
<1>8. ASSUME NEW m \in Messages, BrokerSends(m) PROVE WireInv'
  <2>1. Min(FreeIds) \in PacketId /\ QoSOf[m] # 0
    BY <1>8, FreeIdIsFree DEF BrokerSends
  <2>2. Publish(m, Min(FreeIds)) \in ToClientPacket
    BY <2>1, InboundAssumption DEF ToClientPacket, Publish, PacketId
  <2>3. /\ bstate' = [bstate EXCEPT ![m] = "sent"] /\ toClient' = Append(toClient, Publish(m, Min(FreeIds)))
        /\ bstate[m] = "queued" /\ \A n \in Messages : n < m => bstate[n] # "queued"
        /\ UNCHANGED <<puts, rl, held>>
    BY <1>8 DEF BrokerSends, MaySend, buffer
  <2>4. /\ bstate' \in [Messages -> {"queued", "sent", "rel", "done"}]
        /\ \A n \in Messages : IF n = m THEN bstate'[n] # "queued" ELSE bstate'[n] = bstate[n]
    BY <1>3, <2>3
  <2> QED
    BY <1>6, <2>2, <2>3, <2>4, Zenon
<1>9. ASSUME NEW s \in Seq(ToClientPacket), toClient' = toClient \o s, UNCHANGED <<puts, rl, held>>,
             \A k \in 1 .. Len(s) : /\ s[k].type = "PUBREL" \/ QoSOf[s[k].m] = 2
                                    /\ bstate[s[k].m] # "queued",
             \A n \in Messages : bstate'[n] = "queued" <=> bstate[n] = "queued"
      PROVE  WireInv'
  <2>1. \A n \in Messages : Seen(n)' <=> Seen(n)
    BY <1>9 DEF Seen
  <2>2. /\ Len(toClient') = Len(toClient) + Len(s) /\ Len(s) \in Nat
        /\ \A i \in 1 .. Len(toClient) : toClient'[i] = toClient[i]
        /\ \A i \in 1 .. Len(s) : toClient'[Len(toClient) + i] = s[i] /\ s[i].m \in Messages
    <3>1. \A i \in 1 .. Len(s) : s[i].m \in Messages
      BY DEF ToClientPacket
    <3> QED
      BY <1>3, <1>9, <3>1, ConcatMembers
  <2>3. ASSUME NEW k \in 1 .. Len(toClient')
        PROVE  \/ k \in 1 .. Len(toClient) /\ toClient'[k] = toClient[k]
               \/ /\ toClient'[k].type = "PUBREL" \/ QoSOf[toClient'[k].m] = 2
                  /\ bstate[toClient'[k].m] # "queued" /\ toClient'[k].m \in Messages
    <3>1. CASE k \in 1 .. Len(toClient)
      BY <2>2, <3>1
    <3>2. CASE k \notin 1 .. Len(toClient)
      <4>1. k - Len(toClient) \in 1 .. Len(s) /\ Len(toClient) + (k - Len(toClient)) = k
        BY <1>4, <2>2, <3>2
      <4> QED
        BY <1>9, <2>2, <4>1
    <3> QED
      BY <3>1, <3>2
  <2>4. \A k \in 1 .. Len(toClient') : bstate'[toClient'[k].m] # "queued"
    BY <1>4, <1>9, <2>3 DEF WireInv
  <2>5. \A k \in 1 .. Len(toClient') :
          toClient'[k].type = "PUBLISH" /\ QoSOf[toClient'[k].m] < 2
          => k \in 1 .. Len(toClient) /\ toClient'[k] = toClient[k]
    BY <2>3
  <2>6. \A m, n \in Messages : bstate'[m] = "queued" /\ m < n => bstate'[n] = "queued"
    BY <1>9 DEF WireInv
  <2>7. \A n \in Messages : Seen(n)' /\ QoSOf[n] < 2 => bstate'[n] # "queued"
    BY <1>9, <2>1 DEF WireInv
  <2>8. \A k, l \in 1 .. Len(toClient') :
          /\ k < l /\ toClient'[k].type = "PUBLISH" /\ toClient'[l].type = "PUBLISH"
          /\ QoSOf[toClient'[k].m] < 2 /\ QoSOf[toClient'[l].m] < 2
          => toClient'[k].m < toClient'[l].m
    BY <2>5 DEF WireInv
  <2>9. \A k \in 1 .. Len(toClient') : \A n \in Messages :
           /\ toClient'[k].type = "PUBLISH" /\ QoSOf[toClient'[k].m] < 2
           /\ Seen(n)' /\ QoSOf[n] < 2
           => n < toClient'[k].m
    BY <2>1, <2>5 DEF WireInv
  <2> QED
    BY <2>4, <2>6, <2>7, <2>8, <2>9 DEF WireInv
<1>10. CASE BrokerReceives
  <2> DEFINE p == Head(toBroker)
             ends == {m \in Messages : Completes(p, m)}
             rels == {m \in InFlight : p.type = "PUBREC" /\ bid[m] = p.id /\ QoSOf[m] = 2}
             sends == [i \in 1 .. Cardinality(rels) |-> Pubrel(CHOOSE m \in rels : TRUE, p.id)]
  <2>1. /\ toBroker # <<>>
        /\ bstate' = [m \in Messages |-> IF m \in ends THEN "done"
                                         ELSE IF m \in rels THEN "rel" ELSE bstate[m]]
        /\ toClient' = toClient \o sends
        /\ UNCHANGED <<rl, buffer, puts>>
    BY <1>10, Zenon DEF BrokerReceives
  <2>2. Cardinality(rels) \in Nat /\ (Cardinality(rels) # 0 => rels # {})
    <3>1. IsFiniteSet(rels)
      BY FS_Subset DEF BrokerInv
    <3> QED
      BY <3>1, FS_CardinalityType, FS_EmptySet
  <2>3. p.id \in PacketId /\ p.id \in 0 .. MaxId /\ p.id # 0
    <3>1. p \in ToBrokerPacket
      BY <2>1 DEF TypeInv
    <3> QED
      BY <3>1, InboundAssumption DEF ToBrokerPacket, PacketId
  <2> DEFINE r == CHOOSE m \in rels : TRUE
  <2>4. rels # {} => r \in InFlight /\ r \in Messages
    BY DEF InFlight
  <2>5. \A n \in Messages : bstate'[n] = "queued" <=> bstate[n] = "queued"
    <3>1. ends \subseteq InFlight /\ rels \subseteq InFlight
      BY DEF Completes
    <3> HIDE DEF ends, rels
    <3> QED
      BY <2>1, <3>1 DEF InFlight
  <2> HIDE DEF rels, r
  <2>6. sends = [i \in 1 .. Cardinality(rels) |-> Pubrel(r, p.id)]
    BY DEF r
  <2> HIDE DEF p
  <2>7. rels # {} => Pubrel(r, p.id) \in ToClientPacket
    BY <2>3, <2>4 DEF Pubrel, ToClientPacket
  <2>8. sends \in Seq(ToClientPacket) /\ Len(sends) = Cardinality(rels)
    BY <2>2, <2>6, <2>7
  <2>9. \A k \in 1 .. Len(sends) : sends[k] = Pubrel(r, p.id) /\ rels # {}
    BY <2>2, <2>6, <2>8
  <2>10. \A k \in 1 .. Len(sends) : /\ sends[k].type = "PUBREL" \/ QoSOf[sends[k].m] = 2
                                    /\ bstate[sends[k].m] # "queued"
    <3>1. Pubrel(r, p.id).type = "PUBREL" /\ Pubrel(r, p.id).m = r
      BY DEF Pubrel
    <3> QED
      BY <2>4, <2>9, <3>1, InFlightSent
  <2> HIDE DEF sends
  <2>11. UNCHANGED <<puts, rl, held>>
    BY <2>1 DEF buffer
  <2> QED
    BY <1>9, <2>1, <2>5, <2>8, <2>10, <2>11, Zenon
<1>11. ASSUME NEW m \in Messages, BrokerRetransmits(m) PROVE WireInv'
  <2>1. /\ m \in resends /\ bstate[m] = "sent" /\ toClient' = Append(toClient, Publish(m, bid[m]))
        /\ UNCHANGED <<bstate, puts, rl, held>>
    BY <1>11 DEF BrokerRetransmits, buffer
  <2>2. QoSOf[m] = 2 /\ bid[m] \in PacketId
    BY <2>1, IdTypes, InboundAssumption DEF TypeInv, InFlight
  <2>3. Publish(m, bid[m]) \in ToClientPacket
    BY <2>2, InboundAssumption DEF ToClientPacket, Publish, PacketId
  <2> DEFINE s == <<Publish(m, bid[m])>>
  <2>4. s \in Seq(ToClientPacket) /\ Len(s) = 1 /\ s[1] = Publish(m, bid[m])
    BY <2>3
  <2>5. toClient' = toClient \o s
    BY <1>3, <2>1, <2>3
  <2>6. \A k \in 1 .. Len(s) : /\ s[k].type = "PUBREL" \/ QoSOf[s[k].m] = 2
                               /\ bstate[s[k].m] # "queued"
    <3>1. Publish(m, bid[m]).m = m
      BY DEF Publish
    <3> QED
      BY <2>1, <2>2, <2>4, <3>1
  <2> HIDE DEF s
  <2>7. \A n \in Messages : bstate'[n] = "queued" <=> bstate[n] = "queued"
    BY <2>1
  <2> QED
    BY <1>9, <2>1, <2>4, <2>5, <2>6, <2>7, Zenon
<1>12. CASE Reconnect
  <2>1. /\ conn # "up" /\ UNCHANGED <<bstate, puts, rl, held>>
        /\ toClient' = [i \in 1 .. Cardinality(InFlight) |-> Resend(InOrder(InFlight)[i])]
    BY <1>12 DEF Reconnect, broker
  <2>2. \A n \in Messages : ~Seen(n)
    BY <2>1, NothingSeen DEF DownInv
  <2>3. \A n \in Messages : ~Seen(n)'
    BY <2>1, <2>2 DEF Seen
  <2> DEFINE c == Cardinality(InFlight)
             o == InOrder(InFlight)
  <2>4. /\ c \in Nat /\ o \in [1 .. c -> InFlight]
        /\ \A i, j \in 1 .. c : i < j => o[i] < o[j]
    <3>1. InFlight \in SUBSET Nat /\ IsFiniteSet(InFlight)
      BY InboundAssumption DEF InFlight, BrokerInv
    <3> QED
      BY <3>1, InOrderFacts
  <2> HIDE DEF c, o
  <2>5. toClient' = [i \in 1 .. c |-> Resend(o[i])]
    BY <2>1 DEF c, o
  <2>6. Len(toClient') = c
    BY <2>4, <2>5
  <2>7. \A i \in 1 .. c : toClient'[i].m = o[i] /\ bstate[o[i]] # "queued"
    <3>1. \A i \in 1 .. c : toClient'[i] = Resend(o[i])
      BY <2>5
    <3>2. \A m : Resend(m).m = m
      BY DEF Resend, Publish, Pubrel
    <3> QED
      BY <2>4, <3>1, <3>2, InFlightSent
  <2>8. \A k, l \in 1 .. Len(toClient') : k < l => toClient'[k].m < toClient'[l].m
    BY <2>4, <2>6, <2>7
  <2>9. \A m, n \in Messages : bstate'[m] = "queued" /\ m < n => bstate'[n] = "queued"
    BY <2>1 DEF WireInv
  <2>10. \A k \in 1 .. Len(toClient') : bstate'[toClient'[k].m] # "queued"
    BY <2>1, <2>6, <2>7
  <2> QED
    BY <2>3, <2>8, <2>9, <2>10, Zenon DEF WireInv
<1>13. ConnectionLost => Reset
  BY DEF ConnectionLost
<1>14. CASE \/ ReadLoopPuts
            \/ \E t \in Subscribed : Subscribe(t) \/ Subscribes(t) \/ GetMessage(t)
            \/ ReplayTimesOut
            \/ \E d \in Drainers : Drain(d)
            \/ \E x \in appHeld : AppAck(x)
            \/ Cancelled
  <2>1. Unseen /\ toClient' = toClient
    BY <1>14, TasksSee, Zenon
  <2>2. bstate' = bstate
    BY <1>14, BrokerFrame, Zenon
  <2> QED
    BY <1>1, <2>1, <2>2
<1>15. CASE \E e \in Read : HandlePublish(e) \/ HandlePubrel(e)
  <2>1. bstate' = bstate
    BY <1>15, BrokerFrame, Zenon
  <2> QED
    BY <1>2, <1>5, <1>15, <2>1
<1>16. CASE ConnectionLost
  <2>1. bstate' = bstate
    BY <1>16, BrokerFrame, Zenon
  <2> QED
    BY <1>2, <1>13, <1>16, <2>1
<1>17. CASE Broker
  BY <1>7, <1>8, <1>10, <1>17, Zenon DEF Broker
<1> QED
  BY <1>11, <1>12, <1>14, <1>15, <1>16, <1>17, StepCases, Zenon

-----------------------------------------------------------------------------
(* Nothing is stuck in the replay buffer.                                  *)

Asked == \E d \in Drainers \ {Expiry} : drain[d] \in {"suback", "wants"}
UnderWay == \E d \in Drainers \ {Expiry} : drain[d] = "writing"

\* A message whose subscription is there and whose queue is empty will be considered: a
\* pass has been asked for, or the one under way has it before it.
OnWay ==
  \A e \in held : TopicOf[e.m] \in entries =>
    \/ queue[TopicOf[e.m]] # <<>>
    \/ Asked
    \/ e \notin ToSet(unmatched) /\ UnderWay

\* Where nothing is taken away from a queue or a task, this stays so.
LEMMA OnWayKept ==
  ASSUME OnWay, held' \subseteq held, entries' = entries, UNCHANGED <<unmatched, drain>>,
         \A t \in entries : queue[t] # <<>> => queue'[t] # <<>>
  PROVE  OnWay'
BY DEF OnWay, Asked, UnderWay

\* Only a pass makes up for a drain that was cancelled, and the end of the connection.
LEMMA MissedFrame ==
  ASSUME TypeInv, Next, ~\E d \in Drainers : Drain(d)
  PROVE  \/ Reset \/ Cancelled
         \/ missed' = missed
<1>1. \A e : HandlePublish(e) \/ HandlePubrel(e) => Reset \/ UNCHANGED lapses
  BY Zenon DEF HandlePublish, HandlePubrel, PublishOverQuota, PublishAccepted, PublishKnown, Fail,
     PublishOverflows, PublishBuffered, PublishDropped, PublishAccept2, PublishRouted
<1>2. Broker => UNCHANGED lapses
  BY Zenon DEF Broker, BrokerSends0, BrokerSends, BrokerReceives
<1>3. \/ ReadLoopPuts \/ Reconnect \/ ReplayTimesOut \/ \E x \in appHeld : AppAck(x)
      \/ \E t \in Subscribed : Subscribe(t) \/ Subscribes(t) \/ GetMessage(t)
      \/ \E m \in Messages : BrokerRetransmits(m)
      => UNCHANGED lapses
  BY Zenon DEF ReadLoopPuts, Reconnect, ReplayTimesOut, Subscribe, Subscribes, GetMessage, AppAck,
     BrokerRetransmits
<1>4. ConnectionLost => Reset
  BY DEF ConnectionLost
<1>5. Reset \/ Cancelled \/ UNCHANGED lapses
  BY <1>1, <1>2, <1>3, <1>4, StepCases, Zenon
<1>6. UNCHANGED lapses => missed' = missed
  BY DEF lapses
<1> QED
  BY <1>5, <1>6

\* put() does not empty a queue.
LEMMA PutFills ==
  ASSUME NEW q \in Queues, NEW e \in Entry, TopicOf[e.m] \in Subscribed
  PROVE  \A t \in Subscribed : q[t] # <<>> => Put(q, e)[t] # <<>>
<1>1. /\ \A t \in Subscribed \ {TopicOf[e.m]} : Put(q, e)[t] = q[t]
      /\ Put(q, e)[TopicOf[e.m]] = Append(q[TopicOf[e.m]], ItemOf(e))
  BY PutFacts
<1>2. q[TopicOf[e.m]] \in Seq(Item) /\ ItemOf(e) \in Item
  BY ItemOfType DEF Queues
<1>3. Append(q[TopicOf[e.m]], ItemOf(e)) # <<>>
  BY <1>2
<1> QED
  BY <1>1, <1>3

\* Nor does a pass.
LEMMA PassFills ==
  ASSUME TypeInv, HeldInv
  PROVE  /\ \A t \in Subscribed : queue[t] # <<>> => Pass.queue[t] # <<>>
         /\ \A e \in ToSet(Pass.back) \ ToSet(unmatched) : HasRecipient(e.m) => Pass.queue[TopicOf[e.m]] # <<>>
<1>1. PassQueue(Pass) /\ PassRoute(Pass)
  BY PassLeaves
<1>2. /\ \A t \in Subscribed : queue[t] \in Seq(Item) /\ Pass.queue[t] \in Seq(Item)
      /\ entries \subseteq Subscribed
  <2>1. Pass.queue \in Queues
    BY PassLeaves DEF PassState
  <2> QED
    BY <2>1 DEF Queues, TypeInv
<1>3. ASSUME NEW t \in Subscribed, queue[t] # <<>> PROVE Pass.queue[t] # <<>>
  <2>1. Len(queue[t]) > 0 /\ Len(queue[t]) <= Len(Pass.queue[t])
    BY <1>1, <1>2, <1>3 DEF PassQueue
  <2> QED
    BY <1>2, <2>1
<1>4. ASSUME NEW e \in ToSet(Pass.back) \ ToSet(unmatched), HasRecipient(e.m)
      PROVE  Pass.queue[TopicOf[e.m]] # <<>>
  <2>1. Len(Pass.queue[TopicOf[e.m]]) >= QueueSize
    BY <1>1, <1>4 DEF PassRoute, Full
  <2>2. TopicOf[e.m] \in Subscribed /\ QueueSize \in Nat /\ QueueSize > 0
    BY <1>2, <1>4, InboundAssumption DEF HasRecipient
  <2> QED
    BY <1>2, <2>1, <2>2
<1> QED
  BY <1>3, <1>4

\* No step but a pass that goes on or a cancelled call leaves a message stuck.
LEMMA OthersOnWay ==
  ASSUME TypeInv, DownInv, LockInv, WireInv, HeldInv, OnWay, Next,
         ~\E d \in Drainers : Drain(d), ~Cancelled
  PROVE  OnWay'
<1>1. CASE Reset
  BY <1>1 DEF Reset, OnWay
<1>2. CASE held' = held /\ UNCHANGED <<entries, unmatched, drain, queue>>
  BY <1>2 DEF OnWay, Asked, UnderWay
<1>3. /\ entries \subseteq Subscribed /\ queue \in Queues
      /\ drain \in [Drainers -> {"idle", "suback", "wants", "writing"}]
  BY DEF TypeInv
<1>4. \A t \in Subscribed : /\ <<"get", t>> \in Drainers \ {Expiry} /\ <<"sub", t>> \in Drainers \ {Expiry}
  BY DrainersOf DEF Expiry
<1>5. ASSUME NEW e \in Read, PublishBuffered(e) PROVE OnWay'
  <2>1. /\ Fresh(e) /\ ~Direct(e.m) /\ held' = held \cup {e} /\ UNCHANGED <<entries, unmatched, drain, queue>>
    BY <1>5 DEF PublishBuffered
  <2>2. e \notin held
    BY <2>1, FreshIsNew
  <2>3. e \notin ToSet(unmatched)
    BY <2>2 DEF HeldInv
  <2>4. TopicOf[e.m] \in entries => \E x \in held : TopicOf[x.m] = TopicOf[e.m]
    BY <2>1 DEF Direct, HasRecipient, HeldTopics
  <2>5. TopicOf[e.m] \in entries => queue[TopicOf[e.m]] # <<>> \/ Asked \/ UnderWay
    BY <2>4 DEF OnWay
  <2>6. Asked' = Asked /\ UnderWay' = UnderWay
    BY <2>1 DEF Asked, UnderWay
  <2> QED
    BY <2>1, <2>3, <2>5, <2>6 DEF OnWay
<1>6. ASSUME NEW e \in Entry, TopicOf[e.m] \in Subscribed, NEW quota, Deliver(e, quota),
             held' = held, UNCHANGED <<entries, unmatched, drain>>
      PROVE  OnWay'
  <2>1. queue' = Put(queue, e)
    BY <1>6 DEF Deliver
  <2>2. \A t \in Subscribed : queue[t] # <<>> => queue'[t] # <<>>
    BY <1>3, <1>6, <2>1, PutFills
  <2> QED
    BY <1>3, <1>6, <2>2, OnWayKept
<1>7. CASE ReadLoopPuts
  <2>1. /\ rl \in Entry /\ TopicOf[rl.m] \in Subscribed /\ Deliver(rl, unack)
        /\ held' = held /\ UNCHANGED <<entries, unmatched, drain>>
    BY <1>7 DEF TypeInv, ReadLoopPuts, buffer
  <2> QED
    BY <1>6, <2>1
<1>8. ASSUME NEW e \in Read, PublishRouted(e) PROVE OnWay'
  <2>1. /\ Fresh(e) /\ HasRecipient(e.m) /\ held' = held /\ UNCHANGED <<entries, unmatched, drain>>
        /\ (queue' = queue \/ Deliver(e, Quota(e)))
    BY <1>8 DEF PublishRouted, buffer
  <2>2. e \in Entry
    BY <2>1, FreshIsNew
  <2>3. TopicOf[e.m] \in Subscribed
    BY <1>3, <2>1 DEF HasRecipient
  <2>4. CASE queue' = queue
    BY <1>2, <2>1, <2>4
  <2>5. CASE Deliver(e, Quota(e))
    BY <1>6, <2>1, <2>2, <2>3, <2>5, Zenon
  <2> QED
    BY <2>1, <2>4, <2>5
<1>9. ASSUME NEW e \in Read, HandlePublish(e) \/ HandlePubrel(e), ~PublishRouted(e), ~PublishBuffered(e)
      PROVE  Reset \/ (held' = held /\ UNCHANGED <<entries, unmatched, drain, queue>>)
  BY <1>9 DEF HandlePublish, HandlePubrel, PublishOverQuota, PublishAccepted, PublishKnown, Fail,
     PublishOverflows, PublishDropped, PublishAccept2, buffer
<1>10. ASSUME NEW t \in Subscribed, Subscribe(t) \/ Subscribes(t) PROVE OnWay'
  <2>1. CASE held = {}
    BY <1>10, <2>1 DEF Subscribe, Subscribes, buffer, OnWay
  <2>2. CASE held # {}
    <3>1. replay = "buffered"
      BY <2>2 DEF HeldInv
    <3>2. \/ drain' = [drain EXCEPT ![<<"sub", t>>] = "suback"]
          \/ drain' = [drain EXCEPT ![<<"sub", t>>] = "wants"]
      BY <1>10, <3>1 DEF Subscribe, Subscribes, BeginDrain
    <3>3. Asked'
      <4>1. drain'[<<"sub", t>>] \in {"suback", "wants"}
        BY <1>3, <1>4, <3>2
      <4> QED
        BY <1>4, <4>1, Zenon DEF Asked
    <3> QED
      BY <3>3 DEF OnWay
  <2> QED
    BY <2>1, <2>2
<1>11. ASSUME NEW t \in Subscribed, GetMessage(t) PROVE OnWay'
  <2>1. CASE held = {}
    BY <1>11, <2>1 DEF GetMessage, buffer, OnWay
  <2>2. CASE held # {}
    <3>1. drain' = [drain EXCEPT ![<<"get", t>>] = "wants"]
      BY <1>11, <2>2 DEF HeldInv, GetMessage, BeginDrain
    <3>2. Asked'
      <4>1. drain'[<<"get", t>>] \in {"suback", "wants"}
        BY <1>3, <1>4, <3>1
      <4> QED
        BY <1>4, <4>1, Zenon DEF Asked
    <3> QED
      BY <3>2 DEF OnWay
  <2> QED
    BY <2>1, <2>2
<1>12. CASE ReplayTimesOut
  <2>1. /\ drain' = [drain EXCEPT ![Expiry] = "wants"] /\ UNCHANGED <<held, entries, unmatched, queue>>
    BY <1>12 DEF ReplayTimesOut, buffer, flow
  <2>2. \A d \in Drainers \ {Expiry} : drain'[d] = drain[d]
    BY <1>3, <2>1
  <2>3. Asked' = Asked /\ UnderWay' = UnderWay
    BY <2>2 DEF Asked, UnderWay
  <2> QED
    BY <2>1, <2>3 DEF OnWay
<1>15. ConnectionLost => Reset
  BY DEF ConnectionLost
<1>16. \/ Broker \/ \E m \in Messages : BrokerRetransmits(m)
       \/ \E x \in appHeld : AppAck(x)
       => held' = held /\ UNCHANGED <<entries, unmatched, drain, queue>>
  BY DEF Broker, BrokerSends0, BrokerSends, BrokerReceives, BrokerRetransmits, AppAck, buffer, flow
<1>17. Reconnect => held' = {}
  BY DEF Reconnect, DownInv
<1>18. CASE \E e \in Read : HandlePublish(e) \/ HandlePubrel(e)
  BY <1>1, <1>2, <1>5, <1>8, <1>9, <1>18, Zenon
<1>19. CASE held' = {}
  BY <1>19 DEF OnWay
<1> QED
  BY <1>1, <1>2, <1>7, <1>10, <1>11, <1>12, <1>15, <1>16, <1>17, <1>18, <1>19, StepCases, Zenon

\* Nor does a pass, if none was, or if it has begun now.
LEMMA DrainOnWay ==
  ASSUME TypeInv, LockInv, HeldInv, NEW d \in Drainers, Drain(d), OnWay \/ MakesUp(d)
  PROVE  OnWay'
<1>1. /\ entries \subseteq Subscribed /\ queue \in Queues
      /\ drain \in [Drainers -> {"idle", "suback", "wants", "writing"}]
  BY DEF TypeInv
<1>2. ASSUME NEW e \in held, TopicOf[e.m] \in entries,
             e \in ToSet(unmatched), queue[TopicOf[e.m]] = <<>>
      PROVE  \E x \in Drainers \ {Expiry} : x # d /\ drain[x] \in {"suback", "wants"}
  <2>1. Asked \/ MakesUp(d)
    BY <1>2 DEF OnWay
  <2>2. Runs(d)
    BY DEF Drain, DrainDelivers, DrainEnds
  <2>3. unmatched # <<>>
    BY <1>2 DEF ToSet
  <2>4. \E y \in Drainers : drain[y] = "writing"
    BY <2>3 DEF LockInv
  <2>5. drain[d] = "writing"
    BY <2>2, <2>4 DEF Runs
  <2> QED
    BY <2>1, <2>5 DEF MakesUp, Asked
<1>3. /\ Remaining(Pass) = ToSet(Pass.back) \cup ToSet(Pass.rest) \cup ({Pass.stop} \ {NoEntry})
      /\ ToSet(Pass.back) \cap ToSet(Pass.rest) = {}
      /\ Pass.stop \notin ToSet(Pass.back) \cup ToSet(Pass.rest) \cup Pass.sent
  BY PassLeaves, Zenon
<1>4. /\ \A t \in Subscribed : queue[t] # <<>> => Pass.queue[t] # <<>>
      /\ \A e \in ToSet(Pass.back) \ ToSet(unmatched) : HasRecipient(e.m) => Pass.queue[TopicOf[e.m]] # <<>>
  BY PassFills
<1>5. Remaining(Pass) \subseteq held
  BY DEF Remaining
<1>6. /\ Pass.queue \in Queues /\ PassRoute(Pass)
      /\ Pass.stop # NoEntry => Pass.stop \in Entry /\ TopicOf[Pass.stop.m] \in Subscribed
  <2>1. Pass.queue \in Queues /\ Pass.stop \in Entry \cup {NoEntry}
    BY PassLeaves DEF PassState
  <2>2. PassRoute(Pass)
    BY PassLeaves
  <2> QED
    BY <1>1, <2>1, <2>2 DEF PassRoute, HasRecipient
<1>7. CASE DrainDelivers(d)
  <2>1. /\ Pass.stop # NoEntry /\ unmatched' = Pass.back /\ held' = Remaining(Pass)
        /\ drain' = [drain EXCEPT ![d] = "writing"] /\ entries' = entries /\ Runs(d)
        /\ queue' = Put(Pass.queue, Pass.stop) \/ queue' = Pass.queue
    BY <1>7, DeliversFacts, Zenon
  <2>2. \A t \in Subscribed : Pass.queue[t] # <<>> => queue'[t] # <<>>
    BY <1>6, <2>1, PutFills
  <2>3. \A x \in Drainers : drain'[x] = IF x = d THEN "writing" ELSE drain[x]
    BY <1>1, <2>1
  <2> SUFFICES ASSUME NEW e \in Remaining(Pass), TopicOf[e.m] \in entries, queue'[TopicOf[e.m]] = <<>>
               PROVE  Asked' \/ (e \notin ToSet(Pass.back) /\ UnderWay')
    BY <2>1 DEF OnWay
  <2>4. e \in held /\ TopicOf[e.m] \in Subscribed /\ queue[TopicOf[e.m]] = <<>> /\ Pass.queue[TopicOf[e.m]] = <<>>
    BY <1>1, <1>4, <1>5, <2>2
  <2>5. CASE e \in ToSet(unmatched)
    <3>1. PICK x \in Drainers \ {Expiry} : x # d /\ drain[x] \in {"suback", "wants"}
      BY <1>2, <2>4, <2>5
    <3>2. drain'[x] \in {"suback", "wants"}
      BY <2>3, <3>1
    <3> QED
      BY <3>2 DEF Asked
  <2>6. CASE e \in ToSet(Pass.back) \ ToSet(unmatched)
    BY <1>4, <2>4, <2>6 DEF HasRecipient
  <2>7. CASE e \notin ToSet(Pass.back)
    <3>1. CASE d # Expiry
      <4>1. UnderWay'
        BY <2>3, <3>1 DEF UnderWay
      <4> QED
        BY <2>7, <4>1
    <3>2. CASE d = Expiry
      <4>1. Asked \/ UnderWay
        BY <2>4, <3>2 DEF OnWay, MakesUp
      <4>2. ~UnderWay
        BY <1>1, <2>1, <3>2 DEF UnderWay, Runs, LockInv
      <4>3. Asked'
        BY <2>3, <3>2, <4>1, <4>2 DEF Asked
      <4> QED
        BY <4>3
    <3> QED
      BY <3>1, <3>2
  <2> QED
    BY <2>5, <2>6, <2>7
<1>8. CASE DrainEnds(d)
  <2>1. /\ Pass.stop = NoEntry
        /\ held' = (IF AfterPass(d, Pass) = "buffered" THEN Remaining(Pass) ELSE {})
        /\ queue' = Pass.queue /\ entries' = entries
        /\ drain' = [x \in Drainers |-> IF x \in Over(d) THEN "idle" ELSE drain[x]]
    BY <1>8, EndsFacts, Zenon
  <2>2. CASE AfterPass(d, Pass) # "buffered"
    BY <2>1, <2>2 DEF OnWay
  <2>3. CASE AfterPass(d, Pass) = "buffered"
    <3>1. Over(d) = {d}
      BY <2>3 DEF Over
    <3>2. \A x \in Drainers : x # d => drain'[x] = drain[x]
      BY <2>1, <3>1
    <3>3. Remaining(Pass) = ToSet(Pass.back)
      <4>1. ToSet(Pass.rest) = {}
        BY <1>6, <2>1 DEF PassRoute, ToSet
      <4> QED
        BY <1>3, <2>1, <4>1
    <3> SUFFICES ASSUME NEW e \in ToSet(Pass.back), TopicOf[e.m] \in entries, queue'[TopicOf[e.m]] = <<>>
                 PROVE  Asked'
      BY <2>1, <2>3, <3>3 DEF OnWay
    <3>4. e \in held /\ TopicOf[e.m] \in Subscribed /\ queue[TopicOf[e.m]] = <<>> /\ Pass.queue[TopicOf[e.m]] = <<>>
      BY <1>1, <1>4, <1>5, <2>1, <3>3
    <3>5. e \in ToSet(unmatched)
      BY <1>4, <3>4 DEF HasRecipient
    <3>6. PICK x \in Drainers \ {Expiry} : x # d /\ drain[x] \in {"suback", "wants"}
      BY <1>2, <3>4, <3>5
    <3>7. drain'[x] \in {"suback", "wants"}
      BY <3>2, <3>6
    <3> QED
      BY <3>7 DEF Asked
  <2> QED
    BY <2>2, <2>3
<1> QED
  BY <1>7, <1>8 DEF Drain

\* No step leaves a message stuck, except that a cancelled call may until the next pass.
LEMMA OnWayStep ==
  ASSUME TypeInv, DownInv, LockInv, WireInv, HeldInv, missed \/ OnWay, Next
  PROVE  missed' \/ OnWay'
<1>1. CASE held' = {}
  BY <1>1 DEF OnWay
<1>2. ASSUME NEW d \in Drainers, Drain(d) PROVE missed' \/ OnWay'
  <2>1. CASE OnWay \/ MakesUp(d)
    BY <1>2, <2>1, DrainOnWay
  <2>2. CASE missed /\ ~MakesUp(d)
    <3>1. DrainDelivers(d) => missed'
      BY <2>2, Zenon DEF DrainDelivers
    <3>2. DrainEnds(d) => missed' \/ held' = {}
      BY <2>2, Zenon DEF DrainEnds
    <3> QED
      BY <1>1, <1>2, <3>1, <3>2 DEF Drain
  <2> QED
    BY <2>1, <2>2
<1>3. CASE Cancelled
  <2>1. ASSUME NEW t, TakeCancelled(t) PROVE missed' \/ OnWay'
    <3>1. missed' = (missed \/ replay = "buffered") /\ held' = held
      BY <2>1, TakeFacts
    <3>2. CASE missed \/ replay = "buffered"
      BY <3>1, <3>2
    <3>3. CASE replay # "buffered"
      BY <1>1, <3>1, <3>3 DEF HeldInv
    <3> QED
      BY <3>2, <3>3
  <2>2. ASSUME NEW d, CancelWait(d) \/ CancelWrite(d) PROVE missed'
    BY <2>2, WaitFacts, WriteFacts
  <2> QED
    BY <1>3, <2>1, <2>2, Zenon DEF Cancelled
<1>4. CASE Reset
  BY <1>1, <1>4 DEF Reset
<1>5. CASE ~(\E d \in Drainers : Drain(d)) /\ ~Cancelled /\ ~Reset
  BY <1>5, MissedFrame, OthersOnWay, Zenon
<1> QED
  BY <1>2, <1>3, <1>4, <1>5, Zenon

-----------------------------------------------------------------------------
(* The place of a message in its topic.                                    *)

\* The messages HeldKeepsItsPlace is about.
Sole(e) == AutoAck = {TopicOf[e.m]} /\ QoSOf[e.m] < 2

\* The one that is being acknowledged came before those that are left, and none of the
\* topic that comes after it is queued: it may be put back.
CurrentFirst ==
  /\ \A e \in ToSet(publishes) : Sole(e) => current.m < e.m
  /\ \A m \in Messages : m > current.m /\ TopicOf[m] = TopicOf[current.m] /\ QoSOf[m] < 2 => puts[m] = 0

\* They are buffered in order, a suspended pass has put none of them back, and the read
\* loop waits for room only where nothing of the topic is buffered.
OrderInv ==
  /\ \A k, l \in 1 .. Len(publishes) :
       k < l /\ Sole(publishes[k]) /\ Sole(publishes[l]) => publishes[k].m < publishes[l].m
  /\ current # NoEntry => \A e \in ToSet(unmatched) : AutoAck # {TopicOf[e.m]}
  /\ rl # NoEntry /\ QoSOf[rl.m] < 2 => \A e \in held : TopicOf[e.m] # TopicOf[rl.m]
  /\ HeldKeepsItsPlace
  /\ current # NoEntry /\ Sole(current) => CurrentFirst

\* What a pass puts back comes after what it delivers, in its topic.
LEMMA OrderOfPass ==
  ASSUME TypeInv, LockInv, HeldInv, OrderInv
  PROVE  /\ \A e \in ToSet(unmatched) : AutoAck # {TopicOf[e.m]}
         /\ \A x, y : Before(x, y) /\ Sole(x) /\ Sole(y) => x.m < y.m
         /\ \A x \in Pass.sent \cup ({Pass.stop} \ {NoEntry}) : \A y \in ToSet(Pass.back) \cup ToSet(Pass.rest) :
              TopicOf[x.m] = TopicOf[y.m] /\ Sole(x) /\ Sole(y) => x.m < y.m
         /\ \A k, l \in 1 .. Len(Pass.back) :
              k < l /\ Sole(Pass.back[k]) /\ Sole(Pass.back[l]) => Pass.back[k].m < Pass.back[l].m
         /\ \A k, l \in 1 .. Len(Pass.rest) :
              k < l /\ Sole(Pass.rest[k]) /\ Sole(Pass.rest[l]) => Pass.rest[k].m < Pass.rest[l].m
         /\ Pass.stop # NoEntry => \A e \in ToSet(Pass.back) : AutoAck # {TopicOf[e.m]}
         /\ Pass.stop # NoEntry /\ Sole(Pass.stop) => \A x \in Pass.sent : Sole(x) => x.m < Pass.stop.m
<1>1. \A e \in ToSet(unmatched) : AutoAck # {TopicOf[e.m]}
  <2>1. current = NoEntry => ToSet(unmatched) = {}
    BY DEF LockInv, ToSet
  <2> QED
    BY <2>1 DEF OrderInv
<1>2. \A x, y : Before(x, y) /\ Sole(x) /\ Sole(y) => x.m < y.m
  BY DEF Before, OrderInv
<1>3. PassOrder(Pass) /\ PassRoute(Pass)
  BY PassLeaves
<1>4. \A y : Sole(y) => y \notin ToSet(unmatched)
  BY <1>1 DEF Sole
<1>5. \A x \in Pass.sent \cup ({Pass.stop} \ {NoEntry}) : \A y \in ToSet(Pass.back) \cup ToSet(Pass.rest) :
        TopicOf[x.m] = TopicOf[y.m] /\ Sole(x) /\ Sole(y) => x.m < y.m
  BY <1>2, <1>3, <1>4 DEF PassOrder
<1>6. \A k, l \in 1 .. Len(Pass.back) :
        k < l /\ Sole(Pass.back[k]) /\ Sole(Pass.back[l]) => Pass.back[k].m < Pass.back[l].m
  BY <1>2, <1>3, <1>4, Zenon DEF PassOrder
<1>7. \A k, l \in 1 .. Len(Pass.rest) :
        k < l /\ Sole(Pass.rest[k]) /\ Sole(Pass.rest[l]) => Pass.rest[k].m < Pass.rest[l].m
  BY <1>2, <1>3, Zenon DEF PassOrder
<1>8. ASSUME Pass.stop # NoEntry, NEW e \in ToSet(Pass.back), AutoAck = {TopicOf[e.m]} PROVE FALSE
  <2>1. e \notin ToSet(unmatched)
    BY <1>1, <1>8
  <2>2. TopicOf[Pass.stop.m] = TopicOf[e.m]
    BY <1>3, <1>8 DEF PassRoute, AckedAtOnce, AutoAcked
  <2>3. HasRecipient(e.m) /\ ~Full(Pass.queue, e.m)
    BY <1>3, <1>8, <2>2 DEF PassRoute, HasRecipient, Full
  <2> QED
    BY <1>3, <1>8, <2>1, <2>3 DEF PassRoute
<1>9. Pass.stop # NoEntry /\ Sole(Pass.stop) => \A x \in Pass.sent : Sole(x) => x.m < Pass.stop.m
  BY <1>2, <1>3 DEF PassOrder
<1> QED
  BY <1>1, <1>2, <1>5, <1>6, <1>7, <1>8, <1>9

\* Where the read loop, the buffer and the counts of deliveries do not change, nor does
\* the order.
LEMMA OrderKept ==
  ASSUME OrderInv, UNCHANGED <<publishes, unmatched, held, current, puts>>,
         rl' = rl \/ rl' = NoEntry \/ QoSOf[rl'.m] = 2
  PROVE  OrderInv'
<1>1. HeldKeepsItsPlace'
  BY DEF OrderInv, HeldKeepsItsPlace
<1> QED
  BY <1>1 DEF OrderInv, Sole, CurrentFirst

\* A pass keeps the order.
LEMMA DrainKeepsOrder ==
  ASSUME TypeInv, LockInv, HeldInv, OrderInv, NEW d \in Drainers, Drain(d)
  PROVE  OrderInv'
<1> DEFINE new == Pass.sent \cup ({Pass.stop} \ {NoEntry})
           left == ToSet(Pass.back) \cup ToSet(Pass.rest)
<1>1. /\ \A x \in new : \A y \in left : TopicOf[x.m] = TopicOf[y.m] /\ Sole(x) /\ Sole(y) => x.m < y.m
      /\ \A k, l \in 1 .. Len(Pass.back) :
           k < l /\ Sole(Pass.back[k]) /\ Sole(Pass.back[l]) => Pass.back[k].m < Pass.back[l].m
      /\ \A k, l \in 1 .. Len(Pass.rest) :
           k < l /\ Sole(Pass.rest[k]) /\ Sole(Pass.rest[l]) => Pass.rest[k].m < Pass.rest[l].m
      /\ Pass.stop # NoEntry => \A e \in ToSet(Pass.back) : AutoAck # {TopicOf[e.m]}
      /\ Pass.stop # NoEntry /\ Sole(Pass.stop) => \A x \in Pass.sent : Sole(x) => x.m < Pass.stop.m
  BY OrderOfPass, Zenon
<1>2. /\ Remaining(Pass) = ToSet(Pass.back) \cup ToSet(Pass.rest) \cup ({Pass.stop} \ {NoEntry})
      /\ current \notin left /\ left \subseteq Entry /\ new \subseteq Entry
  <2>1. /\ Remaining(Pass) = ToSet(Pass.back) \cup ToSet(Pass.rest) \cup ({Pass.stop} \ {NoEntry})
        /\ current \notin left /\ Pass \in PassState
    BY PassLeaves, Zenon
  <2>2. /\ Pass.back \in Seq(Entry) /\ Pass.rest \in Seq(Entry) /\ Pass.sent \subseteq Entry
        /\ Pass.stop \in Entry \cup {NoEntry}
    BY <2>1 DEF PassState
  <2> QED
    BY <2>1, <2>2, MembersAt
<1>3. Remaining(Pass) \subseteq held
  BY DEF Remaining
<1>4. \A m \in Messages : puts'[m] # puts[m] => \E x \in new : x.m = m
  <2>1. CASE DrainDelivers(d)
    <3>1. \/ CountPuts(DeliveredBySend(Pass) \cup {Pass.stop.m})
          \/ CountPuts(DeliveredBySend(Pass))
      BY <2>1, DeliversFacts, Zenon
    <3>2. Pass.stop # NoEntry
      BY <2>1, DeliversFacts, Zenon
    <3>3. \A m \in DeliveredBySend(Pass) \cup {Pass.stop.m} : \E x \in new : x.m = m
      BY <3>2 DEF DeliveredBySend
    <3> QED
      BY <3>1, <3>3, CountFacts
  <2>2. CASE DrainEnds(d)
    <3>1. CountPuts(DeliveredBySend(Pass))
      BY <2>2, EndsFacts, Zenon
    <3>2. \A m \in DeliveredBySend(Pass) : \E x \in new : x.m = m
      BY DEF DeliveredBySend
    <3> QED
      BY <3>1, <3>2, CountFacts
  <2> QED
    BY <2>1, <2>2 DEF Drain
<1> HIDE DEF new, left
<1>5. /\ held' \ {current'} \subseteq left /\ held' \subseteq held /\ rl' = rl
      /\ Len(publishes') = 0 \/ publishes' = Pass.back \/ publishes' = Pass.rest
      /\ current' # NoEntry => Pass.stop # NoEntry /\ unmatched' = Pass.back
  <2>1. CASE DrainDelivers(d)
    <3>1. /\ Pass.stop # NoEntry /\ publishes' = Pass.rest /\ unmatched' = Pass.back
          /\ held' = Remaining(Pass) /\ current' = Pass.stop /\ rl' = rl
      BY <2>1, DeliversFacts, Zenon
    <3> QED
      BY <1>2, <1>3, <3>1 DEF left
  <2>2. CASE DrainEnds(d)
    <3>1. /\ Pass.stop = NoEntry
          /\ publishes' = Pass.back \/ publishes' = <<>>
          /\ held' = Remaining(Pass) \/ held' = {}
          /\ current' = NoEntry /\ rl' = rl
      BY <2>2, EndsFacts
    <3>2. held' \subseteq left /\ held' \subseteq held
      BY <1>2, <1>3, <3>1 DEF left
    <3>3. Len(publishes') = 0 \/ publishes' = Pass.back
      BY <3>1
    <3> QED
      BY <3>1, <3>2, <3>3
  <2> QED
    BY <2>1, <2>2 DEF Drain
<1>6. HeldKeepsItsPlace'
  <2> SUFFICES ASSUME NEW e \in held' \ {current'}, NEW m \in Messages, m > e.m, TopicOf[m] = TopicOf[e.m],
                      AutoAck = {TopicOf[e.m]}, QoSOf[m] < 2, QoSOf[e.m] < 2
               PROVE  puts'[m] = 0
    BY DEF HeldKeepsItsPlace
  <2>1. e \in left /\ e \in held \ {current}
    BY <1>2, <1>5
  <2>2. puts[m] = 0
    BY <2>1 DEF OrderInv, HeldKeepsItsPlace
  <2>3. ASSUME puts'[m] # puts[m] PROVE FALSE
    <3>1. PICK x \in new : x.m = m
      BY <1>4, <2>3
    <3>2. Sole(x) /\ Sole(e)
      BY <3>1 DEF Sole
    <3>3. x.m < e.m
      BY <1>1, <2>1, <3>1, <3>2
    <3>4. e.m \in Nat /\ m \in Nat
      BY <1>2, <2>1, InboundAssumption DEF Entry
    <3> QED
      BY <3>1, <3>3, <3>4
  <2> QED
    BY <2>2, <2>3
<1>7. \A k, l \in 1 .. Len(publishes') :
        k < l /\ Sole(publishes'[k]) /\ Sole(publishes'[l]) => publishes'[k].m < publishes'[l].m
  <2>1. CASE Len(publishes') = 0
    BY <2>1
  <2>2. CASE publishes' = Pass.back
    BY <1>1, <2>2, Zenon
  <2>3. CASE publishes' = Pass.rest
    BY <1>1, <2>3, Zenon
  <2> QED
    BY <1>5, <2>1, <2>2, <2>3
<1>8. current' # NoEntry => \A e \in ToSet(unmatched') : AutoAck # {TopicOf[e.m]}
  BY <1>1, <1>5
<1>9. rl' # NoEntry /\ QoSOf[rl'.m] < 2 => \A e \in held' : TopicOf[e.m] # TopicOf[rl'.m]
  BY <1>5 DEF OrderInv
<1>10. ASSUME current' # NoEntry, Sole(current') PROVE CurrentFirst'
  <2>1. DrainDelivers(d)
    <3>1. ~DrainEnds(d)
      BY <1>10, EndsFacts
    <3> QED
      BY <3>1 DEF Drain
  <2>2. Pass.stop # NoEntry /\ publishes' = Pass.rest /\ current' = Pass.stop
    BY <2>1, DeliversFacts, Zenon
  <2>3. Pass.stop \in new /\ ToSet(Pass.rest) \subseteq left /\ Pass.stop \in Entry
    BY <1>2, <2>2 DEF new, left
  <2>4. \A e \in ToSet(publishes') : Sole(e) => current'.m < e.m
    <3> SUFFICES ASSUME NEW e \in ToSet(Pass.rest), Sole(e) PROVE Pass.stop.m < e.m
      BY <2>2
    <3>1. TopicOf[Pass.stop.m] = TopicOf[e.m]
      BY <1>10, <2>2 DEF Sole
    <3> QED
      BY <1>1, <1>10, <2>2, <2>3, <3>1
  <2>5. ASSUME NEW m \in Messages, m > Pass.stop.m, TopicOf[m] = TopicOf[Pass.stop.m], QoSOf[m] < 2
        PROVE  puts'[m] = 0
    <3>1. Pass.stop \in held \ {current}
      <4>1. Pass.stop \in held
        BY <2>2, PassLeaves
      <4>2. Pass.stop \in ToSet(publishes)
        BY <2>2, PassLeaves
      <4> QED
        BY <4>1, <4>2 DEF HeldInv
    <3>2. AutoAck = {TopicOf[Pass.stop.m]} /\ QoSOf[Pass.stop.m] < 2
      BY <1>10, <2>2 DEF Sole
    <3>3. puts[m] = 0
      BY <2>5, <3>1, <3>2 DEF OrderInv, HeldKeepsItsPlace
    <3>4. ASSUME puts'[m] # puts[m] PROVE FALSE
      <4>1. PICK x \in new : x.m = m
        BY <1>4, <3>4
      <4>2. Sole(x)
        BY <2>5, <3>2, <4>1 DEF Sole
      <4>3. Pass.stop.m \in Nat /\ m \in Nat
        BY <2>3, InboundAssumption DEF Entry
      <4>4. x \in Pass.sent
        BY <2>5, <4>1, <4>3 DEF new
      <4>5. x.m < Pass.stop.m
        BY <1>1, <1>10, <2>2, <4>2, <4>4
      <4> QED
        BY <2>5, <4>1, <4>3, <4>5
    <3> QED
      BY <3>3, <3>4
  <2> QED
    BY <2>2, <2>4, <2>5 DEF CurrentFirst
<1> QED
  BY <1>6, <1>7, <1>8, <1>9, <1>10, Zenon DEF OrderInv, Sole

\* Nothing overtakes a buffered message of its topic.
LEMMA OrderInvStep ==
  ASSUME TypeInv, DownInv, LockInv, WireInv, HeldInv, OrderInv, Next
  PROVE  OrderInv'
<1>1. CASE Reset
  <2>1. publishes' = <<>> /\ unmatched' = <<>> /\ held' = {} /\ current' = NoEntry /\ rl' = NoEntry
    BY <1>1 DEF Reset
  <2>2. Len(publishes') = 0
    BY <2>1
  <2> QED
    BY <2>1, <2>2 DEF OrderInv, HeldKeepsItsPlace
<1>2. ASSUME NEW e \in Entry, NEW q, Deliver(e, q), UNCHANGED <<publishes, unmatched, held, current>>,
             rl' = rl \/ rl' = NoEntry,
             QoSOf[e.m] < 2 => \A x \in held : TopicOf[x.m] # TopicOf[e.m]
      PROVE  OrderInv'
  <2>1. CountPuts({e.m})
    BY <1>2 DEF Deliver
  <2>2. \A m \in Messages : m # e.m => puts'[m] = puts[m]
    BY <2>1, CountFacts
  <2>3. HeldKeepsItsPlace'
    BY <1>2, <2>2 DEF OrderInv, HeldKeepsItsPlace
  <2>4. current # NoEntry => current \in held
    BY DEF HeldInv
  <2>5. current # NoEntry /\ Sole(current) => CurrentFirst'
    BY <1>2, <2>2, <2>4 DEF OrderInv, CurrentFirst, Sole
  <2> QED
    BY <1>2, <2>3, <2>5 DEF OrderInv, Sole
<1>3. CASE ReadLoopPuts
  <2>1. /\ rl \in Entry /\ rl # NoEntry /\ Deliver(rl, unack) /\ rl' = NoEntry
        /\ UNCHANGED <<publishes, unmatched, held, current>>
    BY <1>3 DEF TypeInv, ReadLoopPuts, buffer
  <2>2. QoSOf[rl.m] < 2 => \A x \in held : TopicOf[x.m] # TopicOf[rl.m]
    BY <2>1 DEF OrderInv
  <2> QED
    BY <1>2, <2>1, <2>2, Zenon
<1>4. ASSUME NEW e \in Read, PublishBuffered(e) PROVE OrderInv'
  <2>1. /\ Fresh(e) /\ publishes' = Append(publishes, e) /\ held' = held \cup {e}
        /\ UNCHANGED <<unmatched, current, rl, puts>> /\ rl = NoEntry
    BY <1>4 DEF PublishBuffered, Fresh, Reads
  <2>2. /\ e \in Entry
        /\ \A n \in Messages : Seen(n) /\ QoSOf[n] < 2 /\ QoSOf[e.m] < 2 => n < e.m
    BY <2>1, FreshIsNew
  <2>3. publishes \in Seq(Entry) /\ e.m \in Messages /\ puts \in [Messages -> 0 .. 2]
    BY <2>2 DEF TypeInv, Entry
  <2>4. \A x \in held : x.m \in Messages /\ Seen(x.m)
    BY DEF Seen, TypeInv, Entry
  <2>5. \A i \in 1 .. Len(publishes) : publishes[i] \in held
    BY <2>3, MembersAt DEF HeldInv
  <2>6. HeldKeepsItsPlace'
    <3> SUFFICES ASSUME NEW x \in held \cup {e}, x # current, NEW m \in Messages, m > x.m, TopicOf[m] = TopicOf[x.m],
                        AutoAck = {TopicOf[x.m]}, QoSOf[m] < 2, QoSOf[x.m] < 2
                 PROVE  puts[m] = 0
      BY <2>1 DEF HeldKeepsItsPlace
    <3>1. CASE x = e
      <4>1. ~Seen(m)
        <5>1. m \in Nat /\ e.m \in Nat
          BY <2>3, InboundAssumption
        <5> QED
          BY <2>2, <3>1, <5>1
      <4> QED
        BY <2>3, <4>1 DEF Seen
    <3>2. CASE x \in held
      BY <3>2 DEF OrderInv, HeldKeepsItsPlace
    <3> QED
      BY <3>1, <3>2
  <2>7. \A k, l \in 1 .. Len(publishes') :
          k < l /\ Sole(publishes'[k]) /\ Sole(publishes'[l]) => publishes'[k].m < publishes'[l].m
    <3> SUFFICES ASSUME NEW k \in 1 .. Len(publishes'), NEW l \in 1 .. Len(publishes'), k < l,
                        Sole(publishes'[k]), Sole(publishes'[l])
                 PROVE  publishes'[k].m < publishes'[l].m
      OBVIOUS
    <3>1. /\ Len(publishes') = Len(publishes) + 1 /\ Len(publishes) \in Nat
          /\ \A i \in 1 .. Len(publishes) : publishes'[i] = publishes[i]
          /\ publishes'[Len(publishes) + 1] = e
      BY <2>1, <2>2, <2>3, AppendAt
    <3>2. k \in 1 .. Len(publishes) /\ publishes'[k] = publishes[k]
      BY <3>1
    <3>3. CASE l = Len(publishes) + 1
      BY <2>2, <2>4, <2>5, <3>1, <3>2, <3>3 DEF Sole
    <3>4. CASE l # Len(publishes) + 1
      <4>1. l \in 1 .. Len(publishes) /\ publishes'[l] = publishes[l]
        BY <3>1, <3>4
      <4> QED
        BY <3>2, <4>1 DEF OrderInv
    <3> QED
      BY <3>3, <3>4
  <2>8. ASSUME current # NoEntry, Sole(current) PROVE CurrentFirst'
    <3>1. ToSet(publishes') = ToSet(publishes) \cup {e}
      BY <2>1, <2>2, <2>3, AppendQueue
    <3>2. current \in held
      BY <2>8 DEF HeldInv
    <3>3. Sole(e) => current.m < e.m
      BY <2>2, <2>4, <2>8, <3>2 DEF Sole
    <3>4. CurrentFirst
      BY <2>8 DEF OrderInv
    <3> QED
      BY <2>1, <3>1, <3>3, <3>4 DEF CurrentFirst
  <2> QED
    BY <2>1, <2>6, <2>7, <2>8, Zenon DEF OrderInv, Sole
<1>5. ASSUME NEW e \in Read, PublishRouted(e) PROVE OrderInv'
  <2>1. /\ Fresh(e) /\ Direct(e.m) /\ UNCHANGED <<publishes, unmatched, held, current>>
        /\ (rl' = e /\ puts' = puts) \/ (Deliver(e, Quota(e)) /\ rl' = rl)
    BY <1>5 DEF PublishRouted, buffer
  <2>2. e \in Entry
    BY <2>1, FreshIsNew
  <2>3. \A x \in held : TopicOf[x.m] # TopicOf[e.m]
    BY <2>1 DEF Direct, HeldInv, HeldTopics
  <2>4. CASE rl' = e /\ puts' = puts
    <3>1. HeldKeepsItsPlace'
      BY <2>1, <2>4 DEF OrderInv, HeldKeepsItsPlace
    <3> QED
      BY <2>1, <2>3, <2>4, <3>1 DEF OrderInv, Sole, CurrentFirst
  <2>5. CASE Deliver(e, Quota(e)) /\ rl' = rl
    BY <1>2, <2>1, <2>2, <2>3, <2>5, Zenon
  <2> QED
    BY <2>1, <2>4, <2>5
<1>6. ASSUME NEW e \in Read, HandlePublish(e), ~PublishRouted(e), ~PublishBuffered(e) PROVE OrderInv'
  <2>1. Reset \/ UNCHANGED <<publishes, unmatched, held, current, puts, rl>>
    BY <1>6 DEF HandlePublish, PublishOverQuota, PublishAccepted, PublishKnown, Fail,
       PublishOverflows, PublishDropped, PublishAccept2, buffer
  <2> QED
    BY <1>1, <2>1, OrderKept
<1>7. ASSUME NEW e \in Read, HandlePubrel(e) PROVE OrderInv'
  <2>1. /\ UNCHANGED <<publishes, unmatched, held, current, puts>> /\ Reads(e, "PUBREL")
        /\ rl' = IF inflight2[e.id].put THEN [m |-> inflight2[e.id].m, id |-> e.id] ELSE NoEntry
    BY <1>7 DEF HandlePubrel, buffer
  <2>2. inflight2[e.id] \in Flight \cup {NoFlight}
    BY <2>1, ReadsFacts DEF TypeInv
  <2>3. inflight2[e.id].put => QoSOf[inflight2[e.id].m] = 2
    BY <2>2 DEF Flight, NoFlight
  <2>4. rl' = NoEntry \/ QoSOf[rl'.m] = 2
    BY <2>1, <2>3
  <2> QED
    BY <2>1, <2>4, OrderKept
<1>8. CASE \/ \E t \in Subscribed : Subscribe(t) \/ Subscribes(t) \/ GetMessage(t)
           \/ ReplayTimesOut \/ \E x \in appHeld : AppAck(x)
           \/ Broker \/ Reconnect \/ \E m \in Messages : BrokerRetransmits(m)
  <2>1. UNCHANGED <<publishes, unmatched, held, current, puts, rl>>
    BY <1>8 DEF Subscribe, Subscribes, GetMessage, ReplayTimesOut, AppAck, Broker, BrokerSends0, BrokerSends,
       BrokerReceives, Reconnect, BrokerRetransmits, buffer
  <2> QED
    BY <2>1, OrderKept
<1>9. CASE ConnectionLost
  BY <1>1, <1>9 DEF ConnectionLost
<1>10. ASSUME NEW d \in Drainers, CancelWrite(d) PROVE OrderInv'
  <2> DEFINE u == Append(unmatched, current)
  <2>1. /\ drain[d] = "writing" /\ publishes' = u \o publishes /\ unmatched' = <<>> /\ current' = NoEntry
        /\ UNCHANGED <<held, puts, rl>>
    BY <1>10, WriteFacts
  <2>2. /\ publishes \in Seq(Entry) /\ unmatched \in Seq(Entry)
        /\ current # NoEntry /\ current \in Entry
    BY <2>1 DEF LockInv, TypeInv
  <2>3. /\ u \in Seq(Entry) /\ Len(u) = Len(unmatched) + 1 /\ Len(unmatched) \in Nat /\ Len(u) \in Nat
        /\ \A i \in 1 .. Len(unmatched) : u[i] = unmatched[i] /\ unmatched[i] \in ToSet(unmatched)
        /\ u[Len(unmatched) + 1] = current
    <3>1. \A i \in 1 .. Len(unmatched) : unmatched[i] \in ToSet(unmatched)
      BY <2>2, MembersAt
    <3> QED
      BY <2>2, <3>1, AppendAt
  <2>4. \A i \in 1 .. Len(u) : Sole(u[i]) => u[i] = current /\ i = Len(u)
    <3> SUFFICES ASSUME NEW i \in 1 .. Len(u), Sole(u[i]) PROVE u[i] = current /\ i = Len(u)
      OBVIOUS
    <3>1. CASE i \in 1 .. Len(unmatched)
      BY <2>2, <2>3, <3>1 DEF OrderInv, Sole
    <3>2. CASE i \notin 1 .. Len(unmatched)
      <4>1. i = Len(unmatched) + 1
        BY <2>3, <3>2
      <4> QED
        BY <2>3, <4>1
    <3> QED
      BY <3>1, <3>2
  <2> HIDE DEF u
  <2>5. \A i \in 1 .. Len(publishes') :
          \/ i \in 1 .. Len(u) /\ publishes'[i] = u[i]
          \/ i > Len(u) /\ i - Len(u) \in 1 .. Len(publishes) /\ publishes'[i] = publishes[i - Len(u)]
    BY <2>1, <2>2, <2>3, ConcatAt
  <2>6. \A i \in 1 .. Len(publishes) : publishes[i] \in ToSet(publishes)
    BY <2>2, MembersAt
  <2>7. \A k, l \in 1 .. Len(publishes') :
          k < l /\ Sole(publishes'[k]) /\ Sole(publishes'[l]) => publishes'[k].m < publishes'[l].m
    <3> SUFFICES ASSUME NEW k \in 1 .. Len(publishes'), NEW l \in 1 .. Len(publishes'), k < l,
                        Sole(publishes'[k]), Sole(publishes'[l])
                 PROVE  publishes'[k].m < publishes'[l].m
      OBVIOUS
    <3>1. \/ k \in 1 .. Len(u) /\ publishes'[k] = u[k]
          \/ k > Len(u) /\ k - Len(u) \in 1 .. Len(publishes) /\ publishes'[k] = publishes[k - Len(u)]
      BY <2>5
    <3>2. \/ l \in 1 .. Len(u) /\ publishes'[l] = u[l]
          \/ l > Len(u) /\ l - Len(u) \in 1 .. Len(publishes) /\ publishes'[l] = publishes[l - Len(u)]
      BY <2>5
    <3>3. l > Len(u)
      BY <2>3, <2>4, <3>1, <3>2
    <3>4. CASE k > Len(u)
      <4>1. k - Len(u) < l - Len(u)
        BY <2>3
      <4> QED
        BY <2>3, <3>1, <3>2, <3>3, <3>4, <4>1 DEF OrderInv
    <3>5. CASE ~(k > Len(u))
      <4>1. publishes'[k] = current /\ Sole(current)
        BY <2>4, <3>1, <3>5
      <4>2. CurrentFirst
        BY <2>2, <4>1 DEF OrderInv
      <4>3. publishes'[l] \in ToSet(publishes)
        BY <2>3, <2>6, <3>2, <3>3
      <4> QED
        BY <4>1, <4>2, <4>3 DEF CurrentFirst
    <3> QED
      BY <3>4, <3>5
  <2>8. HeldKeepsItsPlace'
    <3> SUFFICES ASSUME NEW e \in held, NEW m \in Messages, m > e.m, TopicOf[m] = TopicOf[e.m],
                        AutoAck = {TopicOf[e.m]}, QoSOf[m] < 2, QoSOf[e.m] < 2
                 PROVE  puts[m] = 0
      BY <2>1 DEF HeldKeepsItsPlace
    <3>1. CASE e = current
      <4>1. CurrentFirst
        BY <2>2, <3>1 DEF OrderInv, Sole
      <4> QED
        BY <3>1, <4>1 DEF CurrentFirst
    <3>2. CASE e # current
      BY <3>2 DEF OrderInv, HeldKeepsItsPlace
    <3> QED
      BY <3>1, <3>2
  <2> QED
    BY <2>1, <2>7, <2>8 DEF OrderInv
<1>11. CASE Cancelled
  <2>1. ASSUME NEW d, CancelWait(d) PROVE OrderInv'
    BY <2>1, WaitFacts, OrderKept
  <2>2. ASSUME NEW t, TakeCancelled(t) PROVE OrderInv'
    BY <2>2, TakeFacts, OrderKept
  <2> QED
    BY <1>10, <1>11, <2>1, <2>2, Zenon DEF Cancelled
<1> QED
  BY <1>3, <1>4, <1>5, <1>6, <1>7, <1>8, <1>9, <1>11, DrainKeepsOrder, StepCases, Zenon

-----------------------------------------------------------------------------
(* The first theorems.                                                     *)

\* The inductive invariant of the types, the replay buffer and the order of topics.
BufferInv ==
  /\ TypeInv /\ BrokerInv /\ DownInv /\ LockInv /\ WireInv /\ HeldInv /\ (missed \/ OnWay) /\ OrderInv

\* It holds when the first connection begins.
LEMMA BufferInvInit == Init => BufferInv
<1> SUFFICES ASSUME Init PROVE BufferInv
  OBVIOUS
<1> USE DEF Init
<1>1. TypeInv
  BY InboundAssumption DEF TypeInv, Queues
<1>2. InFlight = {}
  BY DEF InFlight
<1>3. BrokerInv
  <2>1. IsFiniteSet({}) /\ Cardinality({}) = 0
    BY FS_EmptySet
  <2>2. \A m \in Messages : bid[m] = 0 /\ bstate[m] = "queued"
    OBVIOUS
  <2>3. ReceiveMaximum \in Nat
    BY InboundAssumption
  <2>4. ReceiveMaximum # 0 => Cardinality(InFlight) <= ReceiveMaximum
    BY <1>2, <2>1, <2>3
  <2> QED
    BY <1>2, <2>1, <2>2, <2>4 DEF BrokerInv
<1>4. DownInv
  BY DEF DownInv
<1>5. LockInv
  <2>1. \A d \in Drainers : drain[d] = "idle"
    OBVIOUS
  <2> QED
    BY <2>1, DrainersOf DEF LockInv
<1>6. Len(toClient) = 0 /\ Len(publishes) = 0 /\ ToSet(publishes) = {} /\ ToSet(unmatched) = {} /\ IsInjective(unmatched)
  BY DEF ToSet, IsInjective
<1>7. \A n \in Messages : ~Seen(n)
  BY NothingSeen
<1>8. WireInv
  BY <1>6, <1>7 DEF WireInv
<1>9. HeldInv
  BY <1>6 DEF HeldInv, Distinct
<1>10. OnWay
  BY DEF OnWay
<1>11. OrderInv
  BY <1>6 DEF OrderInv, HeldKeepsItsPlace
<1> QED
  BY <1>1, <1>3, <1>4, <1>5, <1>8, <1>9, <1>10, <1>11 DEF BufferInv

\* Every step keeps the types.
LEMMA TypeInvStep ==
  ASSUME TypeInv, BrokerInv, LockInv, HeldInv, Next
  PROVE  TypeInv'
<1>1. Distinct
  BY DEF HeldInv
<1>2. \A d \in Drainers : drain[d] = "writing" => current # NoEntry
  BY DEF LockInv
<1> QED
  BY <1>1, <1>2, ReadLoopType, ReadLoopPutsType, ConsumerType, DrainType, AppAckType, BrokerType,
     CancelledType, StepCases, Zenon

\* Every step keeps the invariant.
LEMMA BufferInvStep == BufferInv /\ [Next]_vars => BufferInv'
<1> SUFFICES ASSUME BufferInv, [Next]_vars PROVE BufferInv'
  OBVIOUS
<1>1. CASE Next
  <2>1. TypeInv /\ BrokerInv /\ DownInv /\ LockInv /\ WireInv /\ HeldInv /\ (missed \/ OnWay) /\ OrderInv
    BY DEF BufferInv
  <2>2. TypeInv' /\ BrokerInv' /\ DownInv' /\ LockInv'
    BY <1>1, <2>1, TypeInvStep, BrokerInvStep, DownInvStep, LockInvStep
  <2>3. WireInv' /\ HeldInv' /\ (missed' \/ OnWay') /\ OrderInv'
    BY <1>1, <2>1, WireInvStep, HeldInvStep, OnWayStep, OrderInvStep
  <2> QED
    BY <2>2, <2>3 DEF BufferInv
<1>2. CASE UNCHANGED vars
  <2> USE <1>2 DEF BufferInv, vars, broker, wire, flow, buffer, app, lapses
  <2>1. TypeInv'
    BY DEF TypeInv
  <2>2. BrokerInv'
    BY DEF BrokerInv, InFlight
  <2>3. DownInv' /\ LockInv'
    BY DEF DownInv, LockInv
  <2>4. WireInv'
    BY DEF WireInv, Seen
  <2>5. HeldInv'
    BY DEF HeldInv, Distinct
  <2>6. missed' \/ OnWay'
    BY DEF OnWay, Asked, UnderWay
  <2>7. OrderInv'
    BY OrderKept
  <2> QED
    BY <2>1, <2>2, <2>3, <2>4, <2>5, <2>6, <2>7
<1> QED
  BY <1>1, <1>2

\* The invariant holds in every state.
LEMMA BufferInvHolds == Spec => []BufferInv
BY BufferInvInit, BufferInvStep, PTL DEF Spec

\* Every variable keeps its type, whatever the messages, topics and bounds: what carries
\* an identifier is of QoS 1 or 2, a flight is of QoS 2, and what the read loop waits to
\* put has a queue.
THEOREM TypeCorrect == Spec => []TypeInv
<1>1. BufferInv => TypeInv
  BY DEF BufferInv
<1> QED
  BY <1>1, BufferInvHolds, PTL

\* The counters of SessionReplayBuffer agree with its deques whenever a task suspends,
\* whichever tasks drain, expire and buffer in whichever order.
THEOREM ReplayAccountingHolds == Spec => []ReplayAccounting
<1>1. BufferInv => ReplayAccounting
  BY HeldInvAccounts DEF BufferInv
<1> QED
  BY <1>1, BufferInvHolds, PTL

\* A buffered message whose subscription is there is about to be considered: its queue has
\* something to read, or a drain() is under way or asked for.  A call cancelled when it owed
\* a drain() suspends this until the next one begins.
THEOREM HeldIsOnItsWayHolds == Spec => []HeldIsOnItsWay
<1>1. missed \/ OnWay => HeldIsOnItsWay
  BY DEF OnWay, HeldIsOnItsWay, Asked, UnderWay
<1>2. BufferInv => HeldIsOnItsWay
  BY <1>1 DEF BufferInv
<1> QED
  BY <1>2, BufferInvHolds, PTL

\* No later message of its topic enters the queue while an earlier one is held back,
\* where only this subscription's own acknowledgements suspend a pass.
THEOREM HeldKeepsItsPlaceHolds == Spec => []HeldKeepsItsPlace
<1>1. BufferInv => HeldKeepsItsPlace
  BY DEF BufferInv, OrderInv
<1> QED
  BY <1>1, BufferInvHolds, PTL

-----------------------------------------------------------------------------
(* Where a message is.  On one connection a message of QoS 1 or 2 is in    *)
(* one place of the client at a time, and its stage says which; stage is a *)
(* function the proof keeps beside the state, as a history variable would. *)

Stages == {"none", "held", "rl", "queue", "hand", "app", "flight", "over"}

\* m is the broker's message with the identifier i.
Owns(m, i) == m \in InFlight /\ bid[m] = i

\* What the broker knows of a message in each of its stages.
StageInv(stage) ==
  \A m \in Messages :
    /\ QoSOf[m] = 0 \/ bstate[m] = "queued" => stage[m] = "none"
    /\ stage[m] \in {"held", "rl", "queue", "hand", "app"} => bstate[m] = "sent"
    /\ stage[m] = "flight" => QoSOf[m] = 2 /\ bstate[m] \in {"sent", "rel"}
    /\ stage[m] = "over" /\ QoSOf[m] = 2 => bstate[m] \in {"rel", "done"}
    /\ bstate[m] = "rel" => stage[m] \in {"flight", "over"}
    /\ bstate[m] = "done" /\ QoSOf[m] > 0 => stage[m] = "over"
    /\ conn # "up" /\ bstate[m] = "sent" => stage[m] = "none"

\* A PUBLISH belongs to a message that is not over, a PUBREL to one that is released, or
\* is the late one of a message whose identifier nobody has taken up yet.
PacketInv(stage, p) ==
  /\ p.type = "PUBLISH" /\ QoSOf[p.m] > 0 =>
       /\ Owns(p.m, p.id) /\ stage[p.m] # "over"
       /\ QoSOf[p.m] = 1 => stage[p.m] = "none"
  /\ p.type = "PUBREL" =>
       /\ QoSOf[p.m] = 2
       /\ \/ bstate[p.m] = "rel" /\ bid[p.m] = p.id
          \/ bstate[p.m] = "done" /\ \A n \in Messages : Owns(n, p.id) => stage[n] = "none"

\* In front of a PUBLISH there is no PUBREL of its message, and behind it none of another
\* message with its identifier.
PacketsInv(p, q) ==
  /\ p.type = "PUBREL" /\ q.type = "PUBLISH" => p.m # q.m
  /\ p.type = "PUBLISH" /\ q.type = "PUBREL" /\ p.id = q.id => p.m = q.m

ToClientInv(stage, w) ==
  /\ \A k \in 1 .. Len(w) : PacketInv(stage, w[k])
  /\ \A k, l \in 1 .. Len(w) : k < l => PacketsInv(w[k], w[l])

\* An acknowledgement belongs to the message that has its identifier now.
AckInv(stage, p) ==
  /\ p.type = "PUBACK" => \E m \in Messages : Owns(m, p.id) /\ QoSOf[m] = 1 /\ stage[m] = "over"
  /\ p.type = "PUBREC" =>
       \E m \in Messages : Owns(m, p.id) /\ QoSOf[m] = 2 /\ stage[m] \in {"flight", "over"}
  /\ p.type = "PUBCOMP" => \A m \in Messages : Owns(m, p.id) /\ bstate[m] = "rel" => stage[m] = "over"

\* A PUBACK is written once; a PUBCOMP behind a PUBREC ends an exchange whose PUBREC the
\* broker has, and one in front of a PUBREC an exchange that is over.
AcksInv(p, q) ==
  p.id = q.id =>
    /\ ~(p.type = "PUBACK" /\ q.type = "PUBACK")
    /\ p.type = "PUBREC" /\ q.type = "PUBCOMP" => \A m \in Messages : Owns(m, p.id) => bstate[m] = "rel"
    /\ p.type = "PUBCOMP" /\ q.type = "PUBREC" => \A m \in Messages : Owns(m, p.id) => bstate[m] = "sent"

ToBrokerInv(stage, w) ==
  /\ \A k \in 1 .. Len(w) : AckInv(stage, w[k])
  /\ \A k, l \in 1 .. Len(w) : k < l => AcksInv(w[k], w[l])

\* What the replay buffer has still to deliver is held, under its identifier.
Buffered == ToSet(unmatched) \cup ToSet(publishes)

BufferedInv(stage) ==
  /\ \A e \in Buffered : QoSOf[e.m] > 0 => stage[e.m] = "held" /\ e.id = bid[e.m]
  /\ \A m \in Messages : stage[m] = "held" /\ QoSOf[m] = 2 => [m |-> m, id |-> bid[m]] \in Buffered

\* A message of QoS 2 whose PUBREC does not wait for the application.
Early(m) == AutoAcked(m) /\ QoSOf[m] = 2

WaitingInv(stage) ==
  rl # NoEntry /\ QoSOf[rl.m] > 0 =>
    IF Early(rl.m) THEN stage[rl.m] = "over" ELSE stage[rl.m] = "rl" /\ rl.id = bid[rl.m]

\* An item that can be acknowledged belongs to a message in the stage of its place.
ItemInv(stage, x, place, t) ==
  x.ack # 0 => stage[x.m] = place /\ x.ack = bid[x.m] /\ ~AutoAcked(x.m) /\ TopicOf[x.m] = t

QueueInv(stage) ==
  \A t \in Subscribed :
    /\ \A k \in 1 .. Len(queue[t]) : ItemInv(stage, queue[t][k], "queue", t)
    /\ \A k, l \in 1 .. Len(queue[t]) : k # l /\ queue[t][k].ack # 0 => queue[t][k] # queue[t][l]

HandInv(stage) == \A t \in Subscribed : ItemInv(stage, hand[t], "hand", t)
AppInv(stage) == \A x \in appHeld : ItemInv(stage, x, "app", TopicOf[x.m])

\* The flights, with their identifiers.
FlightInv(stage) ==
  /\ \A i \in PacketId : inflight2[i] # NoFlight =>
       /\ stage[inflight2[i].m] = "flight" /\ bid[inflight2[i].m] = i
       /\ inflight2[i].put => AutoAcked(inflight2[i].m)
  /\ \A m \in Messages : stage[m] = "flight" => inflight2[bid[m]].m = m

\* What the application has not acknowledged is known by its identifier.
PendingInv(stage) ==
  \A m \in Messages : QoSOf[m] = 2 /\ stage[m] \in {"rl", "queue", "hand", "app"} => bid[m] \in pendingAck2

\* A unit of the Receive Maximum is held for a message that is not over.
QuotaInv(stage) == \A i \in unack : \E m \in Messages : Owns(m, i) /\ stage[m] # "over"

\* A message of QoS 2 is queued once, and not before its stage says so.
ToBePut(stage, m) ==
  stage[m] \in {"none", "held", "rl"} \/ rl.m = m \/ (stage[m] = "flight" /\ inflight2[bid[m]].put)
PutsInv(stage) ==
  \A m \in Messages : QoSOf[m] = 2 => puts[m] <= 1 /\ (ToBePut(stage, m) => puts[m] = 0)

\* The fates of a message of which AcknowledgedWasHandled speaks.
Handled(m) ==
  \/ "dropped" \in fate[m]
  \/ IF AutoAcked(m) THEN "queued" \in fate[m] \/ (QoSOf[m] = 2 /\ (m \in cut \/ rl.m = m))
                     ELSE "acked" \in fate[m]
FateInv(stage) ==
  \A m \in Messages :
    /\ stage[m] = "over" => Handled(m)
    /\ stage[m] = "flight" /\ ~inflight2[bid[m]].put =>
         "dropped" \in fate[m] \/ (~AutoAcked(m) /\ "acked" \in fate[m])

SessionInv(stage) ==
  /\ stage \in [Messages -> Stages]
  /\ StageInv(stage) /\ ToClientInv(stage, toClient) /\ ToBrokerInv(stage, toBroker)
  /\ BufferedInv(stage) /\ WaitingInv(stage) /\ QueueInv(stage) /\ HandInv(stage) /\ AppInv(stage)
  /\ FlightInv(stage) /\ PendingInv(stage) /\ QuotaInv(stage) /\ PutsInv(stage) /\ FateInv(stage)

-----------------------------------------------------------------------------
(* The packets under way.                                                  *)

\* A message that is sent or released owns its identifier, alone.
LEMMA OwnerIsOne ==
  ASSUME BrokerInv, NEW m \in Messages, NEW n \in Messages, NEW i, Owns(m, i), Owns(n, i)
  PROVE  m = n
BY DEF BrokerInv, Owns

\* Without a step of the broker, what its packets belong to stays the same.
LEMMA BrokerSame ==
  ASSUME UNCHANGED <<bstate, bid>>
  PROVE  /\ \A m, i : Owns(m, i)' <=> Owns(m, i)
         /\ \A s : ToClientInv(s, toClient)' <=> ToClientInv(s, toClient')
         /\ \A s : ToBrokerInv(s, toBroker)' <=> ToBrokerInv(s, toBroker')
<1>1. InFlight' = InFlight
  BY DEF InFlight
<1>2. \A m, i : Owns(m, i)' <=> Owns(m, i)
  BY <1>1 DEF Owns
<1>3. \A s : ToClientInv(s, toClient)' <=> ToClientInv(s, toClient')
  BY <1>2 DEF ToClientInv, PacketInv, PacketsInv
<1>4. \A s : ToBrokerInv(s, toBroker)' <=> ToBrokerInv(s, toBroker')
  BY <1>2 DEF ToBrokerInv, AckInv, AcksInv
<1> QED
  BY <1>2, <1>3, <1>4

\* What is behind the packet the read loop takes.
LEMMA ReadKeepsPackets ==
  ASSUME NEW stage, NEW w \in Seq(ToClientPacket), w # <<>>, ToClientInv(stage, w)
  PROVE  /\ ToClientInv(stage, Tail(w)) /\ PacketInv(stage, w[1])
         /\ \A k \in 1 .. Len(Tail(w)) : PacketsInv(w[1], Tail(w)[k])
<1>1. /\ Len(Tail(w)) = Len(w) - 1 /\ Len(w) \in Nat \ {0}
      /\ \A i \in 1 .. Len(w) - 1 : Tail(w)[i] = w[i + 1]
  BY TailAt
<1> DEFINE v == Tail(w)
<1>2. \A k \in 1 .. Len(v) : k + 1 \in 1 .. Len(w) /\ 1 < k + 1 /\ v[k] = w[k + 1]
  BY <1>1
<1>3. 1 \in 1 .. Len(w)
  BY <1>1
<1> HIDE DEF v
<1>4. \A k \in 1 .. Len(v) : PacketInv(stage, v[k])
  BY <1>2 DEF ToClientInv
<1>5. \A k, l \in 1 .. Len(v) : k < l => PacketsInv(v[k], v[l])
  <2> SUFFICES ASSUME NEW k \in 1 .. Len(v), NEW l \in 1 .. Len(v), k < l PROVE PacketsInv(v[k], v[l])
    OBVIOUS
  <2>1. k + 1 < l + 1
    OBVIOUS
  <2> QED
    BY <1>2, <2>1 DEF ToClientInv
<1>6. \A k \in 1 .. Len(v) : PacketsInv(w[1], v[k])
  BY <1>2, <1>3 DEF ToClientInv
<1>7. PacketInv(stage, w[1])
  BY <1>3 DEF ToClientInv
<1>8. ToClientInv(stage, v)
  BY <1>4, <1>5 DEF ToClientInv
<1> QED
  BY <1>6, <1>7, <1>8 DEF v

\* Messages may change their stage where their packets allow it.
LEMMA MovePackets ==
  ASSUME NEW stage, NEW s, NEW w, ToClientInv(stage, w),
         \A k \in 1 .. Len(w) : w[k].type = "PUBLISH" /\ QoSOf[w[k].m] > 0 =>
           s[w[k].m] # "over" /\ (QoSOf[w[k].m] = 1 => s[w[k].m] = "none"),
         \A k \in 1 .. Len(w) : w[k].type = "PUBREL" =>
           \A n \in Messages : Owns(n, w[k].id) /\ stage[n] = "none" => s[n] = "none"
  PROVE  ToClientInv(s, w)
BY DEF ToClientInv, PacketInv

\* What has gone as far as the PUBREC stays there.
Onward(stage, s) ==
  \A n \in Messages : /\ stage[n] = "over" => s[n] = "over"
                      /\ stage[n] = "flight" => s[n] \in {"flight", "over"}

\* Then the acknowledgements under way stay right.
LEMMA MoveAcks ==
  ASSUME NEW stage, NEW s, NEW w, ToBrokerInv(stage, w), Onward(stage, s)
  PROVE  ToBrokerInv(s, w)
<1>1. ASSUME NEW p, AckInv(stage, p) PROVE AckInv(s, p)
  BY <1>1 DEF AckInv, Onward
<1> QED
  BY <1>1 DEF ToBrokerInv

\* One more acknowledgement.
LEMMA AppendAck ==
  ASSUME NEW s, NEW w \in Seq(ToBrokerPacket), NEW p \in ToBrokerPacket, ToBrokerInv(s, w),
         AckInv(s, p), \A k \in 1 .. Len(w) : AcksInv(w[k], p)
  PROVE  ToBrokerInv(s, Append(w, p))
<1> DEFINE v == Append(w, p)
<1>1. /\ Len(v) = Len(w) + 1 /\ Len(w) \in Nat
      /\ \A i \in 1 .. Len(w) : v[i] = w[i]
      /\ v[Len(w) + 1] = p
  BY AppendAt
<1> HIDE DEF v
<1>2. \A k \in 1 .. Len(v) : (k \in 1 .. Len(w) /\ v[k] = w[k]) \/ (k = Len(w) + 1 /\ v[k] = p)
  BY <1>1
<1>3. \A k \in 1 .. Len(v) : AckInv(s, v[k])
  BY <1>2 DEF ToBrokerInv
<1>4. \A k, l \in 1 .. Len(v) : k < l => AcksInv(v[k], v[l])
  <2> SUFFICES ASSUME NEW k \in 1 .. Len(v), NEW l \in 1 .. Len(v), k < l PROVE AcksInv(v[k], v[l])
    OBVIOUS
  <2>1. k \in 1 .. Len(w) /\ v[k] = w[k]
    BY <1>1, <1>2
  <2> QED
    BY <1>2, <2>1 DEF ToBrokerInv
<1> QED
  BY <1>3, <1>4 DEF ToBrokerInv, v

\* A PUBACK is written when its message goes over.
LEMMA PubackWritten ==
  ASSUME TypeInv, BrokerInv, NEW stage, NEW s, ToBrokerInv(stage, toBroker), Onward(stage, s),
         NEW m \in Messages, NEW i \in PacketId, Owns(m, i), QoSOf[m] = 1, stage[m] # "over", s[m] = "over"
  PROVE  ToBrokerInv(s, Append(toBroker, Ack("PUBACK", i)))
<1> DEFINE p == Ack("PUBACK", i)
<1>1. p \in ToBrokerPacket /\ toBroker \in Seq(ToBrokerPacket) /\ p.type = "PUBACK" /\ p.id = i
  BY AckTypes DEF TypeInv, Ack
<1> HIDE DEF p
<1>2. ToBrokerInv(s, toBroker)
  BY MoveAcks
<1>3. AckInv(s, p)
  BY <1>1 DEF AckInv
<1>4. ASSUME NEW k \in 1 .. Len(toBroker) PROVE AcksInv(toBroker[k], p)
  <2>1. AckInv(stage, toBroker[k])
    BY DEF ToBrokerInv
  <2>2. ~(toBroker[k].id = i /\ toBroker[k].type = "PUBACK")
    BY <2>1, OwnerIsOne DEF AckInv
  <2> QED
    BY <1>1, <2>2 DEF AcksInv
<1> QED
  BY <1>1, <1>2, <1>3, <1>4, AppendAck DEF p

\* A PUBREC is written when its message is in flight and not over.
LEMMA PubrecWritten ==
  ASSUME TypeInv, BrokerInv, NEW stage, NEW s, ToBrokerInv(stage, toBroker), Onward(stage, s),
         NEW m \in Messages, NEW i \in PacketId, Owns(m, i), QoSOf[m] = 2, stage[m] # "over", s[m] = "flight"
  PROVE  ToBrokerInv(s, Append(toBroker, Ack("PUBREC", i)))
<1> DEFINE p == Ack("PUBREC", i)
<1>1. p \in ToBrokerPacket /\ toBroker \in Seq(ToBrokerPacket) /\ p.type = "PUBREC" /\ p.id = i
  BY AckTypes DEF TypeInv, Ack
<1> HIDE DEF p
<1>2. ToBrokerInv(s, toBroker)
  BY MoveAcks
<1>3. AckInv(s, p)
  BY <1>1 DEF AckInv
<1>4. ASSUME NEW k \in 1 .. Len(toBroker) PROVE AcksInv(toBroker[k], p)
  <2>1. AckInv(stage, toBroker[k])
    BY DEF ToBrokerInv
  <2>2. ASSUME toBroker[k].id = i, toBroker[k].type = "PUBCOMP", NEW n \in Messages, Owns(n, i) PROVE bstate[n] = "sent"
    <3>1. n = m
      BY <2>2, OwnerIsOne
    <3>2. bstate[m] # "rel"
      BY <2>1, <2>2 DEF AckInv
    <3> QED
      BY <3>1, <3>2 DEF Owns, InFlight
  <2> QED
    BY <1>1, <2>2 DEF AcksInv
<1> QED
  BY <1>1, <1>2, <1>3, <1>4, AppendAck DEF p

\* A PUBCOMP is written when the message with its identifier is released and over, or when
\* the client has not seen it yet.
LEMMA PubcompWritten ==
  ASSUME TypeInv, BrokerInv, NEW stage, NEW s, ToBrokerInv(stage, toBroker), Onward(stage, s), NEW i \in PacketId,
         \A n \in Messages : Owns(n, i) =>
           \/ bstate[n] = "rel" /\ s[n] = "over"
           \/ bstate[n] # "rel" /\ stage[n] = "none"
  PROVE  ToBrokerInv(s, Append(toBroker, Ack("PUBCOMP", i)))
<1> DEFINE p == Ack("PUBCOMP", i)
<1>1. p \in ToBrokerPacket /\ toBroker \in Seq(ToBrokerPacket) /\ p.type = "PUBCOMP" /\ p.id = i
  BY AckTypes DEF TypeInv, Ack
<1> HIDE DEF p
<1>2. ToBrokerInv(s, toBroker)
  BY MoveAcks
<1>3. AckInv(s, p)
  BY <1>1 DEF AckInv
<1>4. ASSUME NEW k \in 1 .. Len(toBroker) PROVE AcksInv(toBroker[k], p)
  <2>1. AckInv(stage, toBroker[k])
    BY DEF ToBrokerInv
  <2>2. ASSUME toBroker[k].id = i, toBroker[k].type = "PUBREC", NEW n \in Messages, Owns(n, i) PROVE bstate[n] = "rel"
    BY <2>1, <2>2, OwnerIsOne DEF AckInv
  <2> QED
    BY <1>1, <2>2 DEF AcksInv
<1> QED
  BY <1>1, <1>2, <1>3, <1>4, AppendAck DEF p

-----------------------------------------------------------------------------
(* Changes of stage.                                                       *)

\* The stages a message may reach as long as the broker's session does not change.
MayMove(n, place) ==
  /\ QoSOf[n] > 0
  /\ \/ bstate[n] = "sent" /\ place \in {"none", "held", "rl", "queue", "hand", "app"}
     \/ bstate[n] = "sent" /\ place = "over" /\ QoSOf[n] = 1
     \/ bstate[n] = "sent" /\ place = "flight" /\ QoSOf[n] = 2
     \/ bstate[n] = "rel" /\ place = "over"

\* They agree with what the broker knows.
LEMMA MoveStages ==
  ASSUME NEW stage, NEW s, StageInv(stage), conn' = "up", bstate' = bstate,
         \A n \in Messages : s[n] = stage[n] \/ MayMove(n, s[n])
  PROVE  StageInv(s)'
<1> SUFFICES ASSUME NEW m \in Messages
             PROVE  /\ QoSOf[m] = 0 \/ bstate[m] = "queued" => s[m] = "none"
                    /\ s[m] \in {"held", "rl", "queue", "hand", "app"} => bstate[m] = "sent"
                    /\ s[m] = "flight" => QoSOf[m] = 2 /\ bstate[m] \in {"sent", "rel"}
                    /\ s[m] = "over" /\ QoSOf[m] = 2 => bstate[m] \in {"rel", "done"}
                    /\ bstate[m] = "rel" => s[m] \in {"flight", "over"}
                    /\ bstate[m] = "done" /\ QoSOf[m] > 0 => s[m] = "over"
  BY DEF StageInv
<1>1. QoSOf[m] \in 0 .. 2
  BY InboundAssumption
<1>2. CASE s[m] = stage[m]
  BY <1>2 DEF StageInv
<1>3. CASE MayMove(m, s[m])
  BY <1>1, <1>3 DEF MayMove
<1> QED
  BY <1>2, <1>3

\* No message comes to a place or leaves it, and those that are there keep their
\* identifiers.
Keeps(stage, s, place) ==
  \A n \in Messages : /\ s[n] = place <=> stage[n] = place
                      /\ stage[n] = place => bid'[n] = bid[n]

\* Then what is at that place stays right.
LEMMA BufferedKept ==
  ASSUME TypeInv, NEW stage, NEW s, BufferedInv(stage), Keeps(stage, s, "held"),
         UNCHANGED <<unmatched, publishes>>
  PROVE  BufferedInv(s)'
<1>1. Buffered' = Buffered /\ Buffered \subseteq Entry
  <2>1. Buffered \subseteq Entry
    BY MembersAt DEF TypeInv, Buffered
  <2> QED
    BY <2>1 DEF Buffered
<1>2. ASSUME NEW e \in Buffered, QoSOf[e.m] > 0 PROVE s[e.m] = "held" /\ e.id = bid'[e.m]
  <2>1. e.m \in Messages
    BY <1>1 DEF Entry
  <2> QED
    BY <1>2, <2>1 DEF BufferedInv, Keeps
<1>3. ASSUME NEW m \in Messages, s[m] = "held", QoSOf[m] = 2 PROVE [m |-> m, id |-> bid'[m]] \in Buffered
  BY <1>3 DEF BufferedInv, Keeps
<1> QED
  BY <1>1, <1>2, <1>3 DEF BufferedInv

\* So does what the read loop waits to put,
LEMMA WaitingKept ==
  ASSUME TypeInv, NEW stage, NEW s, WaitingInv(stage), Keeps(stage, s, "rl"), Onward(stage, s), rl' = rl
  PROVE  WaitingInv(s)'
<1>1. rl # NoEntry => rl.m \in Messages
  BY DEF TypeInv, Entry
<1> QED
  BY <1>1 DEF WaitingInv, Keeps, Onward

\* an item, wherever it is,
LEMMA ItemKept ==
  ASSUME NEW stage, NEW s, NEW place, Keeps(stage, s, place), NEW x \in Item \cup {Nothing}, NEW t,
         ItemInv(stage, x, place, t)
  PROVE  ItemInv(s, x, place, t)'
<1>1. x.ack # 0 => x.m \in Messages
  BY DEF Item, Nothing
<1> QED
  BY <1>1 DEF ItemInv, Keeps

\* what is queued,
LEMMA QueueKept ==
  ASSUME TypeInv, NEW stage, NEW s, QueueInv(stage), Keeps(stage, s, "queue"), queue' = queue
  PROVE  QueueInv(s)'
<1>1. \A t \in Subscribed : \A k \in 1 .. Len(queue[t]) : queue[t][k] \in Item
  BY DEF TypeInv, Queues
<1>2. \A t \in Subscribed : \A k \in 1 .. Len(queue[t]) : ItemInv(s, queue[t][k], "queue", t)'
  BY <1>1, ItemKept DEF QueueInv
<1> QED
  BY <1>2 DEF QueueInv, ItemInv

\* what a consumer has in its hand,
LEMMA HandKept ==
  ASSUME TypeInv, NEW stage, NEW s, HandInv(stage), Keeps(stage, s, "hand"), hand' = hand
  PROVE  HandInv(s)'
<1>1. \A t \in Subscribed : hand[t] \in Item \cup {Nothing}
  BY DEF TypeInv
<1>2. \A t \in Subscribed : ItemInv(s, hand[t], "hand", t)'
  BY <1>1, ItemKept DEF HandInv
<1> QED
  BY <1>2 DEF HandInv, ItemInv

\* what the application has,
LEMMA AppKept ==
  ASSUME TypeInv, NEW stage, NEW s, AppInv(stage), Keeps(stage, s, "app"), appHeld' = appHeld
  PROVE  AppInv(s)'
<1>1. \A x \in appHeld : x \in Item
  BY DEF TypeInv
<1>2. \A x \in appHeld : ItemInv(s, x, "app", TopicOf[x.m])'
  BY <1>1, ItemKept DEF AppInv
<1> QED
  BY <1>2 DEF AppInv, ItemInv

\* and what is in flight.
LEMMA FlightKept ==
  ASSUME TypeInv, NEW stage, NEW s, FlightInv(stage), Keeps(stage, s, "flight"), inflight2' = inflight2
  PROVE  FlightInv(s)'
<1>1. \A i \in PacketId : inflight2[i] # NoFlight => inflight2[i].m \in Messages
  BY DEF TypeInv, Flight
<1> QED
  BY <1>1 DEF FlightInv, Keeps

\* What the application has not acknowledged stays known.
LEMMA PendingKept ==
  ASSUME NEW stage, NEW s, PendingInv(stage), pendingAck2 \subseteq pendingAck2',
         \A n \in Messages : s[n] \in {"rl", "queue", "hand", "app"} =>
           stage[n] \in {"rl", "queue", "hand", "app"} /\ bid'[n] = bid[n]
  PROVE  PendingInv(s)'
BY DEF PendingInv

\* No unit of the Receive Maximum is held for longer.
LEMMA QuotaKept ==
  ASSUME NEW stage, NEW s, QuotaInv(stage), unack' \subseteq unack,
         \A n \in Messages : \A i : Owns(n, i) /\ stage[n] # "over" /\ i \in unack' => Owns(n, i)' /\ s[n] # "over"
  PROVE  QuotaInv(s)'
BY DEF QuotaInv

\* Nothing that is still to be put has been put.
LEMMA PutsKept ==
  ASSUME NEW stage, NEW s, PutsInv(stage), \A n \in Messages : QoSOf[n] = 2 => puts'[n] = puts[n],
         \A n \in Messages : QoSOf[n] = 2 /\ ToBePut(s, n)' => ToBePut(stage, n)
  PROVE  PutsInv(s)'
BY DEF PutsInv

\* The history of a message is not forgotten.
LEMMA FateKept ==
  ASSUME NEW stage, NEW s, FateInv(stage), cut \subseteq cut',
         \A n \in Messages : fate[n] \subseteq fate'[n],
         \A n \in Messages : rl.m = n => rl'.m = n \/ "queued" \in fate'[n] \/ n \in cut',
         \A n \in Messages : s[n] = "over" => stage[n] = "over" \/ Handled(n)',
         \A n \in Messages : s[n] = "flight" /\ ~inflight2'[bid'[n]].put =>
           \/ stage[n] = "flight" /\ ~inflight2[bid[n]].put
           \/ "dropped" \in fate'[n] \/ (~AutoAcked(n) /\ "acked" \in fate'[n])
  PROVE  FateInv(s)'
<1>1. ASSUME NEW n \in Messages, Handled(n) PROVE Handled(n)'
  BY <1>1 DEF Handled
<1>2. ASSUME NEW n \in Messages, s[n] = "over" PROVE Handled(n)'
  BY <1>1, <1>2 DEF FateInv
<1>3. ASSUME NEW n \in Messages, s[n] = "flight", ~inflight2'[bid'[n]].put
      PROVE  "dropped" \in fate'[n] \/ (~AutoAcked(n) /\ "acked" \in fate'[n])
  BY <1>3 DEF FateInv
<1> QED
  BY <1>2, <1>3 DEF FateInv

-----------------------------------------------------------------------------
(* The handlers of PUBLISH.                                                *)

\* One message changes its stage.
Only(stage, s, m) == \A n \in Messages \ {m} : s[n] = stage[n]

\* Then nothing changes at the places it does not go to or come from.
LEMMA OnlyKeeps ==
  ASSUME NEW stage, NEW s, NEW m \in Messages, Only(stage, s, m), bid' = bid, NEW place,
         s[m] = place <=> stage[m] = place
  PROVE  Keeps(stage, s, place)
BY DEF Only, Keeps

\* A PUBLISH with an identifier belongs to the message that has it.
LEMMA ReadOwner ==
  ASSUME TypeInv, BrokerInv, NEW stage, SessionInv(stage), NEW e \in Read, Reads(e, "PUBLISH"), QoSOf[e.m] > 0
  PROVE  /\ Owns(e.m, e.id) /\ e.id \in PacketId /\ stage[e.m] # "over"
         /\ QoSOf[e.m] = 1 => stage[e.m] = "none"
         /\ \A k \in 1 .. Len(Tail(toClient)) :
              Tail(toClient)[k].type = "PUBREL" /\ Tail(toClient)[k].id = e.id => Tail(toClient)[k].m = e.m
<1>1. /\ toClient[1] = [type |-> "PUBLISH", id |-> e.id, m |-> e.m] /\ toClient # <<>>
      /\ toClient \in Seq(ToClientPacket) /\ e \in Entry
  BY ReadsFacts DEF TypeInv, Reads
<1>2. /\ PacketInv(stage, toClient[1])
      /\ \A k \in 1 .. Len(Tail(toClient)) : PacketsInv(toClient[1], Tail(toClient)[k])
  BY <1>1, ReadKeepsPackets DEF SessionInv
<1>3. e.id \in PacketId
  BY <1>1, EntryId
<1>4. toClient[1].type = "PUBLISH" /\ toClient[1].id = e.id /\ toClient[1].m = e.m
  BY <1>1
<1> QED
  BY <1>2, <1>3, <1>4 DEF PacketInv, PacketsInv

\* A publish that is neither accepted nor known is nowhere in the client.
LEMMA FreshStage ==
  ASSUME TypeInv, BrokerInv, HeldInv, NEW stage, SessionInv(stage), NEW e \in Read, Fresh(e), QoSOf[e.m] > 0
  PROVE  /\ stage[e.m] = "none" /\ bstate[e.m] = "sent" /\ bid[e.m] = e.id /\ e.id \in PacketId
         /\ Owns(e.m, e.id)
<1>1. Reads(e, "PUBLISH") /\ ~Accepted(e) /\ ~Known(e)
  BY DEF Fresh
<1>2. /\ Owns(e.m, e.id) /\ e.id \in PacketId /\ stage[e.m] # "over"
      /\ QoSOf[e.m] = 1 => stage[e.m] = "none"
  BY <1>1, ReadOwner
<1>3. e.m \in Messages /\ bid[e.m] = e.id /\ bstate[e.m] \in {"sent", "rel"} /\ QoSOf[e.m] \in 1 .. 2
  BY <1>2, IdTypes DEF Owns, InFlight
<1>4. stage[e.m] \in Stages
  BY <1>3 DEF SessionInv
<1>5. ASSUME QoSOf[e.m] = 2 PROVE stage[e.m] = "none"
  <2>1. stage[e.m] # "flight"
    <3>1. inflight2[e.id] = NoFlight
      BY <1>1, <1>5 DEF Accepted
    <3>2. NoFlight.m # e.m
      BY <1>3, InboundAssumption DEF NoFlight
    <3> QED
      BY <1>3, <3>1, <3>2 DEF SessionInv, FlightInv
  <2>2. stage[e.m] # "held"
    <3>1. e \notin held
      <4>1. e.id # 0
        BY <1>2, IdTypes
      <4> QED
        BY <1>1, <1>5, <4>1 DEF Known, HeldIds
    <3>2. [m |-> e.m, id |-> bid[e.m]] = e
      BY <1>3 DEF Read
    <3>3. e \notin Buffered
      BY <3>1 DEF HeldInv, Buffered
    <3> QED
      BY <1>3, <1>5, <3>2, <3>3 DEF SessionInv, BufferedInv
  <2>3. stage[e.m] \notin {"rl", "queue", "hand", "app"}
    <3>1. e.id \notin pendingAck2
      BY <1>1, <1>5 DEF Known
    <3> QED
      BY <1>3, <1>5, <3>1 DEF SessionInv, PendingInv
  <2> QED
    BY <1>2, <1>4, <2>1, <2>2, <2>3 DEF Stages
<1>6. stage[e.m] = "none"
  BY <1>2, <1>3, <1>5
<1>7. bstate[e.m] # "rel"
  BY <1>3, <1>6 DEF SessionInv, StageInv
<1> QED
  BY <1>2, <1>3, <1>6, <1>7

\* A message that leaves its place on the wire leaves nothing behind there.
LEMMA FreshMoves ==
  ASSUME TypeInv, BrokerInv, WireInv, HeldInv, NEW stage, SessionInv(stage), NEW e \in Read, Fresh(e),
         QoSOf[e.m] > 0, NEW s, Only(stage, s, e.m), QoSOf[e.m] = 2 => s[e.m] # "over"
  PROVE  ToClientInv(s, Tail(toClient))
<1> DEFINE w == Tail(toClient)
<1>1. Reads(e, "PUBLISH")
  BY DEF Fresh
<1>2. /\ stage[e.m] = "none" /\ bstate[e.m] = "sent" /\ Owns(e.m, e.id) /\ bid[e.m] = e.id
      /\ e.m \in Messages /\ QoSOf[e.m] \in 1 .. 2
  BY FreshStage, IdTypes DEF Owns
<1>3. /\ toClient \in Seq(ToClientPacket) /\ toClient # <<>> /\ Len(toClient) \in Nat \ {0}
      /\ w \in Seq(ToClientPacket) /\ Len(w) = Len(toClient) - 1
      /\ \A i \in 1 .. Len(toClient) - 1 : w[i] = toClient[i + 1]
      /\ toClient[1] = [type |-> "PUBLISH", id |-> e.id, m |-> e.m]
  BY <1>1, ReadsFacts DEF TypeInv, Reads
<1>4. ToClientInv(stage, w)
  BY <1>3, ReadKeepsPackets DEF SessionInv
<1>5. \A k \in 1 .. Len(w) : w[k].type = "PUBREL" /\ w[k].id = e.id => w[k].m = e.m
  BY <1>1, ReadOwner
<1>6. ASSUME NEW k \in 1 .. Len(w), w[k].type = "PUBLISH", QoSOf[e.m] = 1 PROVE w[k].m # e.m
  <2>1. k + 1 \in 1 .. Len(toClient) /\ 1 \in 1 .. Len(toClient) /\ 1 < k + 1 /\ w[k] = toClient[k + 1]
    BY <1>3
  <2>2. toClient[1].type = "PUBLISH" /\ toClient[1].m = e.m
    BY <1>3
  <2>3. w[k].m = e.m => e.m < e.m
    BY <1>6, <2>1, <2>2 DEF WireInv
  <2>4. e.m \in Nat
    BY <1>2, InboundAssumption
  <2> QED
    BY <2>3, <2>4
<1>7. \A k \in 1 .. Len(w) : w[k].m \in Messages /\ QoSOf[w[k].m] \in 0 .. 2
  <2>1. \A k \in 1 .. Len(w) : w[k] \in ToClientPacket
    BY <1>3
  <2>2. \A p \in ToClientPacket : p.m \in Messages
    BY DEF ToClientPacket
  <2> QED
    BY <2>1, <2>2, InboundAssumption
<1> HIDE DEF w
<1>8. ASSUME NEW k \in 1 .. Len(w), w[k].type = "PUBLISH", QoSOf[w[k].m] > 0
      PROVE  s[w[k].m] # "over" /\ (QoSOf[w[k].m] = 1 => s[w[k].m] = "none")
  <2>1. CASE w[k].m = e.m
    BY <1>2, <1>6, <1>8, <2>1
  <2>2. CASE w[k].m # e.m
    BY <1>4, <1>7, <1>8, <2>2 DEF ToClientInv, PacketInv, Only
  <2> QED
    BY <2>1, <2>2
<1>9. ASSUME NEW k \in 1 .. Len(w), w[k].type = "PUBREL", NEW n \in Messages, Owns(n, w[k].id), stage[n] = "none"
      PROVE  s[n] = "none"
  <2>1. CASE n = e.m
    <3>1. w[k].m = e.m
      BY <1>2, <1>5, <1>9, <2>1 DEF Owns
    <3> QED
      BY <1>2, <1>4, <1>9, <3>1 DEF ToClientInv, PacketInv
  <2>2. CASE n # e.m
    BY <1>9, <2>2 DEF Only
  <2> QED
    BY <2>1, <2>2
<1>10. ToClientInv(s, w)
  BY <1>4, <1>8, <1>9, MovePackets
<1> QED
  BY <1>10 DEF w

\* The unit of the Receive Maximum a publish takes is its own.
LEMMA ReadQuota ==
  ASSUME BrokerInv, NEW stage, NEW s, QuotaInv(stage), UNCHANGED <<bstate, bid>>, NEW e \in Read, Only(stage, s, e.m),
         unack' \subseteq Quota(e), QoSOf[e.m] > 0 => Owns(e.m, e.id),
         QoSOf[e.m] = 0 => s[e.m] = stage[e.m], s[e.m] = "over" /\ QoSOf[e.m] > 0 => e.id \notin unack'
  PROVE  QuotaInv(s)'
<1>1. e.m \in Messages /\ QoSOf[e.m] \in 0 .. 2
  BY InboundAssumption DEF Read
<1> SUFFICES ASSUME NEW i \in unack' PROVE \E m \in Messages : Owns(m, i) /\ s[m] # "over"
  BY BrokerSame DEF QuotaInv
<1>2. CASE QoSOf[e.m] > 0 /\ i = e.id
  BY <1>1, <1>2
<1>3. CASE ~(QoSOf[e.m] > 0 /\ i = e.id)
  <2>1. i \in unack
    BY <1>1, <1>3 DEF Quota
  <2>2. PICK m \in Messages : Owns(m, i) /\ stage[m] # "over"
    BY <2>1 DEF QuotaInv
  <2>3. m # e.m \/ QoSOf[e.m] = 0
    BY <1>1, <1>3, <2>2 DEF Owns
  <2> QED
    BY <2>2, <2>3 DEF Only
<1> QED
  BY <1>2, <1>3

\* A message that comes from the wire leaves no place but that one.
LEMMA FreshKeeps ==
  ASSUME NEW stage, NEW s, NEW m \in Messages, Only(stage, s, m), stage[m] = "none", bid' = bid
  PROVE  /\ \A place \in {"held", "rl", "queue", "hand", "app", "flight"} : s[m] # place => Keeps(stage, s, place)
         /\ Onward(stage, s)
<1>1. \A place \in {"held", "rl", "queue", "hand", "app", "flight"} : s[m] # place => Keeps(stage, s, place)
  BY OnlyKeeps
<1>2. Onward(stage, s)
  BY DEF Onward, Only
<1> QED
  BY <1>1, <1>2

\* The part of the client behind the handlers does not change when nothing moves there.
LEMMA StillThere ==
  ASSUME TypeInv, NEW stage, SessionInv(stage), bid' = bid
  PROVE  /\ UNCHANGED <<unmatched, publishes>> => BufferedInv(stage)'
         /\ rl' = rl => WaitingInv(stage)'
         /\ queue' = queue => QueueInv(stage)'
         /\ hand' = hand => HandInv(stage)'
         /\ appHeld' = appHeld => AppInv(stage)'
         /\ inflight2' = inflight2 => FlightInv(stage)'
         /\ pendingAck2 \subseteq pendingAck2' => PendingInv(stage)'
         /\ UNCHANGED <<rl, inflight2, puts>> => PutsInv(stage)'
         /\ UNCHANGED <<rl, inflight2, fate, cut>> => FateInv(stage)'
<1>1. \A place : Keeps(stage, stage, place)
  BY DEF Keeps
<1>2. Onward(stage, stage)
  BY DEF Onward
<1>3. /\ UNCHANGED <<unmatched, publishes>> => BufferedInv(stage)'
      /\ rl' = rl => WaitingInv(stage)'
  BY <1>1, <1>2, BufferedKept, WaitingKept DEF SessionInv
<1>4. /\ queue' = queue => QueueInv(stage)'
      /\ hand' = hand => HandInv(stage)'
      /\ appHeld' = appHeld => AppInv(stage)'
  BY <1>1, QueueKept, HandKept, AppKept DEF SessionInv
<1>5. inflight2' = inflight2 => FlightInv(stage)'
  BY <1>1, FlightKept DEF SessionInv
<1>6. pendingAck2 \subseteq pendingAck2' => PendingInv(stage)'
  BY PendingKept DEF SessionInv
<1>7. UNCHANGED <<rl, inflight2, puts>> => PutsInv(stage)'
  BY DEF PutsInv, ToBePut, SessionInv
<1>8. UNCHANGED <<rl, inflight2, fate, cut>> => FateInv(stage)'
  BY DEF FateInv, Handled, SessionInv
<1> QED
  BY <1>3, <1>4, <1>5, <1>6, <1>7, <1>8

\* A PUBLISH that was accepted before is answered again; one that is known is not.
LEMMA RepeatedStep ==
  ASSUME TypeInv, BrokerInv, NEW stage, SessionInv(stage), NEW e \in Read, PublishAccepted(e) \/ PublishKnown(e)
  PROVE  SessionInv(stage)'
<1>1. /\ Reads(e, "PUBLISH") /\ toClient' = Tail(toClient) /\ unack' = Quota(e)
      /\ \/ Accepted(e) /\ toBroker' = Append(toBroker, Ack("PUBREC", e.id))
         \/ toBroker' = toBroker
      /\ UNCHANGED <<conn, bstate, bid, unmatched, publishes, rl, queue, hand, appHeld, inflight2, pendingAck2,
                     puts, fate, cut>>
  BY DEF PublishAccepted, PublishKnown, buffer, app, broker
<1>2. /\ conn = "up" /\ toClient \in Seq(ToClientPacket) /\ toClient # <<>>
  BY <1>1 DEF Reads, TypeInv
<1>3. StageInv(stage)'
  BY <1>1 DEF SessionInv, StageInv
<1>4. ToClientInv(stage, toClient)'
  BY <1>1, <1>2, ReadKeepsPackets, BrokerSame DEF SessionInv
<1>5. Onward(stage, stage) /\ Only(stage, stage, e.m)
  BY DEF Onward, Only
<1>6. QoSOf[e.m] > 0 => Owns(e.m, e.id) /\ e.id \in PacketId /\ stage[e.m] # "over"
  BY <1>1, ReadOwner
<1>7. ToBrokerInv(stage, toBroker)'
  <2>1. CASE toBroker' = toBroker
    BY <1>1, <2>1, BrokerSame DEF SessionInv
  <2>2. CASE Accepted(e) /\ toBroker' = Append(toBroker, Ack("PUBREC", e.id))
    <3>1. QoSOf[e.m] = 2 /\ inflight2[e.id] # NoFlight
      BY <2>2 DEF Accepted
    <3>2. PICK n : n = inflight2[e.id].m
      OBVIOUS
    <3>3. n \in Messages /\ stage[n] = "flight" /\ bid[n] = e.id
      <4>1. inflight2[e.id] \in Flight
        BY <1>6, <3>1 DEF TypeInv
      <4> QED
        BY <1>6, <3>1, <3>2, <4>1 DEF SessionInv, FlightInv, Flight
    <3>4. Owns(n, e.id)
      BY <3>3 DEF SessionInv, StageInv, Owns, InFlight
    <3>5. n = e.m
      BY <1>6, <3>1, <3>3, <3>4, OwnerIsOne DEF Read
    <3>6. ToBrokerInv(stage, Append(toBroker, Ack("PUBREC", e.id)))
      BY <1>5, <1>6, <3>1, <3>3, <3>4, <3>5, PubrecWritten DEF SessionInv
    <3> QED
      BY <1>1, <2>2, <3>6, BrokerSame
  <2> QED
    BY <1>1, <2>1, <2>2
<1>8. QuotaInv(stage)'
  <2>1. /\ QuotaInv(stage) /\ UNCHANGED <<bstate, bid>> /\ unack' \subseteq Quota(e)
        /\ QoSOf[e.m] > 0 => Owns(e.m, e.id)
        /\ ~(stage[e.m] = "over" /\ QoSOf[e.m] > 0)
    BY <1>1, <1>6 DEF SessionInv
  <2> QED
    BY <1>5, <2>1, ReadQuota
<1>9. /\ BufferedInv(stage)' /\ WaitingInv(stage)' /\ QueueInv(stage)' /\ HandInv(stage)' /\ AppInv(stage)'
      /\ FlightInv(stage)' /\ PendingInv(stage)' /\ PutsInv(stage)' /\ FateInv(stage)'
  BY <1>1, StillThere
<1> QED
  BY <1>3, <1>4, <1>7, <1>8, <1>9 DEF SessionInv

\* A message of QoS 0 leaves no trace in the session.
LEMMA ReadKeepsWire ==
  ASSUME TypeInv, BrokerInv, NEW stage, SessionInv(stage), NEW e \in Read, Reads(e, "PUBLISH"), QoSOf[e.m] = 0,
         toClient' = Tail(toClient), unack' = Quota(e), UNCHANGED <<conn, bstate, bid, toBroker>>
  PROVE  StageInv(stage)' /\ ToClientInv(stage, toClient)' /\ ToBrokerInv(stage, toBroker)' /\ QuotaInv(stage)'
<1>1. conn = "up" /\ toClient \in Seq(ToClientPacket) /\ toClient # <<>>
  BY DEF Reads, TypeInv
<1>2. StageInv(stage)'
  BY DEF SessionInv, StageInv
<1>3. ToClientInv(stage, toClient)' /\ ToBrokerInv(stage, toBroker)'
  BY <1>1, ReadKeepsPackets, BrokerSame DEF SessionInv
<1>4. unack' = unack
  BY DEF Quota
<1>5. QuotaInv(stage)'
  BY <1>4, BrokerSame DEF SessionInv, QuotaInv
<1> QED
  BY <1>2, <1>3, <1>5

\* A message is held back.
LEMMA BufferedStep ==
  ASSUME TypeInv, BrokerInv, WireInv, HeldInv, NEW stage, SessionInv(stage), NEW e \in Read, PublishBuffered(e)
  PROVE  \E s : SessionInv(s)'
<1>1. /\ Fresh(e) /\ toClient' = Tail(toClient) /\ unack' = Quota(e) /\ publishes' = Append(publishes, e)
      /\ UNCHANGED <<conn, bstate, bid, toBroker, unmatched, rl, queue, hand, appHeld, inflight2, pendingAck2,
                     puts, fate, cut>>
  BY DEF PublishBuffered, app, broker
<1>2. Reads(e, "PUBLISH") /\ conn = "up"
  BY <1>1 DEF Fresh, Reads
<1>3. e \in Entry /\ e.m \in Messages /\ QoSOf[e.m] \in 0 .. 2
  BY <1>1, FreshIsNew, EntryId
<1>4. Buffered' = Buffered \cup {e} /\ Buffered \subseteq Entry
  <2>1. publishes \in Seq(Entry) /\ unmatched \in Seq(Entry)
    BY DEF TypeInv
  <2>2. ToSet(Append(publishes, e)) = ToSet(publishes) \cup {e}
    <3>1. /\ Append(publishes, e) \in Seq(Entry) /\ Len(Append(publishes, e)) = Len(publishes) + 1
          /\ \A i \in 1 .. Len(publishes) : Append(publishes, e)[i] = publishes[i]
          /\ Append(publishes, e)[Len(publishes) + 1] = e /\ Len(publishes) \in Nat
      BY <1>3, <2>1, AppendAt
    <3> DEFINE v == Append(publishes, e)
    <3>2. /\ \A x : x \in ToSet(v) <=> \E i \in 1 .. Len(v) : v[i] = x
          /\ \A x : x \in ToSet(publishes) <=> \E i \in 1 .. Len(publishes) : publishes[i] = x
      BY <2>1, <3>1, MembersAt, Zenon
    <3> HIDE DEF v
    <3>3. Len(v) = Len(publishes) + 1 /\ v[Len(publishes) + 1] = e /\ \A i \in 1 .. Len(publishes) : v[i] = publishes[i]
      BY <3>1 DEF v
    <3>4. ToSet(v) = ToSet(publishes) \cup {e}
      BY <3>1, <3>2, <3>3
    <3> QED
      BY <3>4 DEF v
  <2>3. Buffered \subseteq Entry
    BY <2>1, MembersAt DEF Buffered
  <2> QED
    BY <1>1, <2>2, <2>3 DEF Buffered
<1>5. CASE QoSOf[e.m] = 0
  <2>1. StageInv(stage)' /\ ToClientInv(stage, toClient)' /\ ToBrokerInv(stage, toBroker)' /\ QuotaInv(stage)'
    BY <1>1, <1>2, <1>5, ReadKeepsWire
  <2>2. BufferedInv(stage)'
    <3>1. BufferedInv(stage)
      BY DEF SessionInv
    <3> QED
      BY <1>1, <1>4, <1>5, <3>1 DEF BufferedInv
  <2>3. /\ WaitingInv(stage)' /\ QueueInv(stage)' /\ HandInv(stage)' /\ AppInv(stage)'
        /\ FlightInv(stage)' /\ PendingInv(stage)' /\ PutsInv(stage)' /\ FateInv(stage)'
    BY <1>1, StillThere
  <2>4. SessionInv(stage)'
    BY <2>1, <2>2, <2>3 DEF SessionInv
  <2> QED
    BY <2>4
<1>6. CASE QoSOf[e.m] > 0
  <2>1. PICK s : s = [stage EXCEPT ![e.m] = "held"]
    OBVIOUS
  <2>2. stage \in [Messages -> Stages] /\ s \in [Messages -> Stages] /\ s[e.m] = "held" /\ Only(stage, s, e.m)
    BY <1>3, <2>1 DEF SessionInv, Stages, Only
  <2>3. stage[e.m] = "none" /\ bstate[e.m] = "sent" /\ bid[e.m] = e.id /\ e.id \in PacketId /\ Owns(e.m, e.id)
    BY <1>1, <1>6, FreshStage
  <2>4. /\ Keeps(stage, s, "rl") /\ Keeps(stage, s, "queue") /\ Keeps(stage, s, "hand") /\ Keeps(stage, s, "app")
        /\ Keeps(stage, s, "flight") /\ Onward(stage, s)
    BY <1>1, <1>3, <2>2, <2>3, FreshKeeps
  <2>5. StageInv(s)'
    <3>1. \A n \in Messages : s[n] = stage[n] \/ MayMove(n, s[n])
      BY <1>6, <2>2, <2>3 DEF Only, MayMove
    <3> QED
      BY <1>1, <1>2, <3>1, MoveStages DEF SessionInv
  <2>6. ToClientInv(s, toClient)'
    BY <1>1, <1>6, <2>2, FreshMoves, BrokerSame
  <2>7. ToBrokerInv(s, toBroker)'
    BY <1>1, <2>4, MoveAcks, BrokerSame DEF SessionInv
  <2>8. QuotaInv(s)'
    <3>1. unack' \subseteq Quota(e) /\ QuotaInv(stage) /\ s[e.m] # "over"
      BY <1>1, <2>2 DEF SessionInv
    <3> QED
      BY <1>1, <1>6, <2>2, <2>3, <3>1, ReadQuota
  <2>9. BufferedInv(s)'
    <3>1. \A x \in Buffered : x.m \in Messages /\ (QoSOf[x.m] > 0 => s[x.m] = "held" /\ x.id = bid[x.m])
      BY <1>4, <2>2 DEF SessionInv, BufferedInv, Only, Entry
    <3>2. ASSUME NEW m \in Messages, s[m] = "held", QoSOf[m] = 2 PROVE [m |-> m, id |-> bid[m]] \in Buffered \cup {e}
      <4>1. CASE m = e.m
        BY <2>3, <4>1 DEF Read
      <4>2. CASE m # e.m
        BY <2>2, <3>2, <4>2 DEF SessionInv, BufferedInv, Only
      <4> QED
        BY <4>1, <4>2
    <3>3. \A x \in Buffered' : QoSOf[x.m] > 0 => s[x.m] = "held" /\ x.id = bid[x.m]
      BY <1>4, <2>2, <2>3, <3>1
    <3> QED
      BY <1>1, <1>4, <3>2, <3>3 DEF BufferedInv
  <2>10. WaitingInv(s)' /\ QueueInv(s)' /\ HandInv(s)' /\ AppInv(s)' /\ FlightInv(s)'
    BY <1>1, <2>4, WaitingKept, QueueKept, HandKept, AppKept, FlightKept DEF SessionInv
  <2>11. PendingInv(s)'
    <3>1. \A n \in Messages : s[n] \in {"rl", "queue", "hand", "app"} => stage[n] \in {"rl", "queue", "hand", "app"}
      BY <2>2 DEF Only
    <3> QED
      BY <1>1, <3>1, PendingKept DEF SessionInv
  <2>12. PutsInv(s)'
    <3>1. \A n \in Messages : ToBePut(s, n)' => ToBePut(stage, n)
      BY <1>1, <2>2, <2>3 DEF ToBePut, Only
    <3> QED
      BY <1>1, <3>1, PutsKept DEF SessionInv
  <2>13. FateInv(s)'
    <3>1. \A n \in Messages : s[n] \in {"over", "flight"} => stage[n] = s[n]
      BY <2>2 DEF Only
    <3> QED
      BY <1>1, <3>1, FateKept DEF SessionInv
  <2>14. SessionInv(s)'
    BY <2>2, <2>5, <2>6, <2>7, <2>8, <2>9, <2>10, <2>11, <2>12, <2>13 DEF SessionInv
  <2> QED
    BY <2>14
<1> QED
  BY <1>3, <1>5, <1>6

\* put() queues a message that cannot be acknowledged, or one that was not queued before.
LEMMA PutKeepsQueue ==
  ASSUME TypeInv, NEW stage, NEW s, QueueInv(stage), NEW e \in Entry, TopicOf[e.m] \in Subscribed,
         bid' = bid, queue' = Put(queue, e), \A n \in Messages : stage[n] = "queue" => s[n] = "queue",
         \/ AutoAcked(e.m) \/ QoSOf[e.m] = 0
         \/ stage[e.m] # "queue" /\ s[e.m] = "queue" /\ e.id = bid[e.m]
  PROVE  QueueInv(s)'
<1> DEFINE u == TopicOf[e.m]
           x == ItemOf(e)
<1>1. /\ \A t \in Subscribed \ {u} : queue'[t] = queue[t]
      /\ queue'[u] = Append(queue[u], x)
      /\ \A t \in Subscribed : queue[t] \in Seq(Item)
      /\ x \in Item /\ x.m = e.m /\ u \in Subscribed
  <2>1. queue \in Queues
    BY DEF TypeInv
  <2>2. \A t \in Subscribed : queue[t] \in Seq(Item)
    BY <2>1 DEF Queues
  <2> QED
    BY <2>1, <2>2, PutFacts, ItemOfType
<1>2. x.ack # 0 => /\ x.ack = e.id /\ ~AutoAcked(e.m) /\ QoSOf[e.m] # 0
                   /\ stage[e.m] # "queue" /\ s[e.m] = "queue" /\ e.id = bid[e.m]
  BY EntryId DEF ItemOf
<1>3. /\ Len(queue'[u]) = Len(queue[u]) + 1 /\ Len(queue[u]) \in Nat
      /\ \A k \in 1 .. Len(queue[u]) : queue'[u][k] = queue[u][k]
      /\ queue'[u][Len(queue[u]) + 1] = x
  BY <1>1, AppendAt
<1> HIDE DEF x
<1>4. ASSUME NEW t \in Subscribed, NEW k \in 1 .. Len(queue[t])
      PROVE  /\ ItemInv(s, queue[t][k], "queue", t)
             /\ queue[t][k].ack # 0 => stage[queue[t][k].m] = "queue"
  <2>1. queue[t][k] \in Item /\ ItemInv(stage, queue[t][k], "queue", t)
    BY <1>1 DEF QueueInv
  <2>2. queue[t][k].ack # 0 => queue[t][k].m \in Messages
    BY <2>1 DEF Item
  <2> QED
    BY <2>1, <2>2 DEF ItemInv
<1> SUFFICES ASSUME NEW t \in Subscribed
             PROVE  /\ \A k \in 1 .. Len(queue'[t]) : ItemInv(s, queue'[t][k], "queue", t)
                    /\ \A k, l \in 1 .. Len(queue'[t]) : k # l /\ queue'[t][k].ack # 0 => queue'[t][k] # queue'[t][l]
  BY DEF QueueInv, ItemInv
<1>5. CASE t # u
  <2>1. queue'[t] = queue[t]
    BY <1>1, <1>5
  <2>2. \A k \in 1 .. Len(queue[t]) : ItemInv(s, queue[t][k], "queue", t)
    BY <1>4
  <2>3. \A k, l \in 1 .. Len(queue[t]) : k # l /\ queue[t][k].ack # 0 => queue[t][k] # queue[t][l]
    BY DEF QueueInv
  <2> QED
    BY <2>1, <2>2, <2>3
<1>6. CASE t = u
  <2> DEFINE L == Len(queue[u])
  <2>1. \A k \in 1 .. Len(queue'[t]) : (k \in 1 .. L /\ queue'[t][k] = queue[t][k]) \/ (k = L + 1 /\ queue'[t][k] = x)
    BY <1>3, <1>6
  <2>2. ItemInv(s, x, "queue", t)
    BY <1>1, <1>2, <1>6 DEF ItemInv
  <2>3. \A k \in 1 .. Len(queue'[t]) : ItemInv(s, queue'[t][k], "queue", t)
    BY <1>4, <1>6, <2>1, <2>2
  <2>4. ASSUME NEW k \in 1 .. L, queue[t][k] = x, x.ack # 0 PROVE FALSE
    BY <1>1, <1>2, <1>4, <1>6, <2>4
  <2>5. \A k, l \in 1 .. Len(queue'[t]) : k # l /\ queue'[t][k].ack # 0 => queue'[t][k] # queue'[t][l]
    <3>1. \A k, l \in 1 .. L : k # l /\ queue[t][k].ack # 0 => queue[t][k] # queue[t][l]
      BY <1>6 DEF QueueInv
    <3> HIDE DEF L
    <3> SUFFICES ASSUME NEW k \in 1 .. Len(queue'[t]), NEW l \in 1 .. Len(queue'[t]), k # l, queue'[t][k].ack # 0,
                        queue'[t][k] = queue'[t][l]
                 PROVE  FALSE
      OBVIOUS
    <3>2. (k \in 1 .. L /\ queue'[t][k] = queue[t][k]) \/ (k = L + 1 /\ queue'[t][k] = x)
      BY <2>1
    <3>3. (l \in 1 .. L /\ queue'[t][l] = queue[t][l]) \/ (l = L + 1 /\ queue'[t][l] = x)
      BY <2>1
    <3> QED
      BY <2>4, <3>1, <3>2, <3>3
  <2> QED
    BY <2>3, <2>5
<1> QED
  BY <1>5, <1>6

\* What every handler of a new publish with an identifier has in common.
LEMMA FreshCommon ==
  ASSUME TypeInv, BrokerInv, WireInv, HeldInv, NEW stage, SessionInv(stage), NEW e \in Read, Fresh(e), QoSOf[e.m] > 0,
         NEW place \in Stages, NEW s \in [Messages -> Stages], s[e.m] = place, Only(stage, s, e.m),
         place = "over" => QoSOf[e.m] = 1 /\ e.id \notin unack', place = "flight" => QoSOf[e.m] = 2,
         toClient' = Tail(toClient), unack' \subseteq Quota(e), UNCHANGED <<conn, bstate, bid>>
  PROVE  /\ StageInv(s)' /\ ToClientInv(s, toClient)' /\ QuotaInv(s)' /\ Onward(stage, s)
         /\ \A x \in {"held", "rl", "queue", "hand", "app", "flight"} : place # x => Keeps(stage, s, x)
<1>1. Reads(e, "PUBLISH") /\ conn = "up" /\ e.m \in Messages /\ QoSOf[e.m] \in 0 .. 2
  BY InboundAssumption DEF Fresh, Reads, Read
<1>2. stage \in [Messages -> Stages]
  BY DEF SessionInv
<1>3. stage[e.m] = "none" /\ bstate[e.m] = "sent" /\ Owns(e.m, e.id)
  BY FreshStage
<1>4. StageInv(s)'
  <2>1. MayMove(e.m, place)
    BY <1>1, <1>3 DEF MayMove, Stages
  <2>2. \A n \in Messages : s[n] = stage[n] \/ MayMove(n, s[n])
    BY <1>2, <2>1 DEF Only
  <2> QED
    BY <1>1, <2>2, MoveStages DEF SessionInv
<1>5. ToClientInv(s, toClient)'
  BY <1>1, <1>2, FreshMoves, BrokerSame
<1>6. QuotaInv(s)'
  <2>1. QuotaInv(stage)
    BY DEF SessionInv
  <2> QED
    BY <1>2, <1>3, <2>1, ReadQuota
<1>7. /\ \A x \in {"held", "rl", "queue", "hand", "app", "flight"} : place # x => Keeps(stage, s, x)
      /\ Onward(stage, s)
  BY <1>1, <1>2, <1>3, FreshKeeps
<1> QED
  BY <1>2, <1>4, <1>5, <1>6, <1>7

\* A flight begins, for a message that was not in flight.
LEMMA FlightBegins ==
  ASSUME TypeInv, BrokerInv, NEW stage, NEW s, StageInv(stage), FlightInv(stage), NEW m \in Messages, NEW i \in PacketId, Owns(m, i),
         stage[m] # "flight", s[m] = "flight", \A n \in Messages \ {m} : s[n] = "flight" <=> stage[n] = "flight",
         NEW f \in Flight, f.m = m, f.put => AutoAcked(m),
         inflight2'[i] = f, \A j \in PacketId \ {i} : inflight2'[j] = inflight2[j], UNCHANGED <<bstate, bid>>
  PROVE  /\ FlightInv(s)'
         /\ \A n \in Messages \ {m} : s[n] = "flight" => inflight2'[bid[n]] = inflight2[bid[n]]
<1>1. \A j \in PacketId : inflight2[j] # NoFlight => inflight2[j] \in Flight
  BY DEF TypeInv
<1>2. f # NoFlight /\ bid[m] = i
  BY InboundAssumption DEF Owns, NoFlight
<1>3. \A n \in Messages \ {m} : s[n] = "flight" => bid[n] # i /\ bid[n] \in PacketId
  <2> SUFFICES ASSUME NEW n \in Messages \ {m}, s[n] = "flight" PROVE bid[n] # i /\ bid[n] \in PacketId
    OBVIOUS
  <2>1. stage[n] = "flight"
    OBVIOUS
  <2>2. n \in InFlight
    BY <2>1 DEF StageInv, InFlight
  <2>3. bid[n] # i
    BY <2>2, OwnerIsOne DEF Owns
  <2> QED
    BY <2>2, <2>3, IdTypes
<1>4. ASSUME NEW j \in PacketId, inflight2'[j] # NoFlight
      PROVE  /\ s[inflight2'[j].m] = "flight" /\ bid[inflight2'[j].m] = j
             /\ inflight2'[j].put => AutoAcked(inflight2'[j].m)
  <2>1. CASE j = i
    BY <1>1, <1>2, <2>1
  <2>2. CASE j # i
    <3>1. inflight2'[j] = inflight2[j] /\ inflight2[j] \in Flight
      BY <1>1, <1>4, <2>2
    <3>2. inflight2[j].m \in Messages
      BY <3>1 DEF Flight
    <3>3. stage[inflight2[j].m] = "flight" /\ bid[inflight2[j].m] = j /\ (inflight2[j].put => AutoAcked(inflight2[j].m))
      BY <1>4, <3>1 DEF FlightInv
    <3> QED
      BY <3>1, <3>2, <3>3
  <2> QED
    BY <2>1, <2>2
<1>5. ASSUME NEW n \in Messages, s[n] = "flight" PROVE inflight2'[bid[n]].m = n
  <2>1. CASE n = m
    BY <1>1, <1>2, <2>1
  <2>2. CASE n # m
    BY <1>1, <1>3, <1>5, <2>2 DEF FlightInv
  <2> QED
    BY <2>1, <2>2
<1>6. FlightInv(s)'
  BY <1>4, <1>5 DEF FlightInv
<1> QED
  BY <1>1, <1>3, <1>6

\* A stage function that differs in one message.
LEMMA MovedTo ==
  ASSUME NEW stage \in [Messages -> Stages], NEW m \in Messages, NEW place \in Stages
  PROVE  \E s \in [Messages -> Stages] : s[m] = place /\ Only(stage, s, m)
<1>1. PICK s : s = [stage EXCEPT ![m] = place]
  OBVIOUS
<1> QED
  BY <1>1 DEF Only

\* The first PUBREC of a message, whether it is to be put or nobody is subscribed.
LEMMA FreshAccepted ==
  ASSUME TypeInv, BrokerInv, WireInv, HeldInv, NEW stage, SessionInv(stage), NEW e \in Read, Fresh(e), QoSOf[e.m] = 2,
         NEW f \in Flight, f.m = e.m, f.put => AutoAcked(e.m), ~f.put => "dropped" \in fate'[e.m],
         inflight2' = [inflight2 EXCEPT ![e.id] = f],
         toBroker' = Append(toBroker, Ack("PUBREC", e.id)), \A n \in Messages : fate[n] \subseteq fate'[n],
         toClient' = Tail(toClient), unack' = Quota(e),
         UNCHANGED <<conn, bstate, bid, unmatched, publishes, rl, queue, hand, appHeld, pendingAck2, puts, cut>>
  PROVE  \E s : SessionInv(s)'
<1>1. e.m \in Messages /\ "flight" \in Stages /\ stage \in [Messages -> Stages]
  BY DEF Read, Stages, SessionInv
<1>2. PICK s \in [Messages -> Stages] : s[e.m] = "flight" /\ Only(stage, s, e.m)
  BY <1>1, MovedTo
<1>3. stage[e.m] = "none" /\ bid[e.m] = e.id /\ e.id \in PacketId /\ Owns(e.m, e.id)
  BY FreshStage
<1>4. /\ StageInv(s)' /\ ToClientInv(s, toClient)' /\ QuotaInv(s)' /\ Onward(stage, s)
      /\ \A x \in {"held", "rl", "queue", "hand", "app", "flight"} : "flight" # x => Keeps(stage, s, x)
  BY <1>1, <1>2, FreshCommon
<1>5. /\ Keeps(stage, s, "held") /\ Keeps(stage, s, "rl") /\ Keeps(stage, s, "queue") /\ Keeps(stage, s, "hand")
      /\ Keeps(stage, s, "app")
  BY <1>4
<1>6. ToBrokerInv(s, toBroker)'
  <2>1. ToBrokerInv(stage, toBroker)
    BY DEF SessionInv
  <2>2. ToBrokerInv(s, Append(toBroker, Ack("PUBREC", e.id)))
    BY <1>1, <1>2, <1>3, <1>4, <2>1, PubrecWritten
  <2> QED
    BY <2>2, BrokerSame
<1>7. BufferedInv(s)' /\ WaitingInv(s)' /\ QueueInv(s)' /\ HandInv(s)' /\ AppInv(s)'
  BY <1>4, <1>5, BufferedKept, WaitingKept, QueueKept, HandKept, AppKept DEF SessionInv
<1>8. /\ FlightInv(s)' /\ inflight2'[e.id] = f
      /\ \A n \in Messages \ {e.m} : s[n] = "flight" => inflight2'[bid[n]] = inflight2[bid[n]]
  <2>1. StageInv(stage) /\ FlightInv(stage) /\ \A n \in Messages \ {e.m} : s[n] = "flight" <=> stage[n] = "flight"
    BY <1>2 DEF SessionInv, Only
  <2>2. stage[e.m] # "flight"
    BY <1>3
  <2>3. inflight2'[e.id] = f /\ \A j \in PacketId \ {e.id} : inflight2'[j] = inflight2[j]
    BY <1>3 DEF TypeInv
  <2> QED
    BY <1>1, <1>2, <1>3, <2>1, <2>2, <2>3, FlightBegins
<1>9. PendingInv(s)'
  <2>1. \A n \in Messages : s[n] \in {"rl", "queue", "hand", "app"} => stage[n] \in {"rl", "queue", "hand", "app"}
    BY <1>2 DEF Only
  <2> QED
    BY <2>1, PendingKept DEF SessionInv
<1>10. PutsInv(s)'
  <2>1. \A n \in Messages : ToBePut(s, n)' => ToBePut(stage, n)
    BY <1>2, <1>3, <1>8 DEF ToBePut, Only
  <2> QED
    BY <2>1, PutsKept DEF SessionInv
<1>11. FateInv(s)'
  <2>1. \A n \in Messages : s[n] = "over" => stage[n] = "over"
    BY <1>2 DEF Only
  <2>2. ASSUME NEW n \in Messages, s[n] = "flight", ~inflight2'[bid'[n]].put
        PROVE  (stage[n] = "flight" /\ ~inflight2[bid[n]].put) \/ "dropped" \in fate'[n]
    <3>1. CASE n = e.m
      BY <1>3, <1>8, <2>2, <3>1
    <3>2. CASE n # e.m
      BY <1>2, <1>8, <2>2, <3>2 DEF Only
    <3> QED
      BY <3>1, <3>2
  <2> QED
    BY <2>1, <2>2, FateKept DEF SessionInv
<1>12. SessionInv(s)'
  BY <1>2, <1>4, <1>6, <1>7, <1>8, <1>9, <1>10, <1>11 DEF SessionInv
<1> QED
  BY <1>12

\* The history of a message only grows.
LEMMA NoteGrows ==
  ASSUME NEW ms, NEW what, Note(ms, what)
  PROVE  /\ \A n \in Messages : fate[n] \subseteq fate'[n]
         /\ \A n \in Messages \cap ms : what \in fate'[n]
         /\ \A n \in Messages \ ms : fate'[n] = fate[n]
BY DEF Note

\* A message of QoS 2 that is accepted to be put later.
LEMMA Accept2Step ==
  ASSUME TypeInv, BrokerInv, WireInv, HeldInv, NEW stage, SessionInv(stage), NEW e \in Read, PublishAccept2(e)
  PROVE  \E s : SessionInv(s)'
<1>1. PICK f : f = [m |-> e.m, put |-> TRUE]
  OBVIOUS
<1>2. /\ Fresh(e) /\ QoSOf[e.m] = 2 /\ AutoAcked(e.m) /\ HasRecipient(e.m)
      /\ inflight2' = [inflight2 EXCEPT ![e.id] = f]
      /\ toBroker' = Append(toBroker, Ack("PUBREC", e.id))
      /\ toClient' = Tail(toClient) /\ unack' = Quota(e)
      /\ UNCHANGED <<conn, bstate, bid, unmatched, publishes, rl, queue, hand, appHeld, pendingAck2, puts, fate, cut>>
  BY <1>1 DEF PublishAccept2, Accept2, AckedAtOnce, buffer, broker, app
<1>3. f \in Flight /\ f.m = e.m /\ f.put
  BY <1>1, <1>2 DEF Flight, Read, HasRecipient, TypeInv
<1>4. \A n \in Messages : fate[n] \subseteq fate'[n]
  BY <1>2
<1> QED
  BY <1>2, <1>3, <1>4, FreshAccepted

\* A message of QoS 1 whose PUBACK is written on arrival.
LEMMA FreshDone ==
  ASSUME TypeInv, BrokerInv, WireInv, HeldInv, NEW stage, SessionInv(stage), NEW e \in Read, Fresh(e), QoSOf[e.m] = 1,
         Handled(e.m)', toBroker' = Append(toBroker, Ack("PUBACK", e.id)), \A n \in Messages : fate[n] \subseteq fate'[n],
         toClient' = Tail(toClient), unack' \subseteq Quota(e), e.id \notin unack',
         \/ queue' = queue
         \/ queue' = Put(queue, e) /\ AutoAcked(e.m) /\ TopicOf[e.m] \in Subscribed,
         \A n \in Messages : QoSOf[n] = 2 => puts'[n] = puts[n],
         UNCHANGED <<conn, bstate, bid, unmatched, publishes, rl, hand, appHeld, pendingAck2, inflight2, cut>>
  PROVE  \E s : SessionInv(s)'
<1>1. e.m \in Messages /\ "over" \in Stages /\ stage \in [Messages -> Stages] /\ e \in Entry
  BY FreshIsNew DEF Read, Stages, SessionInv
<1>2. PICK s \in [Messages -> Stages] : s[e.m] = "over" /\ Only(stage, s, e.m)
  BY <1>1, MovedTo
<1>3. stage[e.m] = "none" /\ e.id \in PacketId /\ Owns(e.m, e.id)
  BY FreshStage
<1>4. /\ StageInv(s)' /\ ToClientInv(s, toClient)' /\ QuotaInv(s)' /\ Onward(stage, s)
      /\ \A x \in {"held", "rl", "queue", "hand", "app", "flight"} : "over" # x => Keeps(stage, s, x)
  BY <1>1, <1>2, FreshCommon
<1>5. /\ Keeps(stage, s, "held") /\ Keeps(stage, s, "rl") /\ Keeps(stage, s, "queue") /\ Keeps(stage, s, "hand")
      /\ Keeps(stage, s, "app") /\ Keeps(stage, s, "flight")
  BY <1>4
<1>6. ToBrokerInv(s, toBroker)'
  <2>1. ToBrokerInv(stage, toBroker)
    BY DEF SessionInv
  <2>2. ToBrokerInv(s, Append(toBroker, Ack("PUBACK", e.id)))
    BY <1>1, <1>2, <1>3, <1>4, <2>1, PubackWritten
  <2> QED
    BY <2>2, BrokerSame
<1>7. BufferedInv(s)' /\ WaitingInv(s)' /\ HandInv(s)' /\ AppInv(s)' /\ FlightInv(s)'
  BY <1>4, <1>5, BufferedKept, WaitingKept, HandKept, AppKept, FlightKept DEF SessionInv
<1>8. QueueInv(s)'
  <2>1. QueueInv(stage)
    BY DEF SessionInv
  <2>2. CASE queue' = queue
    BY <1>5, <2>1, <2>2, QueueKept
  <2>3. CASE queue' = Put(queue, e) /\ AutoAcked(e.m) /\ TopicOf[e.m] \in Subscribed
    <3>1. \A n \in Messages : stage[n] = "queue" => s[n] = "queue"
      BY <1>5 DEF Keeps
    <3> QED
      BY <1>1, <2>1, <2>3, <3>1, PutKeepsQueue
  <2> QED
    BY <2>2, <2>3
<1>9. PendingInv(s)'
  <2>1. \A n \in Messages : s[n] \in {"rl", "queue", "hand", "app"} => stage[n] \in {"rl", "queue", "hand", "app"}
    BY <1>2 DEF Only
  <2> QED
    BY <2>1, PendingKept DEF SessionInv
<1>10. PutsInv(s)'
  <2>1. \A n \in Messages : QoSOf[n] = 2 /\ ToBePut(s, n)' => ToBePut(stage, n)
    BY <1>2 DEF ToBePut, Only
  <2> QED
    BY <2>1, PutsKept DEF SessionInv
<1>11. FateInv(s)'
  <2>1. \A n \in Messages : /\ s[n] = "over" => stage[n] = "over" \/ Handled(n)'
                            /\ s[n] = "flight" => stage[n] = "flight"
    BY <1>2 DEF Only
  <2> QED
    BY <2>1, FateKept DEF SessionInv
<1>12. SessionInv(s)'
  BY <1>2, <1>4, <1>6, <1>7, <1>8, <1>9, <1>10, <1>11 DEF SessionInv
<1> QED
  BY <1>12

\* Nobody is subscribed.
LEMMA DroppedStep ==
  ASSUME TypeInv, BrokerInv, WireInv, HeldInv, NEW stage, SessionInv(stage), NEW e \in Read, PublishDropped(e)
  PROVE  \E s : SessionInv(s)'
<1>1. /\ Fresh(e) /\ toClient' = Tail(toClient) /\ Note({e.m}, "dropped")
      /\ UNCHANGED <<conn, bstate, bid, unmatched, publishes, rl, queue, hand, appHeld, pendingAck2, puts, cut>>
  BY DEF PublishDropped, buffer, broker, app
<1>2. e.m \in Messages /\ QoSOf[e.m] \in 0 .. 2
  BY InboundAssumption DEF Read
<1>3. (\A n \in Messages : fate[n] \subseteq fate'[n]) /\ "dropped" \in fate'[e.m]
  BY <1>1, <1>2, NoteGrows
<1>4. CASE QoSOf[e.m] = 0
  <2>1. unack' = Quota(e) /\ UNCHANGED <<toBroker, inflight2>>
    BY <1>4 DEF PublishDropped
  <2>2. Reads(e, "PUBLISH")
    BY <1>1 DEF Fresh
  <2>3. StageInv(stage)' /\ ToClientInv(stage, toClient)' /\ ToBrokerInv(stage, toBroker)' /\ QuotaInv(stage)'
    BY <1>1, <1>4, <2>1, <2>2, ReadKeepsWire
  <2>4. /\ BufferedInv(stage)' /\ WaitingInv(stage)' /\ QueueInv(stage)' /\ HandInv(stage)' /\ AppInv(stage)'
        /\ FlightInv(stage)' /\ PendingInv(stage)' /\ PutsInv(stage)'
    BY <1>1, <2>1, StillThere
  <2>5. FateInv(stage)'
    BY <1>1, <1>3, <2>1, FateKept DEF SessionInv
  <2>6. SessionInv(stage)'
    BY <2>3, <2>4, <2>5 DEF SessionInv
  <2> QED
    BY <2>6
<1>5. CASE QoSOf[e.m] = 1
  <2>1. /\ unack' = Complete(unack, e.id) /\ toBroker' = Append(toBroker, Ack("PUBACK", e.id)) /\ inflight2' = inflight2
    BY <1>5 DEF PublishDropped
  <2>2. unack' \subseteq Quota(e) /\ e.id \notin unack'
    BY <2>1 DEF Complete, Quota
  <2>3. Handled(e.m)'
    BY <1>3 DEF Handled
  <2> QED
    BY <1>1, <1>3, <1>5, <2>1, <2>2, <2>3, FreshDone
<1>6. CASE QoSOf[e.m] = 2
  <2>1. PICK f : f = [m |-> e.m, put |-> FALSE]
    OBVIOUS
  <2>2. /\ unack' = Quota(e) /\ toBroker' = Append(toBroker, Ack("PUBREC", e.id))
        /\ inflight2' = [inflight2 EXCEPT ![e.id] = f]
    BY <1>6, <2>1 DEF PublishDropped, Accept2
  <2>3. f \in Flight /\ f.m = e.m /\ ~f.put
    BY <1>2, <1>6, <2>1 DEF Flight
  <2> QED
    BY <1>1, <1>3, <1>6, <2>2, <2>3, FreshAccepted
<1> QED
  BY <1>2, <1>4, <1>5, <1>6

\* put() counts once, and the history says so.
LEMMA PutCounted ==
  ASSUME TypeInv, NEW ms, CountPuts(ms), Note(ms, "queued")
  PROVE  /\ \A n \in Messages : n \notin ms => puts'[n] = puts[n]
         /\ \A n \in Messages : puts[n] = 0 => puts'[n] <= 1
         /\ \A n \in Messages : fate[n] \subseteq fate'[n] /\ (n \in ms => "queued" \in fate'[n])
<1>1. puts \in [Messages -> 0 .. 2]
  BY DEF TypeInv
<1> QED
  BY <1>1 DEF CountPuts, Note

\* Nothing has been queued twice when what is put was still to be put and no longer is.
LEMMA PutsOnce ==
  ASSUME TypeInv, NEW stage, NEW s, PutsInv(stage), NEW ms, CountPuts(ms), Note(ms, "queued"),
         \A n \in Messages : QoSOf[n] = 2 /\ ToBePut(s, n)' => ToBePut(stage, n),
         \A n \in Messages : QoSOf[n] = 2 /\ n \in ms => ToBePut(stage, n) /\ ~ToBePut(s, n)'
  PROVE  PutsInv(s)'
<1> SUFFICES ASSUME NEW n \in Messages, QoSOf[n] = 2
             PROVE  puts'[n] <= 1 /\ (ToBePut(s, n)' => puts'[n] = 0)
  BY DEF PutsInv
<1>1. puts[n] <= 1 /\ (ToBePut(stage, n) => puts[n] = 0)
  BY DEF PutsInv
<1>2. /\ n \notin ms => puts'[n] = puts[n]
      /\ puts[n] = 0 => puts'[n] <= 1
  BY PutCounted
<1> QED
  BY <1>1, <1>2

\* A new message is put at once, or the read loop waits for room with it.
LEMMA RoutedStep ==
  ASSUME TypeInv, BrokerInv, WireInv, HeldInv, NEW stage, SessionInv(stage), NEW e \in Read, PublishRouted(e)
  PROVE  \E s : SessionInv(s)'
<1>1. /\ Fresh(e) /\ toClient' = Tail(toClient) /\ HasRecipient(e.m)
      /\ pendingAck2' = (IF QoSOf[e.m] = 2 THEN pendingAck2 \cup {e.id} ELSE pendingAck2)
      /\ \/ rl' = e /\ unack' = Quota(e) /\ UNCHANGED <<queue, puts, fate, toBroker>>
         \/ Deliver(e, Quota(e)) /\ rl' = rl
      /\ UNCHANGED <<conn, bstate, bid, unmatched, publishes, inflight2, hand, appHeld, cut>>
      /\ ~Early(e.m)
  BY DEF PublishRouted, buffer, broker, app, AckedAtOnce, Early
<1>2. /\ e.m \in Messages /\ QoSOf[e.m] \in 0 .. 2 /\ e \in Entry /\ TopicOf[e.m] \in Subscribed
      /\ stage \in [Messages -> Stages]
  <2>1. e.m \in Messages /\ QoSOf[e.m] \in 0 .. 2
    BY InboundAssumption DEF Read
  <2>2. e \in Entry /\ TopicOf[e.m] \in Subscribed
    BY <1>1, FreshIsNew DEF HasRecipient, TypeInv
  <2> QED
    BY <2>1, <2>2 DEF SessionInv
<1>3. Reads(e, "PUBLISH") /\ rl = NoEntry
  BY <1>1 DEF Fresh, Reads
<1>4. \A n \in Messages : rl.m # n
  BY <1>3, InboundAssumption DEF NoEntry
<1>5. pendingAck2 \subseteq pendingAck2'
  BY <1>1
<1>6. CASE QoSOf[e.m] = 0
  <2>1. unack' = Quota(e) /\ toBroker' = toBroker
    BY <1>1, <1>6 DEF Deliver, AckedAtOnce
  <2>2. StageInv(stage)' /\ ToClientInv(stage, toClient)' /\ ToBrokerInv(stage, toBroker)' /\ QuotaInv(stage)'
    BY <1>1, <1>3, <1>6, <2>1, ReadKeepsWire
  <2>3. /\ BufferedInv(stage)' /\ HandInv(stage)' /\ AppInv(stage)' /\ FlightInv(stage)' /\ PendingInv(stage)'
    BY <1>1, <1>5, StillThere
  <2>4. rl' = NoEntry \/ rl'.m = e.m
    BY <1>1, <1>3
  <2>5. WaitingInv(stage)'
    BY <1>6, <2>4 DEF WaitingInv
  <2>6. QueueInv(stage)'
    <3>1. CASE queue' = queue
      BY <1>1, <3>1, StillThere
    <3>2. CASE Deliver(e, Quota(e))
      <4>1. queue' = Put(queue, e) /\ QueueInv(stage) /\ bid' = bid
        BY <1>1, <3>2 DEF Deliver, SessionInv
      <4> QED
        BY <1>2, <1>6, <4>1, PutKeepsQueue
    <3> QED
      BY <1>1, <3>1, <3>2
  <2>7. \A n \in Messages : QoSOf[n] = 2 => rl'.m # n
    BY <1>6, <2>4, InboundAssumption DEF NoEntry
  <2>8. (\A n \in Messages : fate[n] \subseteq fate'[n]) /\ \A n \in Messages : n # e.m => puts'[n] = puts[n]
    <3>1. CASE UNCHANGED <<puts, fate>>
      BY <3>1
    <3>2. CASE Deliver(e, Quota(e))
      <4>1. CountPuts({e.m}) /\ Note({e.m}, "queued")
        BY <3>2 DEF Deliver
      <4> QED
        BY <4>1, PutCounted
    <3> QED
      BY <1>1, <3>1, <3>2
  <2>9. PutsInv(stage)'
    <3>1. \A n \in Messages : QoSOf[n] = 2 /\ ToBePut(stage, n)' => ToBePut(stage, n)
      BY <1>1, <2>7 DEF ToBePut
    <3>2. \A n \in Messages : QoSOf[n] = 2 => puts'[n] = puts[n]
      BY <1>6, <2>8
    <3> QED
      BY <3>1, <3>2, PutsKept DEF SessionInv
  <2>10. FateInv(stage)'
    BY <1>1, <1>4, <2>8, FateKept DEF SessionInv
  <2>11. SessionInv(stage)'
    BY <2>2, <2>3, <2>5, <2>6, <2>9, <2>10 DEF SessionInv
  <2> QED
    BY <2>11
<1>7. CASE Deliver(e, Quota(e)) /\ rl' = rl /\ QoSOf[e.m] = 1 /\ AutoAcked(e.m)
  <2>1. /\ queue' = Put(queue, e) /\ CountPuts({e.m}) /\ Note({e.m}, "queued")
        /\ unack' = Complete(Quota(e), e.id) /\ toBroker' = Append(toBroker, Ack("PUBACK", e.id))
    BY <1>7 DEF Deliver, AckedAtOnce
  <2>2. unack' \subseteq Quota(e) /\ e.id \notin unack'
    BY <2>1 DEF Complete
  <2>3. /\ \A n \in Messages : fate[n] \subseteq fate'[n]
        /\ "queued" \in fate'[e.m] /\ \A n \in Messages : QoSOf[n] = 2 => puts'[n] = puts[n]
    BY <1>2, <1>7, <2>1, PutCounted
  <2>4. Handled(e.m)'
    BY <1>7, <2>3 DEF Handled
  <2>5. pendingAck2' = pendingAck2
    BY <1>1, <1>7
  <2> QED
    BY <1>1, <1>2, <1>7, <2>1, <2>2, <2>3, <2>4, <2>5, FreshDone
<1>8. CASE QoSOf[e.m] > 0 /\ ((Deliver(e, Quota(e)) /\ rl' = rl /\ ~AutoAcked(e.m)) \/ (rl' = e /\ unack' = Quota(e) /\ UNCHANGED <<queue, puts, fate, toBroker>>))
  <2>1. PICK place \in {"rl", "queue"} :
          \/ place = "queue" /\ Deliver(e, Quota(e)) /\ rl' = rl /\ ~AutoAcked(e.m)
          \/ place = "rl" /\ rl' = e /\ unack' = Quota(e) /\ UNCHANGED <<queue, puts, fate, toBroker>>
    BY <1>8
  <2>2. place \in Stages /\ place # "over" /\ place # "flight"
    BY <2>1 DEF Stages
  <2>3. PICK s \in [Messages -> Stages] : s[e.m] = place /\ Only(stage, s, e.m)
    BY <1>2, <2>2, MovedTo
  <2>4. stage[e.m] = "none" /\ bid[e.m] = e.id /\ e.id \in PacketId /\ Owns(e.m, e.id)
    BY <1>1, <1>8, FreshStage
  <2>5. unack' = Quota(e) /\ toBroker' = toBroker
    BY <2>1 DEF Deliver, AckedAtOnce
  <2>6. /\ StageInv(s)' /\ ToClientInv(s, toClient)' /\ QuotaInv(s)' /\ Onward(stage, s)
        /\ \A x \in {"held", "rl", "queue", "hand", "app", "flight"} : place # x => Keeps(stage, s, x)
    <3>1. unack' \subseteq Quota(e) /\ QoSOf[e.m] > 0
      BY <1>8, <2>5
    <3> QED
      BY <1>1, <2>2, <2>3, <3>1, FreshCommon
  <2>7. /\ Keeps(stage, s, "held") /\ Keeps(stage, s, "hand") /\ Keeps(stage, s, "app") /\ Keeps(stage, s, "flight")
    BY <2>1, <2>6
  <2>8. ToBrokerInv(s, toBroker)'
    BY <1>1, <2>5, <2>6, MoveAcks, BrokerSame DEF SessionInv
  <2>9. BufferedInv(s)' /\ HandInv(s)' /\ AppInv(s)' /\ FlightInv(s)'
    BY <1>1, <2>7, BufferedKept, HandKept, AppKept, FlightKept DEF SessionInv
  <2>10. PendingInv(s)'
    <3> SUFFICES ASSUME NEW n \in Messages, QoSOf[n] = 2, s[n] \in {"rl", "queue", "hand", "app"}
                 PROVE  bid[n] \in pendingAck2'
      BY <1>1 DEF PendingInv
    <3>1. CASE n = e.m
      BY <1>1, <2>4, <3>1
    <3>2. CASE n # e.m
      BY <1>5, <2>3, <3>2 DEF SessionInv, PendingInv, Only
    <3> QED
      BY <3>1, <3>2
  <2>11. CASE place = "rl"
    <3>1. rl' = e /\ UNCHANGED <<queue, puts, fate, toBroker>>
      BY <2>1, <2>11
    <3>2. WaitingInv(s)'
      BY <1>1, <2>3, <2>4, <2>11, <3>1 DEF WaitingInv, Early
    <3>3. QueueInv(s)'
      BY <2>6, <2>11, <3>1, QueueKept DEF SessionInv
    <3>4. PutsInv(s)'
      <4>1. \A n \in Messages : ToBePut(s, n)' => ToBePut(stage, n)
        BY <1>1, <2>3, <2>4, <2>11, <3>1 DEF ToBePut, Only
      <4> QED
        BY <3>1, <4>1, PutsKept DEF SessionInv
    <3>5. FateInv(s)'
      <4>1. \A n \in Messages : s[n] \in {"over", "flight"} => stage[n] = s[n]
        BY <2>3, <2>11 DEF Only
      <4> QED
        BY <1>1, <1>4, <3>1, <4>1, FateKept DEF SessionInv
    <3>6. SessionInv(s)'
      BY <2>3, <2>6, <2>8, <2>9, <2>10, <3>2, <3>3, <3>4, <3>5 DEF SessionInv
    <3> QED
      BY <3>6
  <2>12. CASE place = "queue"
    <3>1. Deliver(e, Quota(e)) /\ rl' = rl /\ ~AutoAcked(e.m)
      BY <2>1, <2>12
    <3>2. queue' = Put(queue, e) /\ CountPuts({e.m}) /\ Note({e.m}, "queued")
      BY <3>1 DEF Deliver
    <3>3. WaitingInv(s)'
      BY <1>3, <3>1 DEF WaitingInv
    <3>4. QueueInv(s)'
      <4>1. \A n \in Messages : stage[n] = "queue" => s[n] = "queue"
        BY <2>3, <2>4 DEF Only
      <4>2. QueueInv(stage) /\ bid' = bid /\ stage[e.m] # "queue" /\ s[e.m] = "queue" /\ e.id = bid[e.m]
        BY <1>1, <2>3, <2>4, <2>12 DEF SessionInv
      <4> QED
        BY <1>2, <3>2, <4>1, <4>2, PutKeepsQueue
    <3>5. PutsInv(s)'
      <4>1. \A n \in Messages : ToBePut(s, n)' => ToBePut(stage, n)
        BY <1>1, <2>3, <2>4, <2>12, <3>1 DEF ToBePut, Only
      <4>2. ToBePut(stage, e.m) /\ ~ToBePut(s, e.m)'
        BY <1>2, <1>4, <2>3, <2>4, <2>12, <3>1 DEF ToBePut
      <4>3. PutsInv(stage)
        BY DEF SessionInv
      <4> QED
        BY <3>2, <4>1, <4>2, <4>3, PutsOnce
    <3>6. FateInv(s)'
      <4>1. \A n \in Messages : s[n] \in {"over", "flight"} => stage[n] = s[n]
        BY <2>3, <2>12 DEF Only
      <4>2. \A n \in Messages : fate[n] \subseteq fate'[n]
        BY <3>2, PutCounted
      <4> QED
        BY <1>1, <3>1, <4>1, <4>2, FateKept DEF SessionInv
    <3>7. SessionInv(s)'
      BY <2>3, <2>6, <2>8, <2>9, <2>10, <3>3, <3>4, <3>5, <3>6 DEF SessionInv
    <3> QED
      BY <3>7
  <2> QED
    BY <2>1, <2>11, <2>12
<1> QED
  BY <1>1, <1>2, <1>6, <1>7, <1>8 DEF Early

-----------------------------------------------------------------------------
(* The other tasks of the client.                                          *)

\* A message that is in the client may change its stage beside the packets under way.
LEMMA TaskMoves ==
  ASSUME NEW stage, NEW s, NEW w \in Seq(ToClientPacket), ToClientInv(stage, w),
         \A n \in Messages : s[n] = stage[n] \/ (stage[n] # "none" /\ (QoSOf[n] = 1 \/ s[n] # "over"))
  PROVE  ToClientInv(s, w)
<1>1. \A k \in 1 .. Len(w) : w[k].m \in Messages
  <2>1. \A k \in 1 .. Len(w) : w[k] \in ToClientPacket
    OBVIOUS
  <2> QED
    BY <2>1 DEF ToClientPacket
<1>2. ASSUME NEW k \in 1 .. Len(w), w[k].type = "PUBLISH", QoSOf[w[k].m] > 0
      PROVE  s[w[k].m] # "over" /\ (QoSOf[w[k].m] = 1 => s[w[k].m] = "none")
  <2>1. PacketInv(stage, w[k])
    BY DEF ToClientInv
  <2>2. stage[w[k].m] # "over" /\ (QoSOf[w[k].m] = 1 => stage[w[k].m] = "none")
    BY <1>2, <2>1 DEF PacketInv
  <2> QED
    BY <1>1, <2>2
<1>3. \A n \in Messages : stage[n] = "none" => s[n] = "none"
  OBVIOUS
<1> QED
  BY <1>2, <1>3, MovePackets

\* A message in the client owns its identifier.
LEMMA StagedOwns ==
  ASSUME TypeInv, BrokerInv, NEW stage, StageInv(stage), NEW m \in Messages,
         stage[m] \in {"held", "rl", "queue", "hand", "app", "flight"}
  PROVE  /\ Owns(m, bid[m]) /\ bid[m] \in PacketId /\ bid[m] # 0 /\ QoSOf[m] \in 1 .. 2
         /\ stage[m] # "flight" => bstate[m] = "sent"
<1>1. m \in InFlight /\ (stage[m] # "flight" => bstate[m] = "sent")
  BY DEF StageInv, InFlight
<1> QED
  BY <1>1, IdTypes DEF Owns

\* The read loop puts what it waited with.
LEMMA PutsStep ==
  ASSUME TypeInv, BrokerInv, NEW stage, SessionInv(stage), ReadLoopPuts
  PROVE  \E s : SessionInv(s)'
<1>1. PICK e : e = rl
  OBVIOUS
<1>2. /\ conn = "up" /\ rl # NoEntry /\ Deliver(e, unack) /\ rl' = NoEntry
      /\ UNCHANGED <<conn, bstate, bid, toClient, unmatched, publishes, inflight2, hand, appHeld, pendingAck2, cut>>
  BY <1>1 DEF ReadLoopPuts, buffer, broker, app
<1>3. /\ e \in Entry /\ TopicOf[e.m] \in Subscribed /\ e.m \in Messages /\ QoSOf[e.m] \in 0 .. 2
      /\ stage \in [Messages -> Stages] /\ toClient \in Seq(ToClientPacket)
  <2>1. e \in Entry /\ TopicOf[e.m] \in Subscribed
    BY <1>1, <1>2 DEF TypeInv
  <2> QED
    BY <2>1, EntryId DEF SessionInv, TypeInv
<1>4. queue' = Put(queue, e) /\ CountPuts({e.m}) /\ Note({e.m}, "queued")
  BY <1>2 DEF Deliver
<1>5. /\ \A n \in Messages : fate[n] \subseteq fate'[n]
      /\ "queued" \in fate'[e.m]
  BY <1>3, <1>4, PutCounted
<1>6. \A n \in Messages : rl.m = n => "queued" \in fate'[n]
  BY <1>1, <1>5
<1>7. \A n \in Messages : rl'.m # n
  BY <1>2, InboundAssumption DEF NoEntry
<1>8. PutsInv(stage) /\ QueueInv(stage) /\ ToBrokerInv(stage, toBroker) /\ StageInv(stage) /\ QuotaInv(stage)
      /\ ToClientInv(stage, toClient)
  BY DEF SessionInv
<1>9. CASE QoSOf[e.m] = 0 \/ Early(e.m)
  <2>1. unack' = unack /\ toBroker' = toBroker
    BY <1>2, <1>9 DEF Deliver, AckedAtOnce, Early
  <2>2. StageInv(stage)' /\ ToClientInv(stage, toClient)' /\ ToBrokerInv(stage, toBroker)' /\ QuotaInv(stage)'
    BY <1>2, <1>8, <2>1, BrokerSame DEF StageInv, QuotaInv
  <2>3. /\ BufferedInv(stage)' /\ HandInv(stage)' /\ AppInv(stage)' /\ FlightInv(stage)' /\ PendingInv(stage)'
    BY <1>2, StillThere
  <2>4. WaitingInv(stage)'
    BY <1>2 DEF WaitingInv
  <2>5. QueueInv(stage)'
    <3>1. AutoAcked(e.m) \/ QoSOf[e.m] = 0
      BY <1>9 DEF Early
    <3> QED
      BY <1>2, <1>3, <1>4, <1>8, <3>1, PutKeepsQueue
  <2>6. PutsInv(stage)'
    <3>1. \A n \in Messages : ToBePut(stage, n)' => ToBePut(stage, n)
      BY <1>2, <1>7 DEF ToBePut
    <3>2. QoSOf[e.m] = 2 => ToBePut(stage, e.m) /\ ~ToBePut(stage, e.m)'
      <4>1. QoSOf[e.m] = 2 => stage[e.m] = "over"
        BY <1>1, <1>2, <1>3, <1>9 DEF SessionInv, WaitingInv
      <4> QED
        BY <1>1, <1>3, <1>7, <4>1 DEF ToBePut
    <3> QED
      BY <1>4, <1>8, <3>1, <3>2, PutsOnce
  <2>7. FateInv(stage)'
    BY <1>2, <1>5, <1>6, FateKept DEF SessionInv
  <2>8. SessionInv(stage)'
    BY <2>2, <2>3, <2>4, <2>5, <2>6, <2>7 DEF SessionInv
  <2> QED
    BY <2>8
<1>10. CASE QoSOf[e.m] > 0 /\ ~Early(e.m)
  <2>1. stage[e.m] = "rl" /\ e.id = bid[e.m]
    BY <1>1, <1>2, <1>10 DEF SessionInv, WaitingInv
  <2>2. Owns(e.m, e.id) /\ e.id \in PacketId /\ bstate[e.m] = "sent"
    BY <1>3, <1>8, <2>1, StagedOwns
  <2>3. PICK place \in {"over", "queue"} : IF AutoAcked(e.m) THEN place = "over" ELSE place = "queue"
    OBVIOUS
  <2>4. place \in Stages /\ (place = "over" => QoSOf[e.m] = 1 /\ AutoAcked(e.m)) /\ (place = "queue" => ~AutoAcked(e.m))
    BY <1>3, <1>10, <2>3 DEF Stages, Early
  <2>5. PICK s \in [Messages -> Stages] : s[e.m] = place /\ Only(stage, s, e.m)
    BY <1>3, <2>4, MovedTo
  <2>6. /\ Keeps(stage, s, "held") /\ Keeps(stage, s, "hand") /\ Keeps(stage, s, "app") /\ Keeps(stage, s, "flight")
    BY <1>2, <1>3, <2>1, <2>3, <2>5, OnlyKeeps
  <2>7. Onward(stage, s)
    BY <2>1, <2>5 DEF Onward, Only
  <2>8. StageInv(s)'
    <3>1. MayMove(e.m, place)
      BY <1>10, <2>2, <2>3, <2>4 DEF MayMove
    <3>2. \A n \in Messages : s[n] = stage[n] \/ MayMove(n, s[n])
      BY <2>5, <3>1 DEF Only
    <3> QED
      BY <1>2, <1>8, <3>2, MoveStages
  <2>9. ToClientInv(s, toClient)'
    <3>1. \A n \in Messages : s[n] = stage[n] \/ (stage[n] # "none" /\ (QoSOf[n] = 1 \/ s[n] # "over"))
      BY <2>1, <2>3, <2>4, <2>5 DEF Only
    <3>2. ToClientInv(s, toClient)
      BY <1>3, <1>8, <3>1, TaskMoves
    <3> QED
      BY <1>2, <3>2, BrokerSame
  <2>10. /\ place = "over" => unack' = Complete(unack, e.id) /\ toBroker' = Append(toBroker, Ack("PUBACK", e.id))
         /\ place = "queue" => unack' = unack /\ toBroker' = toBroker
    BY <1>2, <2>4 DEF Deliver, AckedAtOnce
  <2>11. ToBrokerInv(s, toBroker)'
    <3>1. CASE place = "over"
      <4>1. ToBrokerInv(s, Append(toBroker, Ack("PUBACK", e.id)))
        BY <1>3, <1>8, <2>1, <2>2, <2>4, <2>5, <2>7, <3>1, PubackWritten
      <4> QED
        BY <1>2, <2>10, <3>1, <4>1, BrokerSame
    <3>2. CASE place = "queue"
      BY <1>2, <1>8, <2>7, <2>10, <3>2, MoveAcks, BrokerSame
    <3> QED
      BY <2>3, <3>1, <3>2
  <2>12. QuotaInv(s)'
    <3>1. unack' \subseteq unack /\ (place = "over" => e.id \notin unack')
      BY <2>3, <2>10 DEF Complete
    <3>2. \A n \in Messages : \A i : Owns(n, i) /\ stage[n] # "over" /\ i \in unack' => Owns(n, i)' /\ s[n] # "over"
      BY <1>2, <2>2, <2>3, <2>5, <3>1, BrokerSame DEF Only, Owns
    <3> QED
      BY <1>8, <3>1, <3>2, QuotaKept
  <2>13. BufferedInv(s)' /\ HandInv(s)' /\ AppInv(s)' /\ FlightInv(s)'
    BY <1>2, <2>6, BufferedKept, HandKept, AppKept, FlightKept DEF SessionInv
  <2>14. WaitingInv(s)'
    BY <1>2 DEF WaitingInv
  <2>15. PendingInv(s)'
    <3>1. \A n \in Messages : s[n] \in {"rl", "queue", "hand", "app"} => stage[n] \in {"rl", "queue", "hand", "app"}
      BY <2>1, <2>5 DEF Only
    <3> QED
      BY <1>2, <3>1, PendingKept DEF SessionInv
  <2>16. QueueInv(s)'
    <3>1. \A n \in Messages : stage[n] = "queue" => s[n] = "queue"
      BY <2>1, <2>5 DEF Only
    <3>2. AutoAcked(e.m) \/ (stage[e.m] # "queue" /\ s[e.m] = "queue")
      BY <2>1, <2>3, <2>5
    <3> QED
      BY <1>2, <1>3, <1>4, <1>8, <2>1, <3>1, <3>2, PutKeepsQueue
  <2>17. PutsInv(s)'
    <3>1. \A n \in Messages : ToBePut(s, n)' => ToBePut(stage, n)
      BY <1>2, <1>7, <2>1, <2>5 DEF ToBePut, Only
    <3>2. ToBePut(stage, e.m) /\ ~ToBePut(s, e.m)'
      BY <1>3, <1>7, <2>1, <2>3, <2>5 DEF ToBePut
    <3> QED
      BY <1>4, <1>8, <3>1, <3>2, PutsOnce
  <2>18. FateInv(s)'
    <3>1. place = "over" => Handled(e.m)'
      BY <1>5, <2>4 DEF Handled
    <3>2. \A n \in Messages : /\ s[n] = "over" => stage[n] = "over" \/ Handled(n)'
                              /\ s[n] = "flight" => stage[n] = "flight"
      BY <2>3, <2>5, <3>1 DEF Only
    <3> QED
      BY <1>2, <1>5, <1>6, <3>2, FateKept DEF SessionInv
  <2>19. SessionInv(s)'
    BY <2>5, <2>8, <2>9, <2>11, <2>12, <2>13, <2>14, <2>15, <2>16, <2>17, <2>18 DEF SessionInv
  <2> QED
    BY <2>19
<1> QED
  BY <1>3, <1>9, <1>10

\* A PUBREL ends its flight, if there is one, and is answered in any case.
LEMMA PubrelStep ==
  ASSUME TypeInv, BrokerInv, NEW stage, SessionInv(stage), NEW e \in Read, HandlePubrel(e)
  PROVE  \E s : SessionInv(s)'
<1>1. /\ Reads(e, "PUBREL") /\ toClient' = Tail(toClient) /\ toBroker' = Append(toBroker, Ack("PUBCOMP", e.id))
      /\ inflight2' = [inflight2 EXCEPT ![e.id] = NoFlight]
      /\ unack' = (IF inflight2[e.id] = NoFlight THEN unack ELSE Complete(unack, e.id))
      /\ rl' = (IF inflight2[e.id].put THEN [m |-> inflight2[e.id].m, id |-> e.id] ELSE NoEntry)
      /\ UNCHANGED <<conn, bstate, bid, unmatched, publishes, queue, hand, appHeld, pendingAck2, puts, fate, cut>>
  BY DEF HandlePubrel, buffer, broker, app
<1> DEFINE w == Tail(toClient)
<1>2. /\ conn = "up" /\ rl = NoEntry /\ e.id \in PacketId /\ e.m \in Messages
      /\ w \in Seq(ToClientPacket) /\ toClient \in Seq(ToClientPacket) /\ toClient # <<>>
      /\ toClient[1] = [type |-> "PUBREL", id |-> e.id, m |-> e.m]
      /\ stage \in [Messages -> Stages] /\ inflight2 \in [PacketId -> Flight \cup {NoFlight}]
  BY <1>1, ReadsFacts DEF Reads, TypeInv, Read, SessionInv
<1>3. toClient[1].type = "PUBREL" /\ toClient[1].id = e.id /\ toClient[1].m = e.m
  BY <1>2
<1>4. /\ ToClientInv(stage, w) /\ PacketInv(stage, toClient[1])
      /\ \A k \in 1 .. Len(w) : PacketsInv(toClient[1], w[k])
  BY <1>2, ReadKeepsPackets DEF SessionInv
<1>5. /\ QoSOf[e.m] = 2
      /\ \/ bstate[e.m] = "rel" /\ bid[e.m] = e.id
         \/ bstate[e.m] = "done" /\ \A n \in Messages : Owns(n, e.id) => stage[n] = "none"
  BY <1>3, <1>4 DEF PacketInv
<1>6. \A k \in 1 .. Len(w) : w[k].type = "PUBLISH" => w[k].m # e.m
  BY <1>3, <1>4 DEF PacketsInv
<1>7. /\ StageInv(stage) /\ FlightInv(stage) /\ QuotaInv(stage) /\ PutsInv(stage) /\ FateInv(stage)
      /\ ToBrokerInv(stage, toBroker)
  BY DEF SessionInv
<1>8. \A n \in Messages : rl.m # n /\ NoFlight.m # n /\ NoEntry.m # n
  BY <1>2, InboundAssumption DEF NoEntry, NoFlight
<1> HIDE DEF w
<1>9. CASE inflight2[e.id] = NoFlight
  <2>1. inflight2' = inflight2 /\ rl' = rl /\ unack' = unack
    BY <1>1, <1>2, <1>9 DEF NoFlight
  <2>2. ASSUME NEW n \in Messages, Owns(n, e.id)
        PROVE  (bstate[n] = "rel" /\ stage[n] = "over") \/ (bstate[n] # "rel" /\ stage[n] = "none")
    <3>1. CASE bstate[e.m] = "rel" /\ bid[e.m] = e.id
      <4>1. Owns(e.m, e.id)
        BY <1>2, <3>1 DEF Owns, InFlight
      <4>2. n = e.m
        BY <1>2, <2>2, <4>1, OwnerIsOne
      <4>3. stage[n] # "flight"
        BY <1>7, <1>8, <1>9, <3>1, <4>2 DEF FlightInv
      <4> QED
        BY <1>7, <3>1, <4>2, <4>3 DEF StageInv
    <3>2. CASE \A x \in Messages : Owns(x, e.id) => stage[x] = "none"
      BY <1>7, <2>2, <3>2 DEF StageInv
    <3> QED
      BY <1>5, <3>1, <3>2
  <2>3. Onward(stage, stage)
    BY DEF Onward
  <2>4. ToBrokerInv(stage, Append(toBroker, Ack("PUBCOMP", e.id)))
    BY <1>2, <1>7, <2>2, <2>3, PubcompWritten
  <2>5. ToBrokerInv(stage, toBroker)' /\ ToClientInv(stage, toClient)'
    BY <1>1, <1>4, <2>4, BrokerSame DEF w
  <2>6. StageInv(stage)' /\ QuotaInv(stage)'
    BY <1>1, <1>7, <2>1, BrokerSame DEF StageInv, QuotaInv
  <2>7. /\ BufferedInv(stage)' /\ WaitingInv(stage)' /\ QueueInv(stage)' /\ HandInv(stage)' /\ AppInv(stage)'
        /\ FlightInv(stage)' /\ PendingInv(stage)' /\ PutsInv(stage)' /\ FateInv(stage)'
    BY <1>1, <2>1, StillThere
  <2>8. SessionInv(stage)'
    BY <1>2, <2>5, <2>6, <2>7 DEF SessionInv
  <2> QED
    BY <2>8
<1>10. CASE inflight2[e.id] # NoFlight
  <2>1. PICK f : f = inflight2[e.id]
    OBVIOUS
  <2>2. f \in Flight /\ f.m \in Messages /\ QoSOf[f.m] = 2
    BY <1>2, <1>10, <2>1 DEF Flight
  <2>3. stage[f.m] = "flight" /\ bid[f.m] = e.id /\ (f.put => AutoAcked(f.m))
    BY <1>2, <1>7, <1>10, <2>1 DEF FlightInv
  <2>4. Owns(f.m, e.id)
    BY <1>7, <2>2, <2>3 DEF StageInv, Owns, InFlight
  <2>5. bstate[e.m] = "rel" /\ bid[e.m] = e.id /\ f.m = e.m
    <3>1. bstate[e.m] = "rel" /\ bid[e.m] = e.id
      BY <1>5, <2>2, <2>3, <2>4
    <3>2. Owns(e.m, e.id)
      BY <1>2, <3>1 DEF Owns, InFlight
    <3> QED
      BY <1>2, <2>2, <2>4, <3>1, <3>2, OwnerIsOne
  <2>6. PICK s \in [Messages -> Stages] : s[e.m] = "over" /\ Only(stage, s, e.m)
    <3>1. "over" \in Stages
      BY DEF Stages
    <3> QED
      BY <1>2, <3>1, MovedTo
  <2>7. /\ Keeps(stage, s, "held") /\ Keeps(stage, s, "rl") /\ Keeps(stage, s, "queue") /\ Keeps(stage, s, "hand")
        /\ Keeps(stage, s, "app")
    BY <1>1, <1>2, <2>3, <2>5, <2>6, OnlyKeeps
  <2>8. Onward(stage, s)
    BY <2>3, <2>5, <2>6 DEF Onward, Only
  <2>9. StageInv(s)'
    <3>1. MayMove(e.m, "over")
      BY <1>5, <2>5 DEF MayMove
    <3>2. \A n \in Messages : s[n] = stage[n] \/ MayMove(n, s[n])
      BY <2>6, <3>1 DEF Only
    <3> QED
      BY <1>1, <1>2, <1>7, <3>2, MoveStages
  <2>10. ToClientInv(s, toClient)'
    <3>1. \A k \in 1 .. Len(w) : w[k].m \in Messages
      <4>1. \A k \in 1 .. Len(w) : w[k] \in ToClientPacket
        BY <1>2
      <4> QED
        BY <4>1 DEF ToClientPacket
    <3>2. \A k \in 1 .. Len(w) : w[k].type = "PUBLISH" /\ QoSOf[w[k].m] > 0 =>
            s[w[k].m] # "over" /\ (QoSOf[w[k].m] = 1 => s[w[k].m] = "none")
      BY <1>4, <1>6, <2>6, <3>1 DEF ToClientInv, PacketInv, Only
    <3>3. \A n \in Messages : stage[n] = "none" => s[n] = "none"
      BY <2>3, <2>5, <2>6 DEF Only
    <3>4. ToClientInv(s, w)
      BY <1>4, <3>2, <3>3, MovePackets
    <3> QED
      BY <1>1, <3>4, BrokerSame DEF w
  <2>11. ToBrokerInv(s, toBroker)'
    <3>1. \A n \in Messages : Owns(n, e.id) => bstate[n] = "rel" /\ s[n] = "over"
      BY <1>2, <2>4, <2>5, <2>6, OwnerIsOne
    <3>2. ToBrokerInv(s, Append(toBroker, Ack("PUBCOMP", e.id)))
      BY <1>2, <1>7, <2>8, <3>1, PubcompWritten
    <3> QED
      BY <1>1, <3>2, BrokerSame
  <2>12. BufferedInv(s)' /\ QueueInv(s)' /\ HandInv(s)' /\ AppInv(s)'
    BY <1>1, <2>7, BufferedKept, QueueKept, HandKept, AppKept DEF SessionInv
  <2>13. IF f.put THEN rl'.m = e.m /\ Early(e.m) ELSE rl' = NoEntry
    BY <1>1, <1>5, <2>1, <2>3, <2>5 DEF Early
  <2>14. WaitingInv(s)'
    BY <2>6, <2>13 DEF WaitingInv, Early
  <2>15. \A n \in Messages \ {e.m} : s[n] = "flight" => bid[n] # e.id /\ bid[n] \in PacketId
    <3> SUFFICES ASSUME NEW n \in Messages \ {e.m}, s[n] = "flight" PROVE bid[n] # e.id /\ bid[n] \in PacketId
      OBVIOUS
    <3>1. stage[n] = "flight"
      BY <2>6 DEF Only
    <3>2. Owns(n, bid[n]) /\ bid[n] \in PacketId
      BY <1>7, <3>1, StagedOwns
    <3>3. ~Owns(n, e.id)
      BY <1>2, <2>4, <2>5, OwnerIsOne
    <3> QED
      BY <3>2, <3>3 DEF Owns
  <2>16. \A j \in PacketId \ {e.id} : inflight2'[j] = inflight2[j]
    BY <1>1, <1>2
  <2>17. FlightInv(s)'
    <3>1. inflight2'[e.id] = NoFlight
      BY <1>1, <1>2
    <3>2. ASSUME NEW j \in PacketId, inflight2'[j] # NoFlight
          PROVE  /\ s[inflight2'[j].m] = "flight" /\ bid[inflight2'[j].m] = j
                 /\ inflight2'[j].put => AutoAcked(inflight2'[j].m)
      <4>1. j # e.id /\ inflight2'[j] = inflight2[j]
        BY <2>16, <3>1, <3>2
      <4>2. inflight2[j] \in Flight
        BY <1>2, <3>2, <4>1
      <4>3. inflight2[j].m \in Messages
        BY <4>2 DEF Flight
      <4>4. /\ stage[inflight2[j].m] = "flight" /\ bid[inflight2[j].m] = j
            /\ inflight2[j].put => AutoAcked(inflight2[j].m)
        BY <1>7, <3>2, <4>1 DEF FlightInv
      <4> QED
        BY <2>5, <2>6, <4>1, <4>3, <4>4 DEF Only
    <3>3. ASSUME NEW n \in Messages, s[n] = "flight" PROVE inflight2'[bid[n]].m = n
      BY <1>7, <2>6, <2>15, <2>16, <3>3 DEF FlightInv, Only
    <3> QED
      BY <1>1, <3>2, <3>3 DEF FlightInv
  <2>18. PendingInv(s)'
    <3>1. \A n \in Messages : s[n] \in {"rl", "queue", "hand", "app"} => stage[n] \in {"rl", "queue", "hand", "app"}
      BY <2>6 DEF Only
    <3> QED
      BY <1>1, <3>1, PendingKept DEF SessionInv
  <2>19. QuotaInv(s)'
    <3>1. unack' \subseteq unack /\ e.id \notin unack'
      BY <1>1, <1>10 DEF Complete
    <3>2. \A n \in Messages : \A i : Owns(n, i) /\ stage[n] # "over" /\ i \in unack' => Owns(n, i)' /\ s[n] # "over"
      BY <1>1, <2>5, <2>6, <3>1, BrokerSame DEF Only, Owns
    <3> QED
      BY <1>7, <3>1, <3>2, QuotaKept
  <2>20. PutsInv(s)'
    <3>1. ASSUME NEW n \in Messages, ToBePut(s, n)' PROVE ToBePut(stage, n)
      <4>1. CASE n = e.m
        <5>1. f.put
          BY <1>8, <2>6, <2>13, <3>1, <4>1 DEF ToBePut
        <5> QED
          BY <2>1, <2>3, <2>5, <4>1, <5>1 DEF ToBePut
      <4>2. CASE n # e.m
        <5>1. rl'.m # n
          BY <1>8, <2>13, <4>2
        <5>2. s[n] = stage[n] /\ (s[n] = "flight" => inflight2'[bid[n]] = inflight2[bid[n]])
          BY <2>6, <2>15, <2>16, <4>2 DEF Only
        <5> QED
          BY <1>1, <3>1, <5>1, <5>2 DEF ToBePut
      <4> QED
        BY <4>1, <4>2
    <3> QED
      BY <1>1, <1>7, <3>1, PutsKept
  <2>21. FateInv(s)'
    <3>1. Handled(e.m)'
      <4>1. CASE f.put
        BY <1>5, <2>3, <2>5, <2>13, <4>1 DEF Handled
      <4>2. CASE ~f.put
        <5>1. "dropped" \in fate[e.m] \/ (~AutoAcked(e.m) /\ "acked" \in fate[e.m])
          BY <1>2, <1>7, <2>1, <2>3, <2>5, <4>2 DEF FateInv
        <5> QED
          BY <1>1, <5>1 DEF Handled
      <4> QED
        BY <4>1, <4>2
    <3>2. \A n \in Messages : s[n] = "over" => stage[n] = "over" \/ Handled(n)'
      BY <2>6, <3>1 DEF Only
    <3>3. \A n \in Messages : s[n] = "flight" /\ ~inflight2'[bid'[n]].put => stage[n] = "flight" /\ ~inflight2[bid[n]].put
      BY <1>1, <2>6, <2>15, <2>16 DEF Only
    <3> QED
      BY <1>1, <1>7, <1>8, <3>2, <3>3, FateKept
  <2>22. SessionInv(s)'
    BY <2>6, <2>9, <2>10, <2>11, <2>12, <2>14, <2>17, <2>18, <2>19, <2>20, <2>21 DEF SessionInv
  <2> QED
    BY <2>22
<1> QED
  BY <1>9, <1>10

\* Steps that move nothing.
LEMMA IdleStep ==
  ASSUME TypeInv, NEW stage, SessionInv(stage),
         UNCHANGED <<conn, bstate, bid, toClient, toBroker, unmatched, publishes, rl, queue, hand, appHeld, inflight2,
                     pendingAck2, unack, puts, fate, cut>>
  PROVE  SessionInv(stage)'
<1>1. ToClientInv(stage, toClient)' /\ ToBrokerInv(stage, toBroker)'
  BY BrokerSame DEF SessionInv
<1>2. StageInv(stage)' /\ QuotaInv(stage)'
  BY BrokerSame DEF StageInv, QuotaInv, SessionInv
<1>3. /\ BufferedInv(stage)' /\ WaitingInv(stage)' /\ QueueInv(stage)' /\ HandInv(stage)' /\ AppInv(stage)'
      /\ FlightInv(stage)' /\ PendingInv(stage)' /\ PutsInv(stage)' /\ FateInv(stage)'
  BY StillThere
<1> QED
  BY <1>1, <1>2, <1>3 DEF SessionInv

\* An item is its message and its identifier.
LEMMA SameItem ==
  ASSUME NEW x \in Item, NEW y \in Item, x.m = y.m, x.ack = y.ack
  PROVE  x = y
BY DEF Item

\* get_message() takes the first of a queue; the others stay where they are.
LEMMA TakeKeepsQueue ==
  ASSUME TypeInv, NEW stage, NEW s, QueueInv(stage), NEW t \in Subscribed, queue[t] # <<>>,
         queue'[t] = Tail(queue[t]), \A u \in Subscribed \ {t} : queue'[u] = queue[u],
         bid' = bid, NEW x, x = Head(queue[t]),
         \A n \in Messages : stage[n] = "queue" /\ ~(x.ack # 0 /\ n = x.m) => s[n] = "queue"
  PROVE  QueueInv(s)'
<1>1. queue \in [Subscribed -> Seq(Item)]
  BY DEF TypeInv, Queues
<1>2. \A u \in Subscribed : queue[u] \in Seq(Item)
  BY <1>1
<1>3. /\ Len(Tail(queue[t])) = Len(queue[t]) - 1 /\ Len(queue[t]) \in Nat \ {0}
      /\ \A i \in 1 .. Len(queue[t]) - 1 : Tail(queue[t])[i] = queue[t][i + 1]
      /\ x = queue[t][1] /\ x \in Item
  BY <1>2, TailAt
<1>4. ASSUME NEW u \in Subscribed, NEW k \in 1 .. Len(queue[u]), u = t => k # 1
      PROVE  ItemInv(s, queue[u][k], "queue", u)
  <2>1. ItemInv(stage, queue[u][k], "queue", u) /\ queue[u][k] \in Item
    BY <1>2 DEF QueueInv
  <2>2. PICK y \in Item : y = queue[u][k]
    BY <2>1
  <2>3. y.m \in Messages
    BY DEF Item
  <2>4. SUFFICES ASSUME y.ack # 0 PROVE s[y.m] = "queue"
    BY <2>1, <2>2 DEF ItemInv
  <2>5. stage[y.m] = "queue" /\ y.ack = bid[y.m] /\ TopicOf[y.m] = u
    BY <2>1, <2>2, <2>4 DEF ItemInv
  <2>6. ASSUME x.ack # 0, y.m = x.m PROVE FALSE
    <3>1. 1 \in 1 .. Len(queue[t])
      BY <1>3
    <3>2. x.ack = bid[x.m] /\ TopicOf[x.m] = t
      BY <1>3, <2>6, <3>1 DEF QueueInv, ItemInv
    <3>3. y = x /\ u = t
      BY <1>3, <2>5, <2>6, <3>2, SameItem
    <3>4. k \in 1 .. Len(queue[t]) /\ k # 1 /\ queue[t][k] = queue[t][1] /\ queue[t][1].ack # 0
      BY <1>3, <1>4, <2>2, <2>6, <3>3
    <3> QED
      BY <3>1, <3>4 DEF QueueInv
  <2> QED
    BY <2>3, <2>5, <2>6
<1> SUFFICES ASSUME NEW u \in Subscribed
             PROVE  /\ \A k \in 1 .. Len(queue'[u]) : ItemInv(s, queue'[u][k], "queue", u)
                    /\ \A k, l \in 1 .. Len(queue'[u]) : k # l /\ queue'[u][k].ack # 0 => queue'[u][k] # queue'[u][l]
  BY DEF QueueInv, ItemInv
<1>5. CASE u # t
  <2>1. queue'[u] = queue[u]
    BY <1>2, <1>5
  <2>2. \A k \in 1 .. Len(queue[u]) : ItemInv(s, queue[u][k], "queue", u)
    BY <1>4, <1>5
  <2>3. \A k, l \in 1 .. Len(queue[u]) : k # l /\ queue[u][k].ack # 0 => queue[u][k] # queue[u][l]
    BY DEF QueueInv
  <2> QED
    BY <2>1, <2>2, <2>3
<1>6. CASE u = t
  <2>4. PICK q : q = queue'[u]
    OBVIOUS
  <2>5. Len(q) = Len(queue[u]) - 1 /\ Len(queue[u]) \in Nat /\ \A i \in 1 .. Len(queue[u]) - 1 : q[i] = queue[u][i + 1]
    BY <1>3, <1>6, <2>4
  <2>1. \A k \in 1 .. Len(q) : k + 1 \in 1 .. Len(queue[u]) /\ k + 1 # 1 /\ q[k] = queue[u][k + 1]
    BY <2>5
  <2>2. \A k \in 1 .. Len(q) : ItemInv(s, q[k], "queue", u)
    BY <1>4, <2>1
  <2>3. \A k, l \in 1 .. Len(q) : k # l /\ q[k].ack # 0 => q[k] # q[l]
    <3> SUFFICES ASSUME NEW k \in 1 .. Len(q), NEW l \in 1 .. Len(q), k # l, q[k].ack # 0 PROVE q[k] # q[l]
      OBVIOUS
    <3>1. k + 1 # l + 1
      OBVIOUS
    <3>2. \A i, j \in 1 .. Len(queue[u]) : i # j /\ queue[u][i].ack # 0 => queue[u][i] # queue[u][j]
      BY DEF QueueInv
    <3>3. k + 1 \in 1 .. Len(queue[u]) /\ l + 1 \in 1 .. Len(queue[u]) /\ q[k] = queue[u][k + 1] /\ q[l] = queue[u][l + 1]
      BY <2>1
    <3> QED
      BY <3>1, <3>2, <3>3
  <2> QED
    BY <2>2, <2>3, <2>4
<1> QED
  BY <1>5, <1>6

\* A consumer is cancelled with the message it has taken, which then is in no queue and
\* with no consumer; its stage stays what it was.
LEMMA CancelledStep ==
  ASSUME TypeInv, NEW stage, SessionInv(stage), Cancelled, ~requeued'
  PROVE  SessionInv(stage)'
<1>1. UNCHANGED <<conn, bstate, bid, toClient, toBroker, rl, inflight2, pendingAck2, unack, appHeld, puts, fate, cut>>
  BY CancelledFrame
<1>2. ToClientInv(stage, toClient)' /\ ToBrokerInv(stage, toBroker)'
  BY <1>1, BrokerSame DEF SessionInv
<1>3. StageInv(stage)' /\ QuotaInv(stage)'
  BY <1>1, BrokerSame DEF StageInv, QuotaInv, SessionInv
<1>4. WaitingInv(stage)' /\ AppInv(stage)' /\ FlightInv(stage)' /\ PendingInv(stage)' /\ PutsInv(stage)' /\ FateInv(stage)'
  BY <1>1, StillThere
<1>5. ASSUME UNCHANGED <<unmatched, publishes>>, QueueInv(stage)', HandInv(stage)' PROVE SessionInv(stage)'
  <2>1. BufferedInv(stage)'
    BY <1>1, <1>5, StillThere
  <2> QED
    BY <1>2, <1>3, <1>4, <1>5, <2>1 DEF SessionInv
<1>6. ASSUME NEW d, CancelWait(d) PROVE SessionInv(stage)'
  <2>1. /\ hand' = [t \in Subscribed |-> IF d = <<"get", t>> THEN Nothing ELSE hand[t]]
        /\ UNCHANGED <<unmatched, publishes, queue>>
    BY <1>6, WaitFacts
  <2>2. QueueInv(stage)'
    BY <1>1, <2>1, StillThere
  <2>3. Nothing.ack = 0
    BY DEF Nothing
  <2>4. \A t \in Subscribed : hand'[t] = Nothing \/ hand'[t] = hand[t]
    BY <2>1
  <2>5. HandInv(stage)'
    BY <1>1, <2>3, <2>4 DEF SessionInv, HandInv, ItemInv
  <2> QED
    BY <1>5, <2>1, <2>2, <2>5
<1>7. ASSUME NEW t \in Subscribed, TakeCancelled(t) PROVE SessionInv(stage)'
  <2>1. /\ queue[t] # <<>> /\ queue' = [queue EXCEPT ![t] = Tail(@)]
        /\ UNCHANGED <<unmatched, publishes, hand>>
    BY <1>7, TakeFacts
  <2>2. queue'[t] = Tail(queue[t]) /\ \A u \in Subscribed \ {t} : queue'[u] = queue[u]
    BY <2>1 DEF TypeInv, Queues
  <2>3. PICK x : x = Head(queue[t])
    OBVIOUS
  <2>4. QueueInv(stage)
    BY DEF SessionInv
  <2>5. QueueInv(stage)'
    BY <1>1, <2>1, <2>2, <2>3, <2>4, TakeKeepsQueue
  <2>6. HandInv(stage)'
    BY <1>1, <2>1, StillThere
  <2> QED
    BY <1>5, <2>1, <2>5, <2>6
<1>8. \A d : ~CancelWrite(d)
  BY WriteFacts
<1> QED
  BY <1>6, <1>7, <1>8, Zenon DEF Cancelled

\* A consumer takes a message, and returns it at once when there is nothing to drain.
LEMMA GetStep ==
  ASSUME TypeInv, BrokerInv, NEW stage, SessionInv(stage), NEW t \in Subscribed, GetMessage(t)
  PROVE  \E s : SessionInv(s)'
<1>1. PICK x : x = Head(queue[t])
  OBVIOUS
<1>2. /\ hand[t] = Nothing /\ queue[t] # <<>> /\ queue' = [queue EXCEPT ![t] = Tail(@)]
      /\ \/ hand' = [hand EXCEPT ![t] = x] /\ appHeld' = appHeld
         \/ hand' = hand /\ appHeld' = appHeld \cup {y \in {x} : y.ack # 0}
      /\ UNCHANGED <<conn, bstate, bid, toClient, toBroker, unmatched, publishes, rl, inflight2, pendingAck2, unack,
                     puts, fate, cut>>
  BY <1>1 DEF GetMessage, Hand, buffer, broker, flow, wire
<1>3. /\ stage \in [Messages -> Stages] /\ toClient \in Seq(ToClientPacket)
      /\ hand \in [Subscribed -> Item \cup {Nothing}] /\ queue[t] \in Seq(Item)
  BY DEF TypeInv, Queues, SessionInv
<1>4. x \in Item /\ x = queue[t][1] /\ 1 \in 1 .. Len(queue[t])
  BY <1>1, <1>2, <1>3, TailAt
<1>8. queue'[t] = Tail(queue[t]) /\ \A u \in Subscribed \ {t} : queue'[u] = queue[u]
  BY <1>2 DEF TypeInv, Queues
<1>5. /\ StageInv(stage) /\ QueueInv(stage) /\ HandInv(stage) /\ AppInv(stage) /\ ToClientInv(stage, toClient)
      /\ ToBrokerInv(stage, toBroker) /\ QuotaInv(stage) /\ PutsInv(stage) /\ FateInv(stage)
  BY DEF SessionInv
<1>6. CASE x.ack = 0
  <2>1. ToClientInv(stage, toClient)' /\ ToBrokerInv(stage, toBroker)'
    BY <1>2, <1>5, BrokerSame
  <2>2. StageInv(stage)' /\ QuotaInv(stage)'
    BY <1>2, <1>5, BrokerSame DEF StageInv, QuotaInv
  <2>3. /\ BufferedInv(stage)' /\ WaitingInv(stage)' /\ FlightInv(stage)' /\ PendingInv(stage)' /\ PutsInv(stage)'
        /\ FateInv(stage)'
    BY <1>2, StillThere
  <2>4. QueueInv(stage)'
    BY <1>1, <1>2, <1>5, <1>8, TakeKeepsQueue
  <2>5. HandInv(stage)'
    BY <1>2, <1>3, <1>5, <1>6 DEF HandInv, ItemInv
  <2>6. appHeld' = appHeld
    BY <1>2, <1>6
  <2>7. AppInv(stage)'
    BY <1>2, <2>6, StillThere
  <2>8. SessionInv(stage)'
    BY <1>3, <2>1, <2>2, <2>3, <2>4, <2>5, <2>7 DEF SessionInv
  <2> QED
    BY <2>8
<1>7. CASE x.ack # 0
  <2>1. stage[x.m] = "queue" /\ x.ack = bid[x.m] /\ ~AutoAcked(x.m) /\ TopicOf[x.m] = t /\ x.m \in Messages
    BY <1>4, <1>5, <1>7 DEF QueueInv, ItemInv, Item
  <2>2. Owns(x.m, x.ack) /\ x.ack \in PacketId /\ bstate[x.m] = "sent" /\ QoSOf[x.m] \in 1 .. 2
    BY <1>5, <2>1, StagedOwns
  <2>3. conn = "up"
    BY <1>5, <2>1, <2>2 DEF StageInv
  <2>4. PICK place \in {"hand", "app"} :
          \/ place = "hand" /\ hand' = [hand EXCEPT ![t] = x] /\ appHeld' = appHeld
          \/ place = "app" /\ hand' = hand /\ appHeld' = appHeld \cup {x}
    BY <1>2, <1>7
  <2>5. PICK s \in [Messages -> Stages] : s[x.m] = place /\ Only(stage, s, x.m)
    <3>1. place \in Stages
      BY DEF Stages
    <3> QED
      BY <1>3, <2>1, <3>1, MovedTo
  <2>6. /\ Keeps(stage, s, "held") /\ Keeps(stage, s, "rl") /\ Keeps(stage, s, "flight")
        /\ place = "app" => Keeps(stage, s, "hand")
        /\ place = "hand" => Keeps(stage, s, "app")
    BY <1>2, <2>1, <2>4, <2>5, OnlyKeeps
  <2>7. Onward(stage, s)
    BY <2>1, <2>5 DEF Onward, Only
  <2>8. StageInv(s)'
    <3>1. MayMove(x.m, place)
      BY <2>2 DEF MayMove
    <3>2. \A n \in Messages : s[n] = stage[n] \/ MayMove(n, s[n])
      BY <2>5, <3>1 DEF Only
    <3> QED
      BY <1>2, <1>5, <2>3, <3>2, MoveStages
  <2>9. ToClientInv(s, toClient)' /\ ToBrokerInv(s, toBroker)'
    <3>1. \A n \in Messages : s[n] = stage[n] \/ (stage[n] # "none" /\ (QoSOf[n] = 1 \/ s[n] # "over"))
      BY <2>1, <2>5 DEF Only
    <3>2. ToClientInv(s, toClient)
      BY <1>3, <1>5, <3>1, TaskMoves
    <3>3. ToBrokerInv(s, toBroker)
      BY <1>5, <2>7, MoveAcks
    <3> QED
      BY <1>2, <3>2, <3>3, BrokerSame
  <2>10. BufferedInv(s)' /\ WaitingInv(s)' /\ FlightInv(s)'
    BY <1>2, <2>6, <2>7, BufferedKept, WaitingKept, FlightKept DEF SessionInv
  <2>11. QueueInv(s)'
    <3>1. \A n \in Messages : stage[n] = "queue" /\ ~(x.ack # 0 /\ n = x.m) => s[n] = "queue"
      BY <1>7, <2>5 DEF Only
    <3> QED
      BY <1>1, <1>2, <1>5, <1>8, <3>1, TakeKeepsQueue
  <2>12. \A n \in Messages : /\ stage[n] \in {"hand", "app"} => s[n] = stage[n]
                             /\ s[n] \in {"rl", "queue", "hand", "app"} => stage[n] \in {"rl", "queue", "hand", "app"}
    BY <2>1, <2>5 DEF Only
  <2>13. HandInv(s)'
    <3>1. CASE place = "app"
      BY <2>4, <2>6, <3>1, HandKept, <1>5
    <3>2. CASE place = "hand"
      <4>1. hand' = [hand EXCEPT ![t] = x]
        BY <2>4, <3>2
      <4>2. ASSUME NEW u \in Subscribed PROVE ItemInv(s, hand'[u], "hand", u)
        <5>1. CASE u = t
          BY <1>3, <2>1, <2>5, <3>2, <4>1, <5>1 DEF ItemInv
        <5>2. CASE u # t
          <6>1. hand'[u] = hand[u] /\ hand[u] \in Item \cup {Nothing} /\ ItemInv(stage, hand[u], "hand", u)
            BY <1>3, <1>5, <4>1, <5>2 DEF HandInv
          <6>2. hand[u].ack # 0 => hand[u].m \in Messages
            BY <6>1 DEF Item, Nothing
          <6> QED
            BY <2>12, <6>1, <6>2 DEF ItemInv
        <5> QED
          BY <5>1, <5>2
      <4> QED
        BY <1>2, <4>2 DEF HandInv, ItemInv
    <3> QED
      BY <2>4, <3>1, <3>2
  <2>14. AppInv(s)'
    <3>1. CASE place = "hand"
      BY <2>4, <2>6, <3>1, AppKept, <1>5
    <3>2. CASE place = "app"
      <4>1. appHeld' = appHeld \cup {x}
        BY <2>4, <3>2
      <4>2. ASSUME NEW y \in appHeld' PROVE ItemInv(s, y, "app", TopicOf[y.m])
        <5>1. CASE y = x
          BY <2>1, <2>5, <3>2, <5>1 DEF ItemInv
        <5>2. CASE y \in appHeld
          <6>1. y.m \in Messages /\ ItemInv(stage, y, "app", TopicOf[y.m])
            BY <1>5, <5>2 DEF AppInv, TypeInv, Item
          <6> QED
            BY <2>12, <6>1 DEF ItemInv
        <5> QED
          BY <4>1, <5>1, <5>2
      <4> QED
        BY <1>2, <4>2 DEF AppInv, ItemInv
    <3> QED
      BY <2>4, <3>1, <3>2
  <2>15. PendingInv(s)'
    BY <1>2, <2>12, PendingKept DEF SessionInv
  <2>16. QuotaInv(s)'
    <3>1. \A n \in Messages : \A i : Owns(n, i) /\ stage[n] # "over" /\ i \in unack' => Owns(n, i)' /\ s[n] # "over"
      BY <1>2, <2>4, <2>5, BrokerSame DEF Only
    <3> QED
      BY <1>2, <1>5, <3>1, QuotaKept
  <2>17. PutsInv(s)'
    <3>1. \A n \in Messages : ToBePut(s, n)' => ToBePut(stage, n)
      BY <1>2, <2>5 DEF ToBePut, Only
    <3> QED
      BY <1>2, <1>5, <3>1, PutsKept
  <2>18. FateInv(s)'
    <3>1. \A n \in Messages : s[n] \in {"over", "flight"} => stage[n] = s[n]
      BY <2>4, <2>5 DEF Only
    <3> QED
      BY <1>2, <1>5, <3>1, FateKept
  <2>19. SessionInv(s)'
    BY <2>5, <2>8, <2>9, <2>10, <2>11, <2>13, <2>14, <2>15, <2>16, <2>17, <2>18 DEF SessionInv
  <2> QED
    BY <2>19
<1> QED
  BY <1>6, <1>7

\* The application acknowledges a message it has.
LEMMA AppAckStep ==
  ASSUME TypeInv, BrokerInv, NEW stage, SessionInv(stage), NEW x \in appHeld, AppAck(x)
  PROVE  \E s : SessionInv(s)'
<1>1. /\ appHeld' = appHeld \ {x} /\ Note({x.m}, "acked")
      /\ UNCHANGED <<conn, bstate, bid, toClient, rl, unmatched, publishes, queue, hand, puts, cut>>
      /\ QoSOf[x.m] = 1 => /\ unack' = Complete(unack, x.ack) /\ toBroker' = Append(toBroker, Ack("PUBACK", x.ack))
                           /\ UNCHANGED <<inflight2, pendingAck2>>
      /\ QoSOf[x.m] # 1 => /\ pendingAck2' = pendingAck2 \ {x.ack} /\ unack' = unack
                           /\ inflight2' = [inflight2 EXCEPT ![x.ack] = [m |-> x.m, put |-> FALSE]]
                           /\ toBroker' = Append(toBroker, Ack("PUBREC", x.ack))
  BY DEF AppAck, Accept2, buffer, broker
<1>2. /\ stage \in [Messages -> Stages] /\ toClient \in Seq(ToClientPacket)
      /\ appHeld \subseteq Item /\ x.ack # 0 /\ x \in Item /\ x.m \in Messages
      /\ inflight2 \in [PacketId -> Flight \cup {NoFlight}]
  BY DEF TypeInv, SessionInv, Item
<1>3. /\ StageInv(stage) /\ AppInv(stage) /\ ToClientInv(stage, toClient) /\ FlightInv(stage)
      /\ ToBrokerInv(stage, toBroker) /\ QuotaInv(stage) /\ PutsInv(stage) /\ FateInv(stage) /\ PendingInv(stage)
  BY DEF SessionInv
<1>4. stage[x.m] = "app" /\ x.ack = bid[x.m] /\ ~AutoAcked(x.m)
  BY <1>2, <1>3 DEF AppInv, ItemInv
<1>5. Owns(x.m, x.ack) /\ x.ack \in PacketId /\ bstate[x.m] = "sent" /\ QoSOf[x.m] \in 1 .. 2
  BY <1>2, <1>3, <1>4, StagedOwns
<1>6. conn = "up"
  BY <1>2, <1>3, <1>5, <1>4 DEF StageInv
<1>7. PICK place \in {"over", "flight"} : IF QoSOf[x.m] = 1 THEN place = "over" ELSE place = "flight"
  OBVIOUS
<1>8. PICK s \in [Messages -> Stages] : s[x.m] = place /\ Only(stage, s, x.m)
  <2>1. place \in Stages
    BY DEF Stages
  <2> QED
    BY <1>2, <2>1, MovedTo
<1>9. /\ Keeps(stage, s, "held") /\ Keeps(stage, s, "rl") /\ Keeps(stage, s, "queue") /\ Keeps(stage, s, "hand")
      /\ place = "over" => Keeps(stage, s, "flight")
  BY <1>1, <1>2, <1>4, <1>7, <1>8, OnlyKeeps
<1>10. Onward(stage, s)
  BY <1>4, <1>8 DEF Onward, Only
<1>11. StageInv(s)'
  <2>1. MayMove(x.m, place)
    BY <1>5, <1>7 DEF MayMove
  <2>2. \A n \in Messages : s[n] = stage[n] \/ MayMove(n, s[n])
    BY <1>8, <2>1 DEF Only
  <2> QED
    BY <1>1, <1>3, <1>6, <2>2, MoveStages
<1>12. ToClientInv(s, toClient)'
  <2>1. \A n \in Messages : s[n] = stage[n] \/ (stage[n] # "none" /\ (QoSOf[n] = 1 \/ s[n] # "over"))
    BY <1>4, <1>7, <1>8 DEF Only
  <2>2. ToClientInv(s, toClient)
    BY <1>2, <1>3, <2>1, TaskMoves
  <2> QED
    BY <1>1, <2>2, BrokerSame
<1>13. ToBrokerInv(s, toBroker)'
  <2>1. CASE QoSOf[x.m] = 1
    <3>1. ToBrokerInv(s, Append(toBroker, Ack("PUBACK", x.ack)))
      BY <1>2, <1>3, <1>4, <1>5, <1>7, <1>8, <1>10, <2>1, PubackWritten
    <3> QED
      BY <1>1, <2>1, <3>1, BrokerSame
  <2>2. CASE QoSOf[x.m] = 2
    <3>1. ToBrokerInv(s, Append(toBroker, Ack("PUBREC", x.ack)))
      BY <1>2, <1>3, <1>4, <1>5, <1>7, <1>8, <1>10, <2>2, PubrecWritten
    <3>2. toBroker' = Append(toBroker, Ack("PUBREC", x.ack)) /\ UNCHANGED <<bstate, bid>>
      BY <1>1, <2>2
    <3> QED
      BY <3>1, <3>2, BrokerSame
  <2> QED
    BY <1>5, <2>1, <2>2
<1>14. BufferedInv(s)' /\ WaitingInv(s)' /\ QueueInv(s)' /\ HandInv(s)'
  BY <1>1, <1>9, <1>10, BufferedKept, WaitingKept, QueueKept, HandKept DEF SessionInv
<1>15. AppInv(s)'
  <2>1. ASSUME NEW y \in appHeld \ {x} PROVE ItemInv(s, y, "app", TopicOf[y.m])
    <3>1. y \in Item /\ y.ack # 0 /\ y.m \in Messages
      BY DEF TypeInv, Item
    <3>2. stage[y.m] = "app" /\ y.ack = bid[y.m] /\ ~AutoAcked(y.m)
      BY <1>3, <3>1 DEF AppInv, ItemInv
    <3>3. y.m # x.m
      BY <1>2, <1>4, <3>1, <3>2, SameItem
    <3> QED
      BY <1>8, <3>1, <3>2, <3>3 DEF Only, ItemInv
  <2> QED
    BY <1>1, <2>1 DEF AppInv, ItemInv
<1>16. /\ FlightInv(s)'
       /\ place = "flight" => ~inflight2'[x.ack].put
       /\ \A n \in Messages \ {x.m} : s[n] = "flight" => inflight2'[bid[n]] = inflight2[bid[n]]
  <2>1. CASE QoSOf[x.m] = 1
    BY <1>1, <1>3, <1>7, <1>9, <2>1, FlightKept
  <2>2. CASE QoSOf[x.m] = 2
    <3>1. PICK f : f = [m |-> x.m, put |-> FALSE]
      OBVIOUS
    <3>2. f \in Flight /\ f.m = x.m /\ ~f.put
      BY <1>2, <2>2, <3>1 DEF Flight
    <3>3. inflight2'[x.ack] = f /\ \A j \in PacketId \ {x.ack} : inflight2'[j] = inflight2[j]
      BY <1>1, <1>2, <1>5, <2>2, <3>1
    <3>4. \A n \in Messages \ {x.m} : s[n] = "flight" <=> stage[n] = "flight"
      BY <1>8 DEF Only
    <3>5. s[x.m] = "flight" /\ stage[x.m] # "flight"
      BY <1>4, <1>7, <1>8, <2>2
    <3>6. FlightInv(s)' /\ \A n \in Messages \ {x.m} : s[n] = "flight" => inflight2'[bid[n]] = inflight2[bid[n]]
      <4>1. UNCHANGED <<bstate, bid>>
        BY <1>1
      <4> QED
        BY <1>2, <1>3, <1>5, <3>2, <3>3, <3>4, <3>5, <4>1, FlightBegins
    <3> QED
      BY <3>2, <3>3, <3>6
  <2> QED
    BY <1>5, <2>1, <2>2
<1>17. PendingInv(s)'
  <2> SUFFICES ASSUME NEW n \in Messages, QoSOf[n] = 2, s[n] \in {"rl", "queue", "hand", "app"}
               PROVE  bid[n] \in pendingAck2'
    BY <1>1 DEF PendingInv
  <2>1. n # x.m /\ stage[n] = s[n]
    BY <1>7, <1>8 DEF Only
  <2>2. Owns(n, bid[n]) /\ bid[n] \in pendingAck2
    BY <1>3, <2>1, StagedOwns DEF PendingInv
  <2>3. bid[n] # x.ack
    BY <1>2, <1>5, <2>1, <2>2, OwnerIsOne
  <2> QED
    BY <1>1, <2>2, <2>3
<1>18. QuotaInv(s)'
  <2>1. unack' \subseteq unack /\ (place = "over" => x.ack \notin unack')
    BY <1>1, <1>7 DEF Complete
  <2>2. \A n \in Messages : \A i : Owns(n, i) /\ stage[n] # "over" /\ i \in unack' => Owns(n, i)' /\ s[n] # "over"
    BY <1>1, <1>5, <1>7, <1>8, <2>1, BrokerSame DEF Only, Owns
  <2> QED
    BY <1>3, <2>1, <2>2, QuotaKept
<1>19. PutsInv(s)'
  <2>1. \A n \in Messages : ToBePut(s, n)' => ToBePut(stage, n)
    BY <1>1, <1>4, <1>7, <1>8, <1>16 DEF ToBePut, Only
  <2> QED
    BY <1>1, <1>3, <2>1, PutsKept
<1>20. FateInv(s)'
  <2>1. /\ \A n \in Messages : fate[n] \subseteq fate'[n]
        /\ "acked" \in fate'[x.m]
    BY <1>1, <1>2, NoteGrows
  <2>2. Handled(x.m)'
    BY <1>4, <2>1 DEF Handled
  <2>3. \A n \in Messages : s[n] = "over" => stage[n] = "over" \/ Handled(n)'
    BY <1>8, <2>2 DEF Only
  <2>4. ASSUME NEW n \in Messages, s[n] = "flight", ~inflight2'[bid'[n]].put
        PROVE  \/ stage[n] = "flight" /\ ~inflight2[bid[n]].put
               \/ ~AutoAcked(n) /\ "acked" \in fate'[n]
    <3>1. CASE n = x.m
      BY <1>4, <2>1, <3>1
    <3>2. CASE n # x.m
      BY <1>1, <1>8, <1>16, <2>4, <3>2 DEF Only
    <3> QED
      BY <3>1, <3>2
  <2> QED
    BY <1>1, <1>3, <2>1, <2>3, <2>4, FateKept
<1>21. SessionInv(s)'
  BY <1>8, <1>11, <1>12, <1>13, <1>14, <1>15, <1>16, <1>17, <1>18, <1>19, <1>20 DEF SessionInv
<1> QED
  BY <1>21

-----------------------------------------------------------------------------
(* The broker and the connection.                                          *)

\* The places of a message in the client.
Places == {"held", "rl", "queue", "hand", "app", "flight"}

\* The broker may do with a message that is not in the client, or over, what it likes.
LEMMA ClientKept ==
  ASSUME TypeInv, NEW stage, SessionInv(stage),
         \A m \in Messages : stage[m] \in Places => bid'[m] = bid[m],
         \A m \in Messages : \A i : Owns(m, i) /\ stage[m] # "over" => Owns(m, i)',
         UNCHANGED <<unmatched, publishes, rl, queue, hand, appHeld, inflight2, pendingAck2, unack, puts, fate, cut>>
  PROVE  /\ BufferedInv(stage)' /\ WaitingInv(stage)' /\ QueueInv(stage)' /\ HandInv(stage)' /\ AppInv(stage)'
         /\ FlightInv(stage)' /\ PendingInv(stage)' /\ QuotaInv(stage)' /\ PutsInv(stage)' /\ FateInv(stage)'
<1>1. /\ Keeps(stage, stage, "held") /\ Keeps(stage, stage, "rl") /\ Keeps(stage, stage, "queue")
      /\ Keeps(stage, stage, "hand") /\ Keeps(stage, stage, "app") /\ Keeps(stage, stage, "flight")
  BY DEF Keeps, Places
<1>2. Onward(stage, stage)
  BY DEF Onward
<1>3. BufferedInv(stage)' /\ WaitingInv(stage)'
  BY <1>1, <1>2, BufferedKept, WaitingKept DEF SessionInv
<1>4. QueueInv(stage)' /\ HandInv(stage)' /\ AppInv(stage)' /\ FlightInv(stage)'
  BY <1>1, QueueKept, HandKept, AppKept, FlightKept DEF SessionInv
<1>5. PendingInv(stage)' /\ QuotaInv(stage)'
  BY PendingKept, QuotaKept DEF SessionInv, Places
<1>6. \A m \in Messages : stage[m] = "flight" => bid'[m] = bid[m]
  BY DEF Places
<1>7. PutsInv(stage)'
  <2>1. \A n \in Messages : ToBePut(stage, n)' => ToBePut(stage, n)
    BY <1>6 DEF ToBePut
  <2> QED
    BY <2>1, PutsKept DEF SessionInv
<1>8. FateInv(stage)'
  <2>1. \A n \in Messages : stage[n] = "flight" /\ ~inflight2'[bid'[n]].put => ~inflight2[bid[n]].put
    BY <1>6
  <2> QED
    BY <2>1, FateKept DEF SessionInv
<1> QED
  BY <1>3, <1>4, <1>5, <1>7, <1>8

\* One more packet for the client.
LEMMA AppendPacket ==
  ASSUME NEW s, NEW w \in Seq(ToClientPacket), NEW p \in ToClientPacket, ToClientInv(s, w)',
         PacketInv(s, p)', \A k \in 1 .. Len(w) : PacketsInv(w[k], p)'
  PROVE  ToClientInv(s, Append(w, p))'
<1> DEFINE v == Append(w, p)
<1>1. /\ Len(v) = Len(w) + 1 /\ Len(w) \in Nat
      /\ \A i \in 1 .. Len(w) : v[i] = w[i]
      /\ v[Len(w) + 1] = p
  BY AppendAt
<1> HIDE DEF v
<1>2. \A k \in 1 .. Len(v) : (k \in 1 .. Len(w) /\ v[k] = w[k]) \/ (k = Len(w) + 1 /\ v[k] = p)
  BY <1>1
<1>3. \A k \in 1 .. Len(v) : PacketInv(s, v[k])'
  BY <1>2 DEF ToClientInv
<1>4. \A k, l \in 1 .. Len(v) : k < l => PacketsInv(v[k], v[l])'
  <2> SUFFICES ASSUME NEW k \in 1 .. Len(v), NEW l \in 1 .. Len(v), k < l PROVE PacketsInv(v[k], v[l])'
    OBVIOUS
  <2>1. k \in 1 .. Len(w) /\ v[k] = w[k]
    BY <1>1, <1>2
  <2> QED
    BY <1>2, <2>1 DEF ToClientInv
<1> QED
  BY <1>3, <1>4 DEF ToClientInv, v

\* The packets under way after a step are those in the sequences of that state.
LEMMA PacketsThen ==
  ASSUME NEW stage, NEW w, NEW v
  PROVE  /\ w = toClient' /\ ToClientInv(stage, w)' => ToClientInv(stage, toClient)'
         /\ v = toBroker' /\ ToBrokerInv(stage, v)' => ToBrokerInv(stage, toBroker)'
<1>1. w = toClient' /\ ToClientInv(stage, w)' => ToClientInv(stage, toClient)'
  BY DEF ToClientInv, PacketInv, PacketsInv
<1>2. v = toBroker' /\ ToBrokerInv(stage, v)' => ToBrokerInv(stage, toBroker)'
  BY DEF ToBrokerInv, AckInv, AcksInv
<1> QED
  BY <1>1, <1>2

\* When the broker takes up messages that were queued, the packets under way stay right.
LEMMA BrokerTakesUp ==
  ASSUME TypeInv, BrokerInv, NEW stage, SessionInv(stage),
         \A n \in Messages : bstate[n] # "queued" => bstate'[n] = bstate[n] /\ bid'[n] = bid[n],
         \A n \in Messages : bstate[n] = "queued" => bstate'[n] # "rel",
         \A n \in Messages : n \in InFlight' /\ n \notin InFlight => \A k \in InFlight : bid[k] # bid'[n]
  PROVE  /\ \A w \in Seq(ToClientPacket) : ToClientInv(stage, w) => ToClientInv(stage, w)'
         /\ \A w \in Seq(ToBrokerPacket) : ToBrokerInv(stage, w) => ToBrokerInv(stage, w)'
         /\ \A m \in Messages : \A i : Owns(m, i) => Owns(m, i)'
<1>1. \A m \in Messages : \A i : Owns(m, i) => Owns(m, i)'
  BY DEF Owns, InFlight
<1>2. StageInv(stage)
  BY DEF SessionInv
<1>3. \A m \in Messages : \A i : Owns(m, i)' =>
        \/ Owns(m, i)
        \/ bstate[m] = "queued" /\ stage[m] = "none" /\ \A n \in Messages : ~Owns(n, i)
  BY <1>2 DEF Owns, InFlight, StageInv
<1>4. ASSUME NEW p \in ToClientPacket, PacketInv(stage, p) PROVE PacketInv(stage, p)'
  <2>1. p.m \in Messages
    BY DEF ToClientPacket
  <2> QED
    BY <1>1, <1>3, <1>4, <2>1 DEF PacketInv
<1>5. ASSUME NEW p \in ToBrokerPacket, AckInv(stage, p) PROVE AckInv(stage, p)'
  BY <1>1, <1>3, <1>5 DEF AckInv, Owns, InFlight
<1>6. ASSUME NEW p \in ToBrokerPacket, NEW q \in ToBrokerPacket, AckInv(stage, p), AckInv(stage, q), AcksInv(p, q)
      PROVE  AcksInv(p, q)'
  <2>1. ASSUME p.id = q.id, p.type = "PUBREC" \/ q.type = "PUBREC" PROVE \A m \in Messages : Owns(m, p.id)' => Owns(m, p.id)
    BY <1>3, <1>6, <2>1 DEF AckInv
  <2>2. \A m \in Messages : Owns(m, p.id) => bstate'[m] = bstate[m]
    BY DEF Owns, InFlight
  <2> QED
    BY <1>6, <2>1, <2>2 DEF AcksInv
<1>7. ASSUME NEW w \in Seq(ToClientPacket), ToClientInv(stage, w) PROVE ToClientInv(stage, w)'
  <2>1. \A k \in 1 .. Len(w) : w[k] \in ToClientPacket
    OBVIOUS
  <2>2. \A k \in 1 .. Len(w) : PacketInv(stage, w[k])'
    BY <1>4, <1>7, <2>1 DEF ToClientInv
  <2> QED
    BY <1>7, <2>2 DEF ToClientInv, PacketsInv
<1>8. ASSUME NEW w \in Seq(ToBrokerPacket), ToBrokerInv(stage, w) PROVE ToBrokerInv(stage, w)'
  <2>1. \A k \in 1 .. Len(w) : w[k] \in ToBrokerPacket
    OBVIOUS
  <2>2. \A k \in 1 .. Len(w) : AckInv(stage, w[k])'
    BY <1>5, <1>8, <2>1 DEF ToBrokerInv
  <2>3. \A k, l \in 1 .. Len(w) : k < l => AcksInv(w[k], w[l])'
    BY <1>6, <1>8, <2>1 DEF ToBrokerInv
  <2> QED
    BY <2>2, <2>3 DEF ToBrokerInv
<1> QED
  BY <1>1, <1>7, <1>8

\* The broker sends a message, for the first time or once more.
LEMMA SendStep ==
  ASSUME TypeInv, BrokerInv, TypeInv', NEW stage, SessionInv(stage), NEW m \in Messages,
         BrokerSends0(m) \/ BrokerSends(m) \/ BrokerRetransmits(m)
  PROVE  SessionInv(stage)'
<1>1. PICK i : i = IF QoSOf[m] = 0 THEN 0 ELSE IF bstate[m] = "queued" THEN Min(FreeIds) ELSE bid[m]
  OBVIOUS
<1>2. PICK p : p = Publish(m, i)
  OBVIOUS
<1>3. /\ bstate \in [Messages -> {"queued", "sent", "rel", "done"}] /\ bid \in [Messages -> 0 .. MaxId]
      /\ toClient \in Seq(ToClientPacket) /\ toBroker \in Seq(ToBrokerPacket)
      /\ resends \subseteq {n \in Messages : QoSOf[n] = 2} /\ QoSOf[m] \in 0 .. 2
  BY InboundAssumption DEF TypeInv
<1>4. /\ toClient' = Append(toClient, p) /\ conn = "up"
      /\ UNCHANGED <<conn, toBroker, unmatched, publishes, rl, queue, hand, appHeld, inflight2, pendingAck2, unack,
                     puts, fate, cut>>
  BY <1>1, <1>2, <1>3 DEF BrokerSends0, BrokerSends, BrokerRetransmits, MaySend, flow, buffer, app
<1>5. /\ \A n \in Messages \ {m} : bstate'[n] = bstate[n] /\ bid'[n] = bid[n]
      /\ \/ bstate[m] = "queued" /\ QoSOf[m] = 0 /\ bstate'[m] = "done" /\ bid'[m] = bid[m] /\ i = 0
         \/ /\ bstate[m] = "queued" /\ QoSOf[m] > 0 /\ bstate'[m] = "sent" /\ bid'[m] = i
            /\ i \in PacketId /\ \A n \in InFlight : bid[n] # i
         \/ /\ bstate[m] = "sent" /\ QoSOf[m] = 2 /\ bstate'[m] = "sent" /\ bid'[m] = bid[m] /\ i = bid[m]
  <2>1. CASE BrokerSends0(m)
    BY <1>1, <1>3, <2>1 DEF BrokerSends0, MaySend
  <2>2. CASE BrokerSends(m)
    <3>1. i = Min(FreeIds) /\ FreeIds # {}
      BY <1>1, <2>2 DEF BrokerSends, MaySend
    <3>2. i \in PacketId /\ \A n \in InFlight : bid[n] # i
      BY <3>1, FreeIdIsFree
    <3> QED
      BY <1>3, <2>2, <3>1, <3>2 DEF BrokerSends, MaySend
  <2>3. CASE BrokerRetransmits(m)
    BY <1>1, <1>3, <2>3 DEF BrokerRetransmits
  <2> QED
    BY <2>1, <2>2, <2>3
<1>6. StageInv(stage) /\ ToClientInv(stage, toClient) /\ ToBrokerInv(stage, toBroker) /\ stage \in [Messages -> Stages]
  BY DEF SessionInv
<1>7. /\ \A n \in Messages : bstate[n] # "queued" => bstate'[n] = bstate[n] /\ bid'[n] = bid[n]
      /\ \A n \in Messages : bstate[n] = "queued" => bstate'[n] # "rel"
      /\ \A n \in Messages : n \in InFlight' /\ n \notin InFlight => \A k \in InFlight : bid[k] # bid'[n]
  BY <1>5 DEF InFlight
<1>8. /\ \A w \in Seq(ToClientPacket) : ToClientInv(stage, w) => ToClientInv(stage, w)'
      /\ \A w \in Seq(ToBrokerPacket) : ToBrokerInv(stage, w) => ToBrokerInv(stage, w)'
      /\ \A n \in Messages : \A j : Owns(n, j) => Owns(n, j)'
  BY <1>7, BrokerTakesUp
<1>9. StageInv(stage)'
  <2> SUFFICES ASSUME NEW n \in Messages
               PROVE  /\ QoSOf[n] = 0 \/ bstate'[n] = "queued" => stage[n] = "none"
                      /\ stage[n] \in {"held", "rl", "queue", "hand", "app"} => bstate'[n] = "sent"
                      /\ stage[n] = "flight" => QoSOf[n] = 2 /\ bstate'[n] \in {"sent", "rel"}
                      /\ stage[n] = "over" /\ QoSOf[n] = 2 => bstate'[n] \in {"rel", "done"}
                      /\ bstate'[n] = "rel" => stage[n] \in {"flight", "over"}
                      /\ bstate'[n] = "done" /\ QoSOf[n] > 0 => stage[n] = "over"
    BY <1>4 DEF StageInv
  <2>1. CASE n # m
    BY <1>5, <1>6, <2>1 DEF StageInv
  <2>2. CASE n = m
    BY <1>3, <1>5, <1>6, <2>2 DEF StageInv
  <2> QED
    BY <2>1, <2>2
<1>10. PICK w, v : w = toClient /\ v = toBroker
  OBVIOUS
<1>11. ToBrokerInv(stage, toBroker)'
  <2>1. v = toBroker' /\ ToBrokerInv(stage, v)'
    BY <1>3, <1>4, <1>6, <1>8, <1>10
  <2> QED
    BY <2>1, PacketsThen
<1>12. ToClientInv(stage, toClient)'
  <2>1. ToClientInv(stage, w)' /\ w \in Seq(ToClientPacket)
    BY <1>3, <1>6, <1>8, <1>10
  <2>2. p.type = "PUBLISH" /\ p.m = m /\ p.id = i
    BY <1>2 DEF Publish
  <2>3. p \in ToClientPacket
    <3>1. toClient' \in Seq(ToClientPacket)
      BY DEF TypeInv
    <3>2. Len(toClient') = Len(toClient) + 1 /\ toClient'[Len(toClient) + 1] = p /\ Len(toClient) \in Nat
      BY <1>3, <1>4
    <3>3. Len(toClient) + 1 \in 1 .. Len(toClient')
      BY <3>2
    <3> QED
      BY <3>1, <3>2, <3>3
  <2>4. PacketInv(stage, p)'
    <3>1. QoSOf[m] > 0 => Owns(m, i)'
      BY <1>3, <1>5 DEF Owns, InFlight
    <3>2. QoSOf[m] > 0 => stage[m] # "over" /\ (QoSOf[m] = 1 => stage[m] = "none")
      BY <1>3, <1>5, <1>6 DEF StageInv
    <3> QED
      BY <2>2, <3>1, <3>2 DEF PacketInv
  <2>5. \A k \in 1 .. Len(w) : PacketsInv(w[k], p)'
    <3> SUFFICES ASSUME NEW k \in 1 .. Len(w), w[k].type = "PUBREL" PROVE w[k].m # m
      BY <2>2 DEF PacketsInv
    <3>1. bstate[w[k].m] \in {"rel", "done"}
      BY <1>6, <1>10 DEF ToClientInv, PacketInv
    <3> QED
      BY <1>5, <3>1
  <2>6. ToClientInv(stage, Append(w, p))'
    BY <2>1, <2>3, <2>4, <2>5, AppendPacket
  <2>7. PICK x : x = Append(w, p)
    OBVIOUS
  <2>8. x = toClient' /\ ToClientInv(stage, x)'
    BY <1>4, <1>10, <2>6, <2>7
  <2> QED
    BY <2>8, PacketsThen
<1>13. \A n \in Messages : stage[n] \in Places => bid'[n] = bid[n]
  BY <1>6, <1>7 DEF StageInv, Places
<1>14. /\ BufferedInv(stage)' /\ WaitingInv(stage)' /\ QueueInv(stage)' /\ HandInv(stage)' /\ AppInv(stage)'
       /\ FlightInv(stage)' /\ PendingInv(stage)' /\ QuotaInv(stage)' /\ PutsInv(stage)' /\ FateInv(stage)'
  BY <1>4, <1>8, <1>13, ClientKept
<1> QED
  BY <1>6, <1>9, <1>11, <1>12, <1>14 DEF SessionInv

\* The broker ends the exchanges an acknowledgement completes, or answers a PUBREC.
LEMMA ReceivesFacts ==
  ASSUME TypeInv, BrokerInv, BrokerReceives
  PROVE  \E p \in ToBrokerPacket :
           /\ toBroker # <<>> /\ toBroker[1] = p /\ toBroker' = Tail(toBroker)
           /\ \/ /\ toClient' = toClient /\ \A m \in InFlight : ~(p.type = "PUBREC" /\ bid[m] = p.id /\ QoSOf[m] = 2)
                 /\ \A m \in Messages : IF Completes(p, m) THEN bstate'[m] = "done" /\ bid'[m] = 0
                                                           ELSE bstate'[m] = bstate[m] /\ bid'[m] = bid[m]
              \/ \E r \in InFlight :
                   /\ p.type = "PUBREC" /\ bid[r] = p.id /\ QoSOf[r] = 2
                   /\ toClient' = Append(toClient, Pubrel(r, p.id))
                   /\ bstate'[r] = "rel" /\ \A m \in Messages : bid'[m] = bid[m] /\ (m # r => bstate'[m] = bstate[m])
<1> DEFINE p == Head(toBroker)
           ends == {m \in Messages : Completes(p, m)}
           rels == {m \in InFlight : p.type = "PUBREC" /\ bid[m] = p.id /\ QoSOf[m] = 2}
           r == CHOOSE m \in rels : TRUE
           sends == [i \in 1 .. Cardinality(rels) |-> Pubrel(CHOOSE m \in rels : TRUE, p.id)]
<1>1. /\ toBroker # <<>> /\ toBroker' = Tail(toBroker)
      /\ bstate' = [m \in Messages |-> IF m \in ends THEN "done" ELSE IF m \in rels THEN "rel" ELSE bstate[m]]
      /\ bid' = [m \in Messages |-> IF m \in ends THEN 0 ELSE bid[m]]
      /\ toClient' = toClient \o sends
  BY Zenon DEF BrokerReceives
<1>2. p \in ToBrokerPacket /\ toBroker[1] = p /\ toClient \in Seq(ToClientPacket)
  BY <1>1, TailAt DEF TypeInv
<1>3. \A m \in Messages : m \in ends <=> Completes(p, m)
  OBVIOUS
<1>4. \A m : m \in rels <=> m \in InFlight /\ p.type = "PUBREC" /\ bid[m] = p.id /\ QoSOf[m] = 2
  OBVIOUS
<1>5. rels # {} => r \in rels
  BY Zenon
<1>6. PICK y : y = Pubrel(r, p.id)
  OBVIOUS
<1>7. sends = [i \in 1 .. Cardinality(rels) |-> y]
  BY <1>6
<1> HIDE DEF p, ends, rels, r, sends
<1>8. CASE rels = {}
  <2>1. Cardinality(rels) = 0
    BY <1>8, FS_EmptySet
  <2>2. sends = <<>>
    BY <1>7, <2>1
  <2>3. toClient' = toClient
    BY <1>1, <1>2, <2>2
  <2>4. \A m \in Messages : IF Completes(p, m) THEN bstate'[m] = "done" /\ bid'[m] = 0
                                               ELSE bstate'[m] = bstate[m] /\ bid'[m] = bid[m]
    BY <1>1, <1>3, <1>8
  <2>5. \A m \in InFlight : ~(p.type = "PUBREC" /\ bid[m] = p.id /\ QoSOf[m] = 2)
    BY <1>4, <1>8
  <2> QED
    BY <1>1, <1>2, <2>3, <2>4, <2>5
<1>9. CASE rels # {}
  <2>1. r \in rels /\ r \in InFlight /\ p.type = "PUBREC" /\ bid[r] = p.id /\ QoSOf[r] = 2 /\ r \in Messages
    BY <1>4, <1>5, <1>9 DEF InFlight
  <2>2. rels = {r}
    BY <1>4, <2>1 DEF BrokerInv
  <2>3. Cardinality(rels) = 1
    BY <2>2, FS_Singleton
  <2>4. y \in ToClientPacket
    <3>1. p.id \in PacketId
      BY <1>2 DEF ToBrokerPacket
    <3> QED
      BY <1>6, <2>1, <3>1, InboundAssumption DEF Pubrel, ToClientPacket, PacketId
  <2>5. sends = <<y>>
    BY <1>7, <2>3
  <2>6. toClient' = Append(toClient, y)
    BY <1>1, <1>2, <2>4, <2>5
  <2>7. \A m \in Messages : m \notin ends
    BY <1>3, <2>1 DEF Completes
  <2>8. bstate'[r] = "rel" /\ \A m \in Messages : bid'[m] = bid[m] /\ (m # r => bstate'[m] = bstate[m])
    BY <1>1, <2>1, <2>2, <2>7
  <2> QED
    BY <1>1, <1>2, <1>6, <2>1, <2>6, <2>8
<1> QED
  BY <1>8, <1>9

\* A message the client is done with may end.
LEMMA EndsKeepsPackets ==
  ASSUME TypeInv, BrokerInv, NEW stage, SessionInv(stage), NEW D \in SUBSET InFlight, \A m \in D : stage[m] = "over",
         conn' = conn,
         \A m \in Messages : IF m \in D THEN bstate'[m] = "done" /\ bid'[m] = 0
                                        ELSE bstate'[m] = bstate[m] /\ bid'[m] = bid[m],
         NEW v \in Seq(ToBrokerPacket), ToBrokerInv(stage, v),
         \A k \in 1 .. Len(v) : v[k].type # "PUBCOMP" => \A m \in D : bid[m] # v[k].id
  PROVE  /\ \A w \in Seq(ToClientPacket) : ToClientInv(stage, w) => ToClientInv(stage, w)'
         /\ ToBrokerInv(stage, v)' /\ StageInv(stage)'
         /\ \A m \in Messages : stage[m] \in Places => bid'[m] = bid[m]
         /\ \A m \in Messages : \A i : Owns(m, i) /\ stage[m] # "over" => Owns(m, i)'
<1>1. \A m \in Messages : \A i : Owns(m, i)' <=> Owns(m, i) /\ m \notin D
  BY DEF Owns, InFlight
<1>2. StageInv(stage) /\ D \subseteq Messages
  BY DEF SessionInv, InFlight
<1>3. ASSUME NEW p \in ToClientPacket, PacketInv(stage, p) PROVE PacketInv(stage, p)'
  <2>1. p.m \in Messages
    BY DEF ToClientPacket
  <2>2. p.type = "PUBLISH" /\ QoSOf[p.m] > 0 =>
          /\ Owns(p.m, p.id)' /\ stage[p.m] # "over"
          /\ QoSOf[p.m] = 1 => stage[p.m] = "none"
    BY <1>1, <1>3, <2>1 DEF PacketInv
  <2>3. ASSUME p.type = "PUBREL"
        PROVE  /\ QoSOf[p.m] = 2
               /\ \/ bstate'[p.m] = "rel" /\ bid'[p.m] = p.id
                  \/ bstate'[p.m] = "done" /\ \A n \in Messages : Owns(n, p.id)' => stage[n] = "none"
    <3>1. CASE bstate[p.m] = "rel" /\ bid[p.m] = p.id /\ p.m \in D
      <4>1. Owns(p.m, p.id)
        BY <2>1, <3>1 DEF Owns, InFlight
      <4>2. \A n \in Messages : ~Owns(n, p.id)'
        BY <1>1, <2>1, <3>1, <4>1, OwnerIsOne
      <4> QED
        BY <1>3, <2>1, <2>3, <3>1, <4>2 DEF PacketInv
    <3>2. CASE bstate[p.m] = "rel" /\ bid[p.m] = p.id /\ p.m \notin D
      BY <1>3, <2>1, <2>3, <3>2 DEF PacketInv
    <3>3. CASE bstate[p.m] = "done" /\ \A n \in Messages : Owns(n, p.id) => stage[n] = "none"
      BY <1>1, <1>3, <2>1, <2>3, <3>3 DEF PacketInv
    <3> QED
      BY <1>3, <2>3, <3>1, <3>2, <3>3 DEF PacketInv
  <2> QED
    BY <2>2, <2>3 DEF PacketInv
<1>4. ASSUME NEW w \in Seq(ToClientPacket), ToClientInv(stage, w) PROVE ToClientInv(stage, w)'
  <2>1. \A k \in 1 .. Len(w) : w[k] \in ToClientPacket
    OBVIOUS
  <2>2. \A k \in 1 .. Len(w) : PacketInv(stage, w[k])'
    BY <1>3, <1>4, <2>1 DEF ToClientInv
  <2> QED
    BY <1>4, <2>2 DEF ToClientInv, PacketsInv
<1>5. ASSUME NEW k \in 1 .. Len(v) PROVE AckInv(stage, v[k])'
  <2>1. AckInv(stage, v[k])
    BY DEF ToBrokerInv
  <2>2. v[k].type # "PUBCOMP" => \A m \in Messages : Owns(m, v[k].id) => Owns(m, v[k].id)'
    BY <1>1 DEF Owns
  <2>3. \A m \in Messages : Owns(m, v[k].id)' => Owns(m, v[k].id) /\ bstate'[m] = bstate[m]
    BY <1>1
  <2> QED
    BY <2>1, <2>2, <2>3 DEF AckInv
<1>6. ASSUME NEW k \in 1 .. Len(v), NEW l \in 1 .. Len(v), k < l PROVE AcksInv(v[k], v[l])'
  <2>1. AcksInv(v[k], v[l])
    BY <1>6 DEF ToBrokerInv
  <2>2. \A m \in Messages : Owns(m, v[k].id)' => Owns(m, v[k].id) /\ bstate'[m] = bstate[m]
    BY <1>1
  <2> QED
    BY <2>1, <2>2 DEF AcksInv
<1>7. ToBrokerInv(stage, v)'
  BY <1>5, <1>6 DEF ToBrokerInv
<1>8. StageInv(stage)'
  <2> SUFFICES ASSUME NEW n \in Messages
               PROVE  /\ QoSOf[n] = 0 \/ bstate'[n] = "queued" => stage[n] = "none"
                      /\ stage[n] \in {"held", "rl", "queue", "hand", "app"} => bstate'[n] = "sent"
                      /\ stage[n] = "flight" => QoSOf[n] = 2 /\ bstate'[n] \in {"sent", "rel"}
                      /\ stage[n] = "over" /\ QoSOf[n] = 2 => bstate'[n] \in {"rel", "done"}
                      /\ bstate'[n] = "rel" => stage[n] \in {"flight", "over"}
                      /\ bstate'[n] = "done" /\ QoSOf[n] > 0 => stage[n] = "over"
                      /\ conn' # "up" /\ bstate'[n] = "sent" => stage[n] = "none"
    BY DEF StageInv
  <2>1. CASE n \in D
    BY <1>2, <2>1 DEF StageInv
  <2>2. CASE n \notin D
    BY <1>2, <2>2 DEF StageInv
  <2> QED
    BY <2>1, <2>2
<1>9. \A m \in Messages : stage[m] \in Places => bid'[m] = bid[m]
  BY DEF Places
<1> QED
  BY <1>1, <1>4, <1>7, <1>8, <1>9

\* The acknowledgement the broker takes, and the ones behind it.
LEMMA ReceiveKeepsAcks ==
  ASSUME NEW stage, NEW w \in Seq(ToBrokerPacket), w # <<>>, ToBrokerInv(stage, w)
  PROVE  /\ ToBrokerInv(stage, Tail(w)) /\ AckInv(stage, w[1]) /\ Tail(w) \in Seq(ToBrokerPacket)
         /\ \A k \in 1 .. Len(Tail(w)) : AcksInv(w[1], Tail(w)[k])
<1>1. /\ Len(Tail(w)) = Len(w) - 1 /\ Len(w) \in Nat \ {0} /\ Tail(w) \in Seq(ToBrokerPacket)
      /\ \A i \in 1 .. Len(w) - 1 : Tail(w)[i] = w[i + 1]
  BY TailAt
<1> DEFINE v == Tail(w)
<1>2. \A k \in 1 .. Len(v) : k + 1 \in 1 .. Len(w) /\ 1 < k + 1 /\ v[k] = w[k + 1]
  BY <1>1
<1>3. 1 \in 1 .. Len(w)
  BY <1>1
<1> HIDE DEF v
<1>4. \A k \in 1 .. Len(v) : AckInv(stage, v[k])
  BY <1>2 DEF ToBrokerInv
<1>5. \A k, l \in 1 .. Len(v) : k < l => AcksInv(v[k], v[l])
  <2> SUFFICES ASSUME NEW k \in 1 .. Len(v), NEW l \in 1 .. Len(v), k < l PROVE AcksInv(v[k], v[l])
    OBVIOUS
  <2>1. k + 1 < l + 1
    OBVIOUS
  <2> QED
    BY <1>2, <2>1 DEF ToBrokerInv
<1>6. \A k \in 1 .. Len(v) : AcksInv(w[1], v[k])
  BY <1>2, <1>3 DEF ToBrokerInv
<1>7. AckInv(stage, w[1])
  BY <1>3 DEF ToBrokerInv
<1>8. ToBrokerInv(stage, v)
  BY <1>4, <1>5 DEF ToBrokerInv
<1> QED
  BY <1>1, <1>6, <1>7, <1>8 DEF v

\* The broker takes an acknowledgement.
LEMMA ReceiveStep ==
  ASSUME TypeInv, BrokerInv, NEW stage, SessionInv(stage), BrokerReceives
  PROVE  SessionInv(stage)'
<1>1. /\ UNCHANGED <<conn, unmatched, publishes, rl, queue, hand, appHeld, inflight2, pendingAck2, unack,
                     puts, fate, cut>>
      /\ conn = "up"
  BY Zenon DEF BrokerReceives, flow, buffer, app
<1>2. /\ StageInv(stage) /\ ToClientInv(stage, toClient) /\ ToBrokerInv(stage, toBroker) /\ stage \in [Messages -> Stages]
      /\ toClient \in Seq(ToClientPacket) /\ toBroker \in Seq(ToBrokerPacket)
  BY DEF SessionInv, TypeInv
<1>3. PICK p \in ToBrokerPacket :
        /\ toBroker # <<>> /\ toBroker[1] = p /\ toBroker' = Tail(toBroker)
        /\ \/ /\ toClient' = toClient /\ \A m \in InFlight : ~(p.type = "PUBREC" /\ bid[m] = p.id /\ QoSOf[m] = 2)
              /\ \A m \in Messages : IF Completes(p, m) THEN bstate'[m] = "done" /\ bid'[m] = 0
                                                        ELSE bstate'[m] = bstate[m] /\ bid'[m] = bid[m]
           \/ \E r \in InFlight :
                /\ p.type = "PUBREC" /\ bid[r] = p.id /\ QoSOf[r] = 2
                /\ toClient' = Append(toClient, Pubrel(r, p.id))
                /\ bstate'[r] = "rel" /\ \A m \in Messages : bid'[m] = bid[m] /\ (m # r => bstate'[m] = bstate[m])
  BY ReceivesFacts
<1>4. PICK v, w : v = Tail(toBroker) /\ w = toClient
  OBVIOUS
<1>5. /\ ToBrokerInv(stage, v) /\ AckInv(stage, p) /\ v \in Seq(ToBrokerPacket)
      /\ \A k \in 1 .. Len(v) : AcksInv(p, v[k])
  BY <1>2, <1>3, <1>4, ReceiveKeepsAcks
<1>6. p.type \in {"PUBACK", "PUBREC", "PUBCOMP"} /\ p.id \in PacketId
  BY DEF ToBrokerPacket
<1>7. CASE /\ toClient' = toClient /\ \A m \in InFlight : ~(p.type = "PUBREC" /\ bid[m] = p.id /\ QoSOf[m] = 2)
           /\ \A m \in Messages : IF Completes(p, m) THEN bstate'[m] = "done" /\ bid'[m] = 0
                                                     ELSE bstate'[m] = bstate[m] /\ bid'[m] = bid[m]
  <2>1. PICK D : D = {m \in Messages : Completes(p, m)}
    OBVIOUS
  <2>2. /\ \A m \in Messages : m \in D <=> Completes(p, m)
        /\ D \in SUBSET InFlight /\ \A m \in D : Owns(m, p.id) /\ m \in Messages
    BY <2>1 DEF Completes, Owns
  <2>3. \A m \in D : stage[m] = "over"
    <3> SUFFICES ASSUME NEW m \in D PROVE stage[m] = "over"
      OBVIOUS
    <3>1. CASE p.type = "PUBACK"
      BY <1>5, <2>2, <3>1, OwnerIsOne DEF AckInv
    <3>2. CASE p.type = "PUBCOMP" /\ bstate[m] = "rel"
      BY <1>5, <2>2, <3>2 DEF AckInv
    <3> QED
      BY <2>2, <3>1, <3>2 DEF Completes
  <2>4. ASSUME NEW k \in 1 .. Len(v), v[k].type # "PUBCOMP", NEW m \in D, bid[m] = v[k].id PROVE FALSE
    <3>1. AcksInv(p, v[k]) /\ AckInv(stage, v[k]) /\ v[k] \in ToBrokerPacket
      BY <1>5 DEF ToBrokerInv
    <3>2. v[k].type \in {"PUBACK", "PUBREC"} /\ v[k].id = p.id
      BY <2>2, <2>4, <3>1 DEF ToBrokerPacket, Owns
    <3>3. Owns(m, p.id) /\ m \in Messages /\ Completes(p, m)
      BY <2>2
    <3>4. CASE p.type = "PUBACK" /\ QoSOf[m] = 1
      <4>1. v[k].type = "PUBREC"
        BY <3>1, <3>2, <3>4 DEF AcksInv
      <4>2. PICK n \in Messages : Owns(n, p.id) /\ QoSOf[n] = 2
        BY <3>1, <3>2, <4>1 DEF AckInv
      <4> QED
        BY <3>3, <3>4, <4>2, OwnerIsOne
    <3>5. CASE p.type = "PUBCOMP" /\ bstate[m] = "rel"
      <4>1. v[k].type = "PUBACK"
        BY <3>1, <3>2, <3>3, <3>5 DEF AcksInv
      <4>2. PICK n \in Messages : Owns(n, p.id) /\ QoSOf[n] = 1
        BY <3>1, <3>2, <4>1 DEF AckInv
      <4>3. QoSOf[m] = 2
        BY <3>3, <3>5 DEF BrokerInv
      <4> QED
        BY <3>3, <4>2, <4>3, OwnerIsOne
    <3> QED
      BY <3>3, <3>4, <3>5 DEF Completes
  <2>5. \A m \in Messages : IF m \in D THEN bstate'[m] = "done" /\ bid'[m] = 0
                                       ELSE bstate'[m] = bstate[m] /\ bid'[m] = bid[m]
    BY <1>7, <2>2
  <2>6. conn' = conn /\ \A k \in 1 .. Len(v) : v[k].type # "PUBCOMP" => \A m \in D : bid[m] # v[k].id
    BY <1>1, <2>4
  <2>7. /\ \A x \in Seq(ToClientPacket) : ToClientInv(stage, x) => ToClientInv(stage, x)'
        /\ ToBrokerInv(stage, v)' /\ StageInv(stage)'
        /\ \A m \in Messages : stage[m] \in Places => bid'[m] = bid[m]
        /\ \A m \in Messages : \A i : Owns(m, i) /\ stage[m] # "over" => Owns(m, i)'
    BY <1>5, <2>2, <2>3, <2>5, <2>6, EndsKeepsPackets
  <2>8. v = toBroker' /\ w = toClient' /\ ToClientInv(stage, w)'
    BY <1>2, <1>3, <1>4, <1>7, <2>7
  <2>9. ToClientInv(stage, toClient)' /\ ToBrokerInv(stage, toBroker)'
    BY <2>7, <2>8, PacketsThen
  <2>10. /\ BufferedInv(stage)' /\ WaitingInv(stage)' /\ QueueInv(stage)' /\ HandInv(stage)' /\ AppInv(stage)'
         /\ FlightInv(stage)' /\ PendingInv(stage)' /\ QuotaInv(stage)' /\ PutsInv(stage)' /\ FateInv(stage)'
    BY <1>1, <2>7, ClientKept
  <2> QED
    BY <1>2, <2>7, <2>9, <2>10 DEF SessionInv
<1>8. ASSUME NEW r \in InFlight, p.type = "PUBREC", bid[r] = p.id, QoSOf[r] = 2,
             toClient' = Append(toClient, Pubrel(r, p.id)), bstate'[r] = "rel",
             \A m \in Messages : bid'[m] = bid[m] /\ (m # r => bstate'[m] = bstate[m])
      PROVE  SessionInv(stage)'
  <2>1. Owns(r, p.id) /\ r \in Messages
    BY <1>8 DEF Owns, InFlight
  <2>2. stage[r] \in {"flight", "over"}
    BY <1>5, <1>8, <2>1, OwnerIsOne DEF AckInv
  <2>3. \A m \in Messages : \A i : Owns(m, i)' <=> Owns(m, i)
    BY <1>8, <2>1 DEF Owns, InFlight
  <2>4. StageInv(stage)'
    <3> SUFFICES ASSUME NEW n \in Messages
                 PROVE  /\ QoSOf[n] = 0 \/ bstate'[n] = "queued" => stage[n] = "none"
                        /\ stage[n] \in {"held", "rl", "queue", "hand", "app"} => bstate'[n] = "sent"
                        /\ stage[n] = "flight" => QoSOf[n] = 2 /\ bstate'[n] \in {"sent", "rel"}
                        /\ stage[n] = "over" /\ QoSOf[n] = 2 => bstate'[n] \in {"rel", "done"}
                        /\ bstate'[n] = "rel" => stage[n] \in {"flight", "over"}
                        /\ bstate'[n] = "done" /\ QoSOf[n] > 0 => stage[n] = "over"
      BY <1>1 DEF StageInv
    <3>1. CASE n # r
      BY <1>2, <1>8, <3>1 DEF StageInv
    <3>2. CASE n = r
      BY <1>8, <2>2, <3>2
    <3> QED
      BY <3>1, <3>2
  <2>5. ASSUME NEW q \in ToClientPacket, PacketInv(stage, q) PROVE PacketInv(stage, q)'
    <3>1. q.m \in Messages
      BY DEF ToClientPacket
    <3>2. bstate[q.m] \in {"rel", "done"} => bstate'[q.m] = bstate[q.m]
      <4>1. bstate[r] \in {"sent", "rel"}
        BY DEF InFlight
      <4> QED
        BY <1>8, <3>1, <4>1
    <3> QED
      BY <1>8, <2>3, <2>5, <3>1, <3>2 DEF PacketInv
  <2>6. PICK q : q = Pubrel(r, p.id)
    OBVIOUS
  <2>7. q \in ToClientPacket /\ q.type = "PUBREL" /\ q.m = r /\ q.id = p.id
    BY <1>6, <2>1, <2>6, InboundAssumption DEF Pubrel, ToClientPacket, PacketId
  <2>8. ToClientInv(stage, w)' /\ w \in Seq(ToClientPacket)
    <3>1. \A k \in 1 .. Len(w) : w[k] \in ToClientPacket
      BY <1>2, <1>4
    <3>2. \A k \in 1 .. Len(w) : PacketInv(stage, w[k])'
      BY <1>2, <1>4, <2>5, <3>1 DEF ToClientInv
    <3> QED
      BY <1>2, <1>4, <3>2 DEF ToClientInv, PacketsInv
  <2>9. PacketInv(stage, q)'
    BY <1>8, <2>1, <2>7 DEF PacketInv
  <2>10. \A k \in 1 .. Len(w) : PacketsInv(w[k], q)'
    <3> SUFFICES ASSUME NEW k \in 1 .. Len(w), w[k].type = "PUBLISH", w[k].id = p.id PROVE w[k].m = r
      BY <2>7 DEF PacketsInv
    <3>1. w[k] \in ToClientPacket /\ PacketInv(stage, w[k])
      BY <1>2, <1>4 DEF ToClientInv
    <3>2. QoSOf[w[k].m] > 0 /\ w[k].m \in Messages
      BY <1>6, <3>1, InboundAssumption DEF ToClientPacket, PacketId
    <3> QED
      BY <2>1, <3>1, <3>2, OwnerIsOne DEF PacketInv
  <2>11. ToClientInv(stage, toClient)'
    <3>1. ToClientInv(stage, Append(w, q))'
      BY <2>7, <2>8, <2>9, <2>10, AppendPacket
    <3>2. PICK x : x = Append(w, q)
      OBVIOUS
    <3>3. x = toClient' /\ ToClientInv(stage, x)'
      BY <1>4, <1>8, <2>6, <3>1, <3>2
    <3> QED
      BY <3>3, PacketsThen
  <2>12. ASSUME NEW k \in 1 .. Len(v) PROVE AckInv(stage, v[k])'
    <3>1. AckInv(stage, v[k]) /\ AcksInv(p, v[k])
      BY <1>5 DEF ToBrokerInv
    <3>2. ASSUME v[k].type = "PUBCOMP", NEW m \in Messages, Owns(m, v[k].id), bstate'[m] = "rel" PROVE stage[m] = "over"
      <4>1. CASE m = r
        <5>1. v[k].id = p.id
          BY <1>8, <3>2, <4>1 DEF Owns
        <5>2. bstate[r] = "rel"
          BY <1>8, <2>1, <3>1, <3>2, <5>1 DEF AcksInv
        <5> QED
          BY <3>1, <3>2, <4>1, <5>2 DEF AckInv
      <4>2. CASE m # r
        BY <1>8, <3>1, <3>2, <4>2 DEF AckInv
      <4> QED
        BY <4>1, <4>2
    <3> QED
      BY <2>3, <3>1, <3>2 DEF AckInv
  <2>13. ASSUME NEW k \in 1 .. Len(v), NEW l \in 1 .. Len(v), k < l PROVE AcksInv(v[k], v[l])'
    <3>1. AcksInv(v[k], v[l]) /\ AcksInv(p, v[k])
      BY <1>5, <2>13 DEF ToBrokerInv
    <3>2. ASSUME v[k].id = v[l].id, v[k].type = "PUBREC", v[l].type = "PUBCOMP", NEW m \in Messages, Owns(m, v[k].id)
          PROVE  bstate'[m] = "rel"
      BY <1>8, <3>1, <3>2 DEF AcksInv
    <3>3. ASSUME v[k].id = v[l].id, v[k].type = "PUBCOMP", v[l].type = "PUBREC", NEW m \in Messages, Owns(m, v[k].id)
          PROVE  bstate'[m] = "sent"
      <4>1. bstate[m] = "sent"
        BY <3>1, <3>3 DEF AcksInv
      <4>2. m # r
        <5> SUFFICES ASSUME m = r PROVE FALSE
          OBVIOUS
        <5>1. p.id = v[k].id
          BY <1>8, <3>3 DEF Owns
        <5>2. bstate[m] = "rel"
          BY <1>8, <3>1, <3>3, <5>1 DEF AcksInv
        <5> QED
          BY <4>1, <5>2
      <4> QED
        BY <1>8, <4>1, <4>2
    <3> QED
      BY <2>3, <3>1, <3>2, <3>3 DEF AcksInv
  <2>14. ToBrokerInv(stage, toBroker)'
    <3>1. v = toBroker' /\ ToBrokerInv(stage, v)'
      BY <1>3, <1>4, <2>12, <2>13 DEF ToBrokerInv
    <3> QED
      BY <3>1, PacketsThen
  <2>15. /\ BufferedInv(stage)' /\ WaitingInv(stage)' /\ QueueInv(stage)' /\ HandInv(stage)' /\ AppInv(stage)'
         /\ FlightInv(stage)' /\ PendingInv(stage)' /\ QuotaInv(stage)' /\ PutsInv(stage)' /\ FateInv(stage)'
    BY <1>1, <1>8, <2>3, ClientKept
  <2> QED
    BY <1>2, <2>4, <2>11, <2>14, <2>15 DEF SessionInv
<1> QED
  BY <1>3, <1>7, <1>8

\* The end of run() forgets what the client had; what is released or done is over.
LEMMA ResetStep ==
  ASSUME TypeInv, BrokerInv, NEW stage, SessionInv(stage), Reset, conn' # "up", UNCHANGED <<bstate, bid>>
  PROVE  \E s : SessionInv(s)'
<1>1. PICK s : s = [n \in Messages |-> IF QoSOf[n] > 0 /\ bstate[n] \in {"rel", "done"} THEN "over" ELSE "none"]
  OBVIOUS
<1>2. /\ s \in [Messages -> Stages]
      /\ \A n \in Messages : IF QoSOf[n] > 0 /\ bstate[n] \in {"rel", "done"} THEN s[n] = "over" ELSE s[n] = "none"
  BY <1>1 DEF Stages
<1>3. \A n \in Messages : s[n] \in {"over", "none"} /\ QoSOf[n] \in 0 .. 2
  BY <1>2, InboundAssumption
<1>4. /\ toClient' = <<>> /\ toBroker' = <<>> /\ rl' = NoEntry /\ publishes' = <<>> /\ unmatched' = <<>>
      /\ inflight2' = [i \in PacketId |-> NoFlight] /\ unack' = {} /\ appHeld' = {}
      /\ hand' = [t \in Subscribed |-> Nothing] /\ puts' = [m \in Messages |-> 0] /\ fate' = fate
      /\ cut' = cut \cup {inflight2[i].m : i \in {j \in PacketId : inflight2[j].put}}
                    \cup {m \in Messages : m = rl.m /\ AutoAcked(m) /\ QoSOf[m] = 2}
  BY DEF Reset
<1>5. StageInv(stage) /\ FlightInv(stage) /\ FateInv(stage)
  BY DEF SessionInv
<1>6. StageInv(s)'
  <2>1. \A n \in Messages : bstate[n] = "rel" => QoSOf[n] > 0
    BY <1>3 DEF BrokerInv
  <2> QED
    BY <1>2, <1>3, <2>1 DEF StageInv
<1>7. ToClientInv(s, toClient)' /\ ToBrokerInv(s, toBroker)'
  BY <1>4 DEF ToClientInv, ToBrokerInv
<1>8. BufferedInv(s)'
  <2>1. Buffered' = {}
    <3>1. ToSet(<<>>) = {}
      BY DEF ToSet, Range
    <3> QED
      BY <1>4, <3>1 DEF Buffered
  <2> QED
    BY <1>3, <2>1 DEF BufferedInv
<1>9. WaitingInv(s)'
  BY <1>4 DEF WaitingInv
<1>10. QueueInv(s)'
  <2>1. DownInv' /\ conn' # "up"
    BY ResetDown
  <2>2. \A t \in Subscribed : \A k \in 1 .. Len(queue'[t]) : queue'[t][k].ack = 0
    BY <2>1 DEF DownInv
  <2> QED
    BY <2>2 DEF QueueInv, ItemInv
<1>11. HandInv(s)' /\ AppInv(s)'
  BY <1>4 DEF HandInv, AppInv, ItemInv, Nothing
<1>12. FlightInv(s)' /\ PendingInv(s)' /\ QuotaInv(s)'
  BY <1>3, <1>4 DEF FlightInv, PendingInv, QuotaInv
<1>13. PutsInv(s)'
  BY <1>4 DEF PutsInv
<1>14. ASSUME NEW n \in Messages, s[n] = "over" PROVE Handled(n)'
  <2>1. QoSOf[n] > 0 /\ bstate[n] \in {"rel", "done"}
    BY <1>2, <1>14
  <2>2. stage[n] \in {"flight", "over"}
    BY <1>5, <2>1 DEF StageInv
  <2>3. CASE Handled(n)
    BY <1>4, <2>3 DEF Handled
  <2>4. CASE stage[n] = "flight" /\ inflight2[bid[n]].put
    <3>1. bid[n] \in PacketId /\ QoSOf[n] = 2
      BY <1>5, <2>4, StagedOwns DEF StageInv
    <3>2. inflight2[bid[n]].m = n /\ inflight2[bid[n]] # NoFlight
      BY <1>5, <2>4, InboundAssumption DEF FlightInv, NoFlight
    <3>3. AutoAcked(n)
      BY <1>5, <2>4, <3>1, <3>2 DEF FlightInv
    <3>4. n \in cut'
      BY <1>4, <2>4, <3>1, <3>2
    <3> QED
      BY <3>1, <3>3, <3>4 DEF Handled
  <2>5. CASE stage[n] = "flight" /\ ~inflight2[bid[n]].put
    <3>1. "dropped" \in fate[n] \/ (~AutoAcked(n) /\ "acked" \in fate[n])
      BY <1>5, <2>5 DEF FateInv
    <3> QED
      BY <1>4, <3>1 DEF Handled
  <2> QED
    BY <1>5, <2>2, <2>3, <2>4, <2>5 DEF FateInv
<1>15. FateInv(s)'
  BY <1>3, <1>14 DEF FateInv
<1>16. SessionInv(s)'
  BY <1>2, <1>6, <1>7, <1>8, <1>9, <1>10, <1>11, <1>12, <1>13, <1>15 DEF SessionInv
<1> QED
  BY <1>16

\* The broker resends what it has in flight on the next connection.
LEMMA ReconnectStep ==
  ASSUME TypeInv, BrokerInv, NEW stage, SessionInv(stage), Reconnect
  PROVE  SessionInv(stage)'
<1>1. /\ conn = "down" /\ conn' = "up"
      /\ toClient' = [i \in 1 .. Cardinality(InFlight) |-> Resend(InOrder(InFlight)[i])]
      /\ UNCHANGED <<bstate, bid, toBroker, unmatched, publishes, rl, queue, hand, appHeld, inflight2, pendingAck2,
                     unack, puts, fate, cut>>
  BY DEF Reconnect, broker, flow, app
<1>2. StageInv(stage) /\ ToBrokerInv(stage, toBroker) /\ QuotaInv(stage) /\ stage \in [Messages -> Stages]
  BY DEF SessionInv
<1>3. /\ BufferedInv(stage)' /\ WaitingInv(stage)' /\ QueueInv(stage)' /\ HandInv(stage)' /\ AppInv(stage)'
      /\ FlightInv(stage)' /\ PendingInv(stage)' /\ PutsInv(stage)' /\ FateInv(stage)'
  BY <1>1, StillThere
<1>4. StageInv(stage)' /\ QuotaInv(stage)'
  BY <1>1, <1>2, BrokerSame DEF StageInv, QuotaInv
<1>5. ToBrokerInv(stage, toBroker)'
  BY <1>1, <1>2, BrokerSame
<1>6. PICK N, f : N = Cardinality(InFlight) /\ f = InOrder(InFlight)
  OBVIOUS
<1>7. N \in Nat /\ f \in [1 .. N -> InFlight] /\ \A i, j \in 1 .. N : i < j => f[i] < f[j]
  <2>1. InFlight \in SUBSET Nat /\ IsFiniteSet(InFlight)
    BY InboundAssumption DEF InFlight, BrokerInv
  <2> QED
    BY <1>6, <2>1, InOrderFacts
<1>8. PICK w : w = toClient'
  OBVIOUS
<1>9. w = [i \in 1 .. N |-> Resend(f[i])]
  BY <1>1, <1>6, <1>8
<1>10. Len(w) = N /\ \A k \in 1 .. N : w[k] = Resend(f[k])
  BY <1>7, <1>9
<1>11. ASSUME NEW k \in 1 .. N
       PROVE  /\ f[k] \in Messages /\ Owns(f[k], bid[f[k]]) /\ w[k].m = f[k] /\ w[k].id = bid[f[k]] /\ QoSOf[f[k]] > 0
              /\ IF bstate[f[k]] = "sent" THEN w[k].type = "PUBLISH" ELSE w[k].type = "PUBREL" /\ bstate[f[k]] = "rel"
  <2>1. f[k] \in InFlight
    BY <1>7
  <2>2. f[k] \in Messages /\ Owns(f[k], bid[f[k]]) /\ bstate[f[k]] \in {"sent", "rel"} /\ QoSOf[f[k]] \in 1 .. 2
    BY <2>1, IdTypes DEF InFlight, Owns
  <2>3. w[k] = Resend(f[k])
    BY <1>10
  <2> QED
    BY <2>2, <2>3 DEF Resend, Publish, Pubrel
<1>12. ASSUME NEW k \in 1 .. N PROVE PacketInv(stage, w[k])
  <2>1. bstate[f[k]] = "sent" => stage[f[k]] = "none"
    BY <1>1, <1>2, <1>11 DEF StageInv
  <2>2. bstate[f[k]] = "rel" => QoSOf[f[k]] = 2
    BY <1>11 DEF BrokerInv
  <2> QED
    BY <1>11, <2>1, <2>2 DEF PacketInv
<1>13. ASSUME NEW k \in 1 .. N, NEW l \in 1 .. N, k < l PROVE PacketsInv(w[k], w[l])
  <2>1. f[k] < f[l] /\ f[k] \in Nat
    BY <1>7, <1>11, <1>13, InboundAssumption
  <2>2. w[k].m # w[l].m
    BY <1>11, <2>1
  <2>3. w[k].id # w[l].id
    <3>1. w[k].id = w[l].id => Owns(f[l], bid[f[k]])
      BY <1>11
    <3> QED
      BY <1>11, <2>2, <3>1, OwnerIsOne
  <2> QED
    BY <2>2, <2>3 DEF PacketsInv
<1>14. ToClientInv(stage, w)
  BY <1>10, <1>12, <1>13 DEF ToClientInv
<1>15. ToClientInv(stage, toClient)'
  BY <1>1, <1>8, <1>14, BrokerSame
<1> QED
  BY <1>2, <1>3, <1>4, <1>5, <1>15 DEF SessionInv

\* The units of the Receive Maximum are identifiers of the broker's session, so they never
\* exceed it.
LEMMA QuotaIsEnough ==
  ASSUME TypeInv, BrokerInv, NEW stage, SessionInv(stage), NEW e \in Read, Reads(e, "PUBLISH")
  PROVE  ~OverQuota(e)
<1> DEFINE T == {bid[m] : m \in InFlight}
           f == [m \in InFlight |-> bid[m]]
<1>1. Quota(e) \subseteq T
  <2>1. unack \subseteq T
    BY DEF SessionInv, QuotaInv, Owns
  <2>2. QoSOf[e.m] # 0 => e.id \in T
    <3>1. QoSOf[e.m] \in 0 .. 2
      BY InboundAssumption DEF Read
    <3> QED
      BY <3>1, ReadOwner DEF Owns
  <2> QED
    BY <2>1, <2>2 DEF Quota
<1>2. f \in Surjection(InFlight, T)
  BY DEF Surjection
<1>3. IsFiniteSet(InFlight) /\ (ReceiveMaximum # 0 => Cardinality(InFlight) <= ReceiveMaximum)
  BY DEF BrokerInv
<1> HIDE DEF f, T
<1>4. IsFiniteSet(T) /\ Cardinality(T) <= Cardinality(InFlight)
  BY <1>2, <1>3, FS_Surjection
<1>5. IsFiniteSet(Quota(e)) /\ Cardinality(Quota(e)) <= Cardinality(T)
  BY <1>1, <1>4, FS_Subset
<1>6. Cardinality(Quota(e)) \in Nat /\ Cardinality(T) \in Nat /\ Cardinality(InFlight) \in Nat
  BY <1>3, <1>4, <1>5, FS_CardinalityType
<1> QED
  BY <1>3, <1>4, <1>5, <1>6, InboundAssumption DEF OverQuota

-----------------------------------------------------------------------------
(* The tasks that drain.                                                   *)

\* What a pass sends is held and has to be acknowledged by the application, and what it
\* stops at is held and acknowledged at once; a message is in one part of a pass only.
LEMMA PassStages ==
  ASSUME TypeInv, HeldInv, NEW stage, BufferedInv(stage)
  PROVE  /\ \A e \in Pass.sent : /\ e \in Entry /\ e.m \in Messages /\ TopicOf[e.m] \in Subscribed
                                 /\ QoSOf[e.m] > 0 => stage[e.m] = "held" /\ e.id = bid[e.m] /\ ~AutoAcked(e.m)
         /\ Pass.stop # NoEntry =>
              /\ Pass.stop \in Entry /\ Pass.stop.m \in Messages /\ TopicOf[Pass.stop.m] \in Subscribed
              /\ QoSOf[Pass.stop.m] \in 1 .. 2 /\ AutoAcked(Pass.stop.m)
              /\ stage[Pass.stop.m] = "held" /\ Pass.stop.id = bid[Pass.stop.m]
         /\ \A e \in ToSet(Pass.back) \cup ToSet(Pass.rest) :
              /\ e \in Entry /\ e.m \in Messages
              /\ QoSOf[e.m] > 0 => /\ stage[e.m] = "held" /\ e.id = bid[e.m] /\ e.m # Pass.stop.m
                                   /\ \A x \in Pass.sent : x.m # e.m
         /\ Buffered = Parts(Pass)
<1>1. /\ Pass \in PassState /\ PassRoute(Pass) /\ Parts(Pass) = ToSet(unmatched) \cup ToSet(publishes)
      /\ Pass.sent \cap (ToSet(Pass.back) \cup ToSet(Pass.rest)) = {}
      /\ Pass.stop \notin ToSet(Pass.back) \cup ToSet(Pass.rest) \cup Pass.sent
  BY PassLeaves
<1>2. PICK p : p = Pass
  OBVIOUS
<1>3. Parts(p) = Buffered /\ entries \subseteq Subscribed
  BY <1>1, <1>2 DEF Buffered, TypeInv
<1>4. \A e \in Parts(p) : e \in Entry
  <2>1. Buffered \subseteq Entry
    BY MembersAt DEF TypeInv, Buffered
  <2> QED
    BY <1>3, <2>1
<1>5. \A e \in Parts(p) : e.m \in Messages /\ QoSOf[e.m] \in 0 .. 2
  BY <1>4, InboundAssumption DEF Entry
<1>6. \A e \in Parts(p) : QoSOf[e.m] > 0 => stage[e.m] = "held" /\ e.id = bid[e.m]
  BY <1>3 DEF BufferedInv
<1>7. \A e, x \in Parts(p) : QoSOf[e.m] > 0 /\ e.m = x.m => e = x
  <2> SUFFICES ASSUME NEW e \in Parts(p), NEW x \in Parts(p), QoSOf[e.m] > 0, e.m = x.m PROVE e = x
    OBVIOUS
  <2>1. e \in Entry /\ x \in Entry /\ e.id = x.id
    BY <1>4, <1>6
  <2> QED
    BY <2>1 DEF Entry
<1>8. /\ p.sent \subseteq Parts(p) /\ ToSet(p.back) \cup ToSet(p.rest) \subseteq Parts(p)
      /\ p.stop # NoEntry => p.stop \in Parts(p)
  BY DEF Parts
<1>9. /\ \A e \in p.sent : HasRecipient(e.m) /\ ~AckedAtOnce(e.m)
      /\ p.stop # NoEntry => HasRecipient(p.stop.m) /\ AckedAtOnce(p.stop.m)
  BY <1>1, <1>2 DEF PassRoute
<1>10. \A m : HasRecipient(m) => TopicOf[m] \in Subscribed
  BY <1>3 DEF HasRecipient
<1>11. ASSUME NEW e \in p.sent
       PROVE  /\ e \in Entry /\ e.m \in Messages /\ TopicOf[e.m] \in Subscribed
              /\ QoSOf[e.m] > 0 => stage[e.m] = "held" /\ e.id = bid[e.m] /\ ~AutoAcked(e.m)
  BY <1>4, <1>5, <1>6, <1>8, <1>9, <1>10 DEF AckedAtOnce
<1>12. ASSUME p.stop # NoEntry
       PROVE  /\ p.stop \in Entry /\ p.stop.m \in Messages /\ TopicOf[p.stop.m] \in Subscribed
              /\ QoSOf[p.stop.m] \in 1 .. 2 /\ AutoAcked(p.stop.m)
              /\ stage[p.stop.m] = "held" /\ p.stop.id = bid[p.stop.m]
  <2>1. QoSOf[p.stop.m] > 0 /\ AutoAcked(p.stop.m) /\ p.stop \in Parts(p)
    BY <1>8, <1>9, <1>12 DEF AckedAtOnce
  <2>2. QoSOf[p.stop.m] \in 0 .. 2
    BY <1>5, <2>1
  <2> QED
    BY <1>4, <1>5, <1>6, <1>9, <1>10, <1>12, <2>1, <2>2
<1>13. ASSUME NEW e \in ToSet(p.back) \cup ToSet(p.rest)
       PROVE  /\ e \in Entry /\ e.m \in Messages
              /\ QoSOf[e.m] > 0 => /\ stage[e.m] = "held" /\ e.id = bid[e.m] /\ e.m # p.stop.m
                                   /\ \A x \in p.sent : x.m # e.m
  <2>1. e \in Parts(p) /\ e \notin p.sent /\ e # p.stop /\ e.m \in Messages /\ e \in Entry
    BY <1>1, <1>2, <1>4, <1>5, <1>8
  <2>2. QoSOf[e.m] > 0 => \A x \in p.sent : x.m # e.m
    BY <1>7, <1>8, <2>1
  <2>3. QoSOf[e.m] > 0 => e.m # p.stop.m
    <3>1. CASE p.stop = NoEntry
      BY <2>1, <3>1, InboundAssumption DEF NoEntry
    <3>2. CASE p.stop # NoEntry
      BY <1>7, <1>8, <2>1, <3>2
    <3> QED
      BY <3>1, <3>2
  <2> QED
    BY <1>6, <2>1, <2>2, <2>3
<1> QED
  BY <1>2, <1>3, <1>11, <1>12, <1>13

\* The queues after a pass, and after the put() it may stop at.
LEMMA PassKeepsQueue ==
  ASSUME TypeInv, HeldInv, NEW stage, NEW s, BufferedInv(stage), QueueInv(stage), bid' = bid,
         \A n \in Messages : stage[n] = "queue" => s[n] = "queue",
         \A e \in Pass.sent : QoSOf[e.m] > 0 => s[e.m] = "queue",
         \A t \in Subscribed : \A k \in 1 .. Len(queue'[t]) :
           (k \in 1 .. Len(Pass.queue[t]) /\ queue'[t][k] = Pass.queue[t][k]) \/ queue'[t][k].ack = 0
  PROVE  QueueInv(s)'
<1>1. PICK p : p = Pass
  OBVIOUS
<1>2. /\ p \in PassState /\ PassQueue(p) /\ PassItems(p)
  BY <1>1, PassLeaves
<1>3. \A e \in p.sent : /\ e \in Entry /\ e.m \in Messages
                        /\ QoSOf[e.m] > 0 => /\ stage[e.m] = "held" /\ e.id = bid[e.m] /\ ~AutoAcked(e.m)
                                             /\ s[e.m] = "queue"
  BY <1>1, PassStages
<1> SUFFICES ASSUME NEW t \in Subscribed
             PROVE  /\ \A k \in 1 .. Len(queue'[t]) : ItemInv(s, queue'[t][k], "queue", t)
                    /\ \A k, l \in 1 .. Len(queue'[t]) : k # l /\ queue'[t][k].ack # 0 => queue'[t][k] # queue'[t][l]
  BY DEF QueueInv, ItemInv
<1>4. PICK v : v = p.queue[t]
  OBVIOUS
<1>5. PICK M : M = Len(queue[t])
  OBVIOUS
<1>6. v \in Seq(Item) /\ queue[t] \in Seq(Item)
  BY <1>2, <1>4 DEF PassState, Queues, TypeInv
<1>7. Len(v) \in Nat /\ M \in Nat
  BY <1>5, <1>6
<1>8. \A k \in 1 .. Len(v) : k \in 1 .. M \/ k \in M + 1 .. Len(v)
  BY <1>7
<1>9. \A k \in 1 .. M : v[k] = queue[t][k]
  BY <1>2, <1>4, <1>5 DEF PassQueue
<1>10. ASSUME NEW k \in 1 .. M, v[k].ack # 0 PROVE ItemInv(s, v[k], "queue", t) /\ stage[v[k].m] = "queue"
  <2>1. queue[t][k] \in Item /\ ItemInv(stage, queue[t][k], "queue", t)
    BY <1>5, <1>6 DEF QueueInv
  <2>2. queue[t][k].m \in Messages
    BY <2>1 DEF Item
  <2> QED
    BY <1>9, <1>10, <2>1, <2>2 DEF ItemInv
<1>11. ASSUME NEW k \in M + 1 .. Len(v), v[k].ack # 0 PROVE ItemInv(s, v[k], "queue", t) /\ stage[v[k].m] = "held"
  <2>1. PICK e \in p.sent : v[k] = ItemOf(e) /\ TopicOf[e.m] = t
    BY <1>2, <1>4, <1>5 DEF PassQueue
  <2>2. v[k].m = e.m /\ ~AutoAcked(e.m) /\ v[k].ack = e.id
    BY <1>11, <2>1 DEF ItemOf
  <2>3. QoSOf[e.m] > 0
    BY <1>3, <1>11, <2>2, InboundAssumption DEF Entry
  <2> QED
    BY <1>3, <2>1, <2>2, <2>3 DEF ItemInv
<1>12. \A k, l \in M + 1 .. Len(v) : k # l /\ v[k].ack # 0 => v[k] # v[l]
  BY <1>2, <1>4, <1>5 DEF PassItems
<1>13. \A k, l \in 1 .. M : k # l /\ v[k].ack # 0 => v[k] # v[l]
  BY <1>5, <1>9 DEF QueueInv
<1>14. \A k \in 1 .. Len(queue'[t]) : (k \in 1 .. Len(v) /\ queue'[t][k] = v[k]) \/ queue'[t][k].ack = 0
  BY <1>1, <1>4
<1>15. \A k, l \in 1 .. Len(v) : k # l /\ v[k].ack # 0 => v[k] # v[l]
  <2> SUFFICES ASSUME NEW k \in 1 .. Len(v), NEW l \in 1 .. Len(v), k # l, v[k].ack # 0, v[k] = v[l] PROVE FALSE
    OBVIOUS
  <2>1. (k \in 1 .. M \/ k \in M + 1 .. Len(v)) /\ (l \in 1 .. M \/ l \in M + 1 .. Len(v))
    BY <1>8
  <2> QED
    BY <1>10, <1>11, <1>12, <1>13, <2>1
<1>16. \A k \in 1 .. Len(v) : v[k].ack # 0 => ItemInv(s, v[k], "queue", t)
  BY <1>8, <1>10, <1>11
<1>17. \A k \in 1 .. Len(queue'[t]) : ItemInv(s, queue'[t][k], "queue", t)
  <2> SUFFICES ASSUME NEW k \in 1 .. Len(queue'[t]), queue'[t][k].ack # 0 PROVE ItemInv(s, queue'[t][k], "queue", t)
    BY DEF ItemInv
  <2>1. k \in 1 .. Len(v) /\ queue'[t][k] = v[k]
    BY <1>14
  <2> QED
    BY <1>16, <2>1
<1>18. ASSUME NEW k \in 1 .. Len(queue'[t]), NEW l \in 1 .. Len(queue'[t]), k # l, queue'[t][k].ack # 0,
              queue'[t][k] = queue'[t][l]
       PROVE  FALSE
  <2>1. k \in 1 .. Len(v) /\ queue'[t][k] = v[k]
    BY <1>14, <1>18
  <2>2. l \in 1 .. Len(v) /\ queue'[t][l] = v[l]
    BY <1>14, <1>18
  <2> QED
    BY <1>15, <1>18, <2>1, <2>2
<1> QED
  BY <1>17, <1>18

\* Where a step of a task that drains may move a message.
Drained(stage, s) ==
  \A n \in Messages :
    \/ s[n] = stage[n]
    \/ stage[n] = "held" /\ (s[n] \in {"queue", "none"} \/ (s[n] = "over" /\ QoSOf[n] = 1) \/ (s[n] = "flight" /\ QoSOf[n] = 2))
    \/ stage[n] = "hand" /\ s[n] = "app"

\* Such a move leaves the packets and the broker's view right.
LEMMA DrainMoves ==
  ASSUME TypeInv, BrokerInv, NEW stage, SessionInv(stage), NEW s, Drained(stage, s), conn = "up",
         UNCHANGED <<conn, bstate, bid, toClient, rl>>
  PROVE  /\ StageInv(s)' /\ ToClientInv(s, toClient)' /\ WaitingInv(s)' /\ Onward(stage, s)
<1>1. StageInv(stage) /\ ToClientInv(stage, toClient) /\ WaitingInv(stage) /\ toClient \in Seq(ToClientPacket)
  BY DEF SessionInv, TypeInv
<1>2. \A n \in Messages : stage[n] \in {"held", "hand"} => bstate[n] = "sent" /\ QoSOf[n] \in 1 .. 2
  BY <1>1, StagedOwns
<1>3. \A n \in Messages : s[n] = stage[n] \/ MayMove(n, s[n])
  BY <1>2 DEF Drained, MayMove
<1>4. StageInv(s)'
  BY <1>1, <1>3, MoveStages
<1>5. Onward(stage, s)
  BY DEF Onward, Drained
<1>6. ToClientInv(s, toClient)'
  <2>1. \A n \in Messages : s[n] = stage[n] \/ (stage[n] # "none" /\ (QoSOf[n] = 1 \/ s[n] # "over"))
    BY DEF Drained
  <2>2. ToClientInv(s, toClient)
    BY <1>1, <2>1, TaskMoves
  <2> QED
    BY <2>2, BrokerSame
<1>7. Keeps(stage, s, "rl")
  BY DEF Keeps, Drained
<1>8. WaitingInv(s)'
  BY <1>1, <1>5, <1>7, WaitingKept
<1> QED
  BY <1>4, <1>5, <1>6, <1>8

\* The messages the pass sends are now known by their identifiers.
LEMMA PassPending ==
  ASSUME TypeInv, HeldInv, NEW stage, SessionInv(stage), NEW s, Drained(stage, s), bid' = bid,
         \A n \in Messages : s[n] = "queue" => stage[n] = "queue" \/ \E e \in Pass.sent : e.m = n,
         pendingAck2' = pendingAck2 \cup AwaitingAck(Pass)
  PROVE  PendingInv(s)'
<1>1. PICK p : p = Pass
  OBVIOUS
<1>2. \A e \in p.sent : QoSOf[e.m] > 0 => e.id = bid[e.m]
  BY <1>1, PassStages DEF SessionInv
<1>3. PendingInv(stage)
  BY DEF SessionInv
<1> SUFFICES ASSUME NEW m \in Messages, QoSOf[m] = 2, s[m] \in {"rl", "queue", "hand", "app"}
             PROVE  bid[m] \in pendingAck2'
  BY DEF PendingInv
<1>4. CASE stage[m] \in {"rl", "queue", "hand", "app"}
  BY <1>3, <1>4 DEF PendingInv
<1>5. CASE stage[m] \notin {"rl", "queue", "hand", "app"}
  <2>1. s[m] = "queue"
    BY <1>5 DEF Drained
  <2>2. PICK e \in p.sent : e.m = m
    BY <1>1, <1>5, <2>1
  <2>3. e.id = bid[m] /\ QoSOf[e.m] = 2
    BY <1>2, <2>2
  <2>4. bid[m] \in AwaitingAck(p)
    BY <2>2, <2>3 DEF AwaitingAck
  <2> QED
    BY <1>1, <2>4
<1> QED
  BY <1>4, <1>5

\* What the pass puts was still to be put and no longer is.
LEMMA PassPuts ==
  ASSUME TypeInv, HeldInv, NEW stage, SessionInv(stage), NEW s, Drained(stage, s), UNCHANGED <<bid, rl>>,
         NEW ms, CountPuts(ms), Note(ms, "queued"),
         \A n \in Messages : n \in ms /\ QoSOf[n] = 2 => stage[n] = "held" /\ s[n] = "queue",
         \A n \in Messages : stage[n] = "flight" => inflight2'[bid[n]] = inflight2[bid[n]]
  PROVE  PutsInv(s)'
<1>1. PutsInv(stage)
  BY DEF SessionInv
<1>2. ASSUME NEW n \in Messages, stage[n] = "held", QoSOf[n] = 2 PROVE rl.m # n
  <2>1. rl # NoEntry /\ rl.m = n => stage[n] \in {"over", "rl"}
    BY <1>2 DEF SessionInv, WaitingInv
  <2>2. NoEntry.m # n
    BY InboundAssumption DEF NoEntry
  <2> QED
    BY <1>2, <2>1, <2>2
<1>3. \A n \in Messages : QoSOf[n] = 2 /\ ToBePut(s, n)' => ToBePut(stage, n)
  <2> SUFFICES ASSUME NEW n \in Messages, QoSOf[n] = 2, ToBePut(s, n)' PROVE ToBePut(stage, n)
    OBVIOUS
  <2>1. s[n] \in {"none", "held", "rl"} \/ rl.m = n \/ (s[n] = "flight" /\ inflight2'[bid[n]].put)
    BY DEF ToBePut
  <2> QED
    BY <2>1 DEF ToBePut, Drained
<1>4. \A n \in Messages : QoSOf[n] = 2 /\ n \in ms => ToBePut(stage, n) /\ ~ToBePut(s, n)'
  <2> SUFFICES ASSUME NEW n \in Messages, QoSOf[n] = 2, n \in ms PROVE ToBePut(stage, n) /\ ~ToBePut(s, n)'
    OBVIOUS
  <2>1. stage[n] = "held" /\ s[n] = "queue" /\ rl'.m # n
    BY <1>2
  <2> QED
    BY <2>1 DEF ToBePut
<1> QED
  BY <1>1, <1>3, <1>4, PutsOnce

\* The pass goes on to a publish that is acknowledged at once.
LEMMA DeliversStep ==
  ASSUME TypeInv, BrokerInv, HeldInv, NEW stage, SessionInv(stage), NEW d \in Drainers, DrainDelivers(d)
  PROVE  \E s : SessionInv(s)'
<1>1. PICK p : p = Pass
  OBVIOUS
<1>2. PICK e : e = p.stop
  OBVIOUS
<1>3. PICK place \in {"over", "flight"} : IF QoSOf[e.m] = 1 THEN place = "over" ELSE place = "flight"
  OBVIOUS
<1> DEFINE Went == {n \in Messages : QoSOf[n] > 0 /\ \E x \in p.sent : x.m = n}
<1>4. PICK s : s = [n \in Messages |-> IF n \in Went THEN "queue" ELSE IF n = e.m THEN place ELSE stage[n]]
  OBVIOUS
<1>5. /\ conn = "up" /\ e # NoEntry /\ publishes' = p.rest /\ unmatched' = p.back
      /\ pendingAck2' = pendingAck2 \cup AwaitingAck(p)
      /\ UNCHANGED <<conn, bstate, bid, toClient, rl, hand, appHeld, cut>>
  BY <1>1, <1>2, DeliversFacts
<1>6. \/ /\ QoSOf[e.m] = 1 /\ queue' = Put(p.queue, e)
         /\ CountPuts(DeliveredBySend(p) \cup {e.m}) /\ Note(DeliveredBySend(p) \cup {e.m}, "queued")
         /\ unack' = Complete(unack, e.id) /\ toBroker' = Append(toBroker, Ack("PUBACK", e.id))
         /\ inflight2' = inflight2
      \/ /\ QoSOf[e.m] # 1 /\ queue' = p.queue
         /\ CountPuts(DeliveredBySend(p)) /\ Note(DeliveredBySend(p), "queued")
         /\ inflight2' = [inflight2 EXCEPT ![e.id] = [m |-> e.m, put |-> TRUE]]
         /\ toBroker' = Append(toBroker, Ack("PUBREC", e.id)) /\ unack' = unack
  BY <1>1, <1>2, DeliversFacts
<1>7. /\ StageInv(stage) /\ BufferedInv(stage) /\ QueueInv(stage) /\ HandInv(stage) /\ AppInv(stage)
      /\ ToBrokerInv(stage, toBroker) /\ QuotaInv(stage) /\ FlightInv(stage) /\ FateInv(stage)
      /\ stage \in [Messages -> Stages]
  BY DEF SessionInv
<1>8. /\ p \in PassState /\ PassQueue(p) /\ p.stop \notin ToSet(p.back) \cup ToSet(p.rest) \cup p.sent
      /\ Parts(p) = Buffered
  BY <1>1, <1>7, PassLeaves, PassStages
<1>9. \A x \in p.sent : /\ x.m \in Messages
                        /\ QoSOf[x.m] > 0 => stage[x.m] = "held" /\ x.id = bid[x.m] /\ ~AutoAcked(x.m)
  BY <1>1, <1>7, PassStages
<1>10. /\ e \in Entry /\ e.m \in Messages /\ TopicOf[e.m] \in Subscribed /\ QoSOf[e.m] \in 1 .. 2
       /\ AutoAcked(e.m) /\ stage[e.m] = "held" /\ e.id = bid[e.m]
  BY <1>1, <1>2, <1>5, <1>7, PassStages
<1>11. \A x \in ToSet(p.back) \cup ToSet(p.rest) :
         /\ x.m \in Messages
         /\ QoSOf[x.m] > 0 => /\ stage[x.m] = "held" /\ x.id = bid[x.m] /\ x.m # e.m
                              /\ \A y \in p.sent : y.m # x.m
  BY <1>1, <1>2, <1>7, PassStages
<1>12. Owns(e.m, e.id) /\ e.id \in PacketId
  BY <1>7, <1>10, StagedOwns
<1>13. \A n \in Went : stage[n] = "held" /\ ~AutoAcked(n) /\ n # e.m
  BY <1>9, <1>10
<1>14. /\ s \in [Messages -> Stages]
       /\ \A n \in Messages : IF n \in Went THEN s[n] = "queue" ELSE IF n = e.m THEN s[n] = place ELSE s[n] = stage[n]
  BY <1>4, <1>7 DEF Stages
<1>15. s[e.m] = place /\ (place = "over" <=> QoSOf[e.m] = 1) /\ (place = "flight" <=> QoSOf[e.m] = 2)
  BY <1>3, <1>10, <1>13, <1>14
<1>16. Drained(stage, s)
  BY <1>10, <1>13, <1>14, <1>15 DEF Drained
<1>17. \A n \in Messages : s[n] = "queue" => stage[n] = "queue" \/ \E x \in p.sent : x.m = n
  BY <1>3, <1>14
<1>18. \A x \in p.sent : QoSOf[x.m] > 0 => x.m \in Went /\ s[x.m] = "queue"
  BY <1>9, <1>14
<1> HIDE DEF Went
<1>19. /\ StageInv(s)' /\ ToClientInv(s, toClient)' /\ WaitingInv(s)' /\ Onward(stage, s)
  BY <1>5, <1>16, DrainMoves
<1>20. PendingInv(s)'
  BY <1>1, <1>5, <1>16, <1>17, PassPending
<1>21. HandInv(s)' /\ AppInv(s)'
  <2>1. Keeps(stage, s, "hand") /\ Keeps(stage, s, "app")
    BY <1>3, <1>5, <1>10, <1>13, <1>14 DEF Keeps
  <2> QED
    BY <1>5, <1>7, <2>1, HandKept, AppKept
<1>22. BufferedInv(s)'
  <2>1. Buffered' = ToSet(p.back) \cup ToSet(p.rest)
    BY <1>5 DEF Buffered
  <2>2. ASSUME NEW x \in ToSet(p.back) \cup ToSet(p.rest), QoSOf[x.m] > 0 PROVE s[x.m] = "held" /\ x.id = bid[x.m]
    <3>1. x.m \notin Went /\ x.m # e.m /\ x.m \in Messages
      BY <1>11, <2>2 DEF Went
    <3> QED
      BY <1>11, <1>14, <2>2, <3>1
  <2>3. ASSUME NEW m \in Messages, s[m] = "held", QoSOf[m] = 2
        PROVE  [m |-> m, id |-> bid[m]] \in ToSet(p.back) \cup ToSet(p.rest)
    <3>1. stage[m] = "held" /\ m # e.m /\ m \notin Went
      BY <1>3, <1>14, <2>3
    <3>2. PICK x : x = [m |-> m, id |-> bid[m]]
      OBVIOUS
    <3>3. x \in Parts(p) /\ x.m = m
      BY <1>7, <1>8, <2>3, <3>1, <3>2 DEF BufferedInv
    <3>4. x \notin p.sent /\ x # p.stop
      BY <1>2, <1>18, <2>3, <3>1, <3>3
    <3> QED
      BY <3>2, <3>3, <3>4 DEF Parts
  <2> QED
    BY <1>5, <2>1, <2>2, <2>3 DEF BufferedInv
<1>23. \A n \in Messages : stage[n] = "queue" => s[n] = "queue"
  BY <1>10, <1>13, <1>14
<1>24. \A n \in DeliveredBySend(p) : n \in Messages /\ (QoSOf[n] = 2 => stage[n] = "held" /\ s[n] = "queue")
  BY <1>9, <1>18 DEF DeliveredBySend
<1>25. p.queue \in Queues /\ \A t \in Subscribed : p.queue[t] \in Seq(Item)
  BY <1>8 DEF PassState, Queues
<1>26. CASE QoSOf[e.m] = 1
  <2>1. /\ queue' = Put(p.queue, e)
        /\ CountPuts(DeliveredBySend(p) \cup {e.m}) /\ Note(DeliveredBySend(p) \cup {e.m}, "queued")
        /\ unack' = Complete(unack, e.id) /\ toBroker' = Append(toBroker, Ack("PUBACK", e.id))
        /\ inflight2' = inflight2
    BY <1>6, <1>26
  <2>2. ToBrokerInv(s, toBroker)'
    <3>1. ToBrokerInv(s, Append(toBroker, Ack("PUBACK", e.id)))
      BY <1>7, <1>10, <1>12, <1>15, <1>19, <1>26, PubackWritten
    <3> QED
      BY <1>5, <2>1, <3>1, BrokerSame
  <2>3. QuotaInv(s)'
    <3>1. unack' \subseteq unack /\ e.id \notin unack'
      BY <2>1 DEF Complete
    <3>2. \A n \in Messages : n # e.m /\ stage[n] # "over" => s[n] # "over"
      BY <1>14
    <3>3. \A n \in Messages : \A i : Owns(n, i) /\ stage[n] # "over" /\ i \in unack' => Owns(n, i)' /\ s[n] # "over"
      BY <1>5, <1>12, <3>1, <3>2, BrokerSame DEF Owns
    <3> QED
      BY <1>7, <3>1, <3>3, QuotaKept
  <2>4. QueueInv(s)'
    <3>1. ItemOf(e).ack = 0 /\ ItemOf(e) \in Item
      BY <1>10, ItemOfType DEF ItemOf
    <3>2. ASSUME NEW t \in Subscribed, NEW k \in 1 .. Len(queue'[t])
          PROVE  (k \in 1 .. Len(p.queue[t]) /\ queue'[t][k] = p.queue[t][k]) \/ queue'[t][k].ack = 0
      <4>1. CASE t # TopicOf[e.m]
        <5>1. queue'[t] = p.queue[t]
          BY <1>10, <1>25, <2>1, <4>1, PutFacts
        <5> QED
          BY <3>2, <5>1
      <4>2. CASE t = TopicOf[e.m]
        <5>1. queue'[t] = Append(p.queue[t], ItemOf(e))
          BY <1>10, <1>25, <2>1, <4>2, PutFacts
        <5>2. /\ Len(queue'[t]) = Len(p.queue[t]) + 1 /\ Len(p.queue[t]) \in Nat
              /\ \A i \in 1 .. Len(p.queue[t]) : queue'[t][i] = p.queue[t][i]
              /\ queue'[t][Len(p.queue[t]) + 1] = ItemOf(e)
          BY <1>25, <3>1, <5>1, AppendAt
        <5>3. k \in 1 .. Len(p.queue[t]) \/ k = Len(p.queue[t]) + 1
          BY <5>2
        <5> QED
          BY <3>1, <5>2, <5>3
      <4> QED
        BY <4>1, <4>2
    <3> QED
      BY <1>1, <1>5, <1>7, <1>18, <1>23, <3>2, PassKeepsQueue
  <2>5. FlightInv(s)'
    <3>1. Keeps(stage, s, "flight")
      BY <1>5, <1>10, <1>13, <1>14, <1>15, <1>26 DEF Keeps
    <3> QED
      BY <1>7, <2>1, <3>1, FlightKept
  <2>6. PutsInv(s)'
    <3>1. \A n \in Messages : n \in DeliveredBySend(p) \cup {e.m} /\ QoSOf[n] = 2 => stage[n] = "held" /\ s[n] = "queue"
      BY <1>24, <1>26
    <3> QED
      BY <1>5, <1>16, <2>1, <3>1, PassPuts
  <2>7. FateInv(s)'
    <3>1. (\A n \in Messages : fate[n] \subseteq fate'[n]) /\ "queued" \in fate'[e.m]
      BY <1>10, <2>1, PutCounted
    <3>2. Handled(e.m)'
      BY <1>10, <3>1 DEF Handled
    <3>3. \A n \in Messages : /\ s[n] = "over" => stage[n] = "over" \/ Handled(n)'
                              /\ s[n] = "flight" => stage[n] = "flight"
      BY <1>14, <1>15, <1>26, <3>2
    <3> QED
      BY <1>5, <1>7, <2>1, <3>1, <3>3, FateKept
  <2>8. SessionInv(s)'
    BY <1>14, <1>19, <1>20, <1>21, <1>22, <2>2, <2>3, <2>4, <2>5, <2>6, <2>7 DEF SessionInv
  <2> QED
    BY <2>8
<1>27. CASE QoSOf[e.m] = 2
  <2>1. PICK f : f = [m |-> e.m, put |-> TRUE]
    OBVIOUS
  <2>2. /\ queue' = p.queue /\ CountPuts(DeliveredBySend(p)) /\ Note(DeliveredBySend(p), "queued")
        /\ inflight2' = [inflight2 EXCEPT ![e.id] = f]
        /\ toBroker' = Append(toBroker, Ack("PUBREC", e.id)) /\ unack' = unack
    BY <1>6, <1>27, <2>1
  <2>3. ToBrokerInv(s, toBroker)'
    <3>1. ToBrokerInv(s, Append(toBroker, Ack("PUBREC", e.id)))
      BY <1>7, <1>10, <1>12, <1>15, <1>19, <1>27, PubrecWritten
    <3> QED
      BY <1>5, <2>2, <3>1, BrokerSame
  <2>4. QuotaInv(s)'
    <3>1. \A n \in Messages : \A i : Owns(n, i) /\ stage[n] # "over" /\ i \in unack' => Owns(n, i)' /\ s[n] # "over"
      BY <1>5, <1>14, <1>15, <1>27, BrokerSame
    <3> QED
      BY <1>7, <2>2, <3>1, QuotaKept
  <2>5. QueueInv(s)'
    <3>1. \A t \in Subscribed : \A k \in 1 .. Len(queue'[t]) : k \in 1 .. Len(p.queue[t]) /\ queue'[t][k] = p.queue[t][k]
      BY <2>2
    <3> QED
      BY <1>1, <1>5, <1>7, <1>18, <1>23, <3>1, PassKeepsQueue
  <2>6. /\ FlightInv(s)' /\ inflight2'[e.id].put
        /\ \A n \in Messages \ {e.m} : s[n] = "flight" => inflight2'[bid[n]] = inflight2[bid[n]]
    <3>1. f \in Flight /\ f.m = e.m /\ f.put
      BY <1>10, <1>27, <2>1 DEF Flight
    <3>2. inflight2'[e.id] = f /\ \A j \in PacketId \ {e.id} : inflight2'[j] = inflight2[j]
      BY <1>12, <2>2 DEF TypeInv
    <3>3. \A n \in Messages \ {e.m} : s[n] = "flight" <=> stage[n] = "flight"
      BY <1>13, <1>14
    <3>4. stage[e.m] # "flight" /\ s[e.m] = "flight" /\ UNCHANGED <<bstate, bid>>
      BY <1>5, <1>10, <1>15, <1>27
    <3> QED
      BY <1>7, <1>10, <1>12, <3>1, <3>2, <3>3, <3>4, FlightBegins
  <2>7. \A n \in Messages : stage[n] = "flight" => s[n] = "flight" /\ inflight2'[bid[n]] = inflight2[bid[n]]
    BY <1>10, <1>13, <1>14, <2>6
  <2>8. PutsInv(s)'
    <3>1. \A n \in Messages : n \in DeliveredBySend(p) /\ QoSOf[n] = 2 => stage[n] = "held" /\ s[n] = "queue"
      BY <1>24
    <3> QED
      BY <1>5, <1>16, <2>2, <2>7, <3>1, PassPuts
  <2>9. FateInv(s)'
    <3>1. \A n \in Messages : fate[n] \subseteq fate'[n]
      BY <2>2, PutCounted
    <3>2. \A n \in Messages : s[n] = "over" => stage[n] = "over"
      BY <1>14, <1>15, <1>27
    <3>3. \A n \in Messages : s[n] = "flight" /\ ~inflight2'[bid'[n]].put => stage[n] = "flight" /\ ~inflight2[bid[n]].put
      BY <1>5, <1>10, <1>14, <2>6
    <3> QED
      BY <1>5, <1>7, <3>1, <3>2, <3>3, FateKept
  <2>10. SessionInv(s)'
    BY <1>14, <1>19, <1>20, <1>21, <1>22, <2>3, <2>4, <2>5, <2>6, <2>8, <2>9 DEF SessionInv
  <2> QED
    BY <2>10
<1> QED
  BY <1>10, <1>26, <1>27

\* The pass ends: its consumers return what they have, and what is left goes back or is
\* dropped.
LEMMA EndsStep ==
  ASSUME TypeInv, BrokerInv, HeldInv, NEW stage, SessionInv(stage), NEW d \in Drainers, DrainEnds(d)
  PROVE  \E s : SessionInv(s)'
<1>1. PICK p : p = Pass
  OBVIOUS
<1>2. PICK kept \in BOOLEAN : kept = (AfterPass(d, p) = "buffered")
  OBVIOUS
<1>3. PICK back : back = Back(d)
  OBVIOUS
<1> DEFINE Went == {n \in Messages : QoSOf[n] > 0 /\ \E x \in p.sent : x.m = n}
           Given == {n \in Messages : \E t \in Subscribed : t \in back /\ hand[t].ack # 0 /\ hand[t].m = n}
<1>4. PICK s : s = [n \in Messages |-> IF n \in Went THEN "queue" ELSE IF n \in Given THEN "app"
                                       ELSE IF stage[n] = "held" /\ ~kept THEN "none" ELSE stage[n]]
  OBVIOUS
<1>5. /\ conn = "up" /\ p.stop = NoEntry /\ publishes' = (IF kept THEN p.back ELSE <<>>) /\ unmatched' = <<>>
      /\ queue' = p.queue /\ pendingAck2' = pendingAck2 \cup AwaitingAck(p)
      /\ CountPuts(DeliveredBySend(p)) /\ Note(DeliveredBySend(p), "queued")
      /\ Hand({hand[t] : t \in back})
      /\ hand' = [t \in Subscribed |-> IF t \in back THEN Nothing ELSE hand[t]]
      /\ UNCHANGED <<conn, bstate, bid, toClient, toBroker, rl, inflight2, unack, cut>>
  BY <1>1, <1>2, <1>3, EndsFacts
<1>6. /\ StageInv(stage) /\ BufferedInv(stage) /\ QueueInv(stage) /\ HandInv(stage) /\ AppInv(stage)
      /\ ToBrokerInv(stage, toBroker) /\ QuotaInv(stage) /\ FlightInv(stage) /\ FateInv(stage)
      /\ stage \in [Messages -> Stages]
  BY DEF SessionInv
<1>7. p \in PassState /\ PassRoute(p) /\ Parts(p) = Buffered
  BY <1>1, <1>6, PassLeaves, PassStages
<1>8. \A x \in p.sent : /\ x.m \in Messages
                        /\ QoSOf[x.m] > 0 => stage[x.m] = "held" /\ x.id = bid[x.m] /\ ~AutoAcked(x.m)
  BY <1>1, <1>6, PassStages
<1>9. \A x \in ToSet(p.back) : /\ x.m \in Messages
                               /\ QoSOf[x.m] > 0 => stage[x.m] = "held" /\ x.id = bid[x.m] /\ \A y \in p.sent : y.m # x.m
  BY <1>1, <1>6, PassStages
<1>10. \A t \in Subscribed : hand[t] \in Item \cup {Nothing}
  BY DEF TypeInv
<1>11. \A t \in Subscribed : hand[t].ack # 0 =>
         /\ hand[t] \in Item /\ hand[t].m \in Messages /\ stage[hand[t].m] = "hand" /\ hand[t].ack = bid[hand[t].m]
         /\ ~AutoAcked(hand[t].m) /\ TopicOf[hand[t].m] = t
  <2> SUFFICES ASSUME NEW t \in Subscribed, hand[t].ack # 0
               PROVE  /\ hand[t] \in Item /\ hand[t].m \in Messages /\ stage[hand[t].m] = "hand"
                      /\ hand[t].ack = bid[hand[t].m] /\ ~AutoAcked(hand[t].m) /\ TopicOf[hand[t].m] = t
    OBVIOUS
  <2>1. hand[t] \in Item
    BY <1>10 DEF Nothing
  <2>2. hand[t].m \in Messages
    BY <2>1 DEF Item
  <2> QED
    BY <1>6, <2>1, <2>2 DEF HandInv, ItemInv
<1>12. \A n \in Went : stage[n] = "held"
  BY <1>8
<1>13. \A n \in Given : stage[n] = "hand"
  BY <1>11
<1>14. /\ s \in [Messages -> Stages]
       /\ \A n \in Messages : IF n \in Went THEN s[n] = "queue" ELSE IF n \in Given THEN s[n] = "app"
                              ELSE IF stage[n] = "held" /\ ~kept THEN s[n] = "none" ELSE s[n] = stage[n]
  BY <1>4, <1>6 DEF Stages
<1>15. \A x \in p.sent : QoSOf[x.m] > 0 => x.m \in Went
  BY <1>8
<1>16. \A t \in Subscribed : t \in back /\ hand[t].ack # 0 => hand[t].m \in Given
  BY <1>11
<1>17. \A n \in Given : n \in Messages /\ TopicOf[n] \in back
  BY <1>11
<1>18. \A n \in Messages : n \in Went => \E x \in p.sent : x.m = n
  OBVIOUS
<1>19. \A x \in ToSet(p.back) : QoSOf[x.m] > 0 => x.m \notin Went
  BY <1>9
<1> HIDE DEF Went, Given
<1>20. Drained(stage, s)
  BY <1>12, <1>13, <1>14 DEF Drained
<1>21. StageInv(s)' /\ ToClientInv(s, toClient)' /\ WaitingInv(s)' /\ Onward(stage, s)
  BY <1>5, <1>20, DrainMoves
<1>22. ToBrokerInv(s, toBroker)'
  BY <1>5, <1>6, <1>21, MoveAcks, BrokerSame
<1>23. PendingInv(s)'
  <2>1. \A n \in Messages : s[n] = "queue" => stage[n] = "queue" \/ \E x \in p.sent : x.m = n
    BY <1>14, <1>18
  <2> QED
    BY <1>1, <1>5, <1>20, <2>1, PassPending
<1>24. FlightInv(s)'
  <2>1. Keeps(stage, s, "flight")
    BY <1>5, <1>12, <1>13, <1>14 DEF Keeps
  <2> QED
    BY <1>5, <1>6, <2>1, FlightKept
<1>25. \A n \in Messages : s[n] = "over" <=> stage[n] = "over"
  BY <1>12, <1>13, <1>14
<1>26. QuotaInv(s)'
  <2>1. \A n \in Messages : \A i : Owns(n, i) /\ stage[n] # "over" /\ i \in unack' => Owns(n, i)' /\ s[n] # "over"
    BY <1>5, <1>25, BrokerSame
  <2> QED
    BY <1>5, <1>6, <2>1, QuotaKept
<1>27. QueueInv(s)'
  <2>1. \A t \in Subscribed : \A k \in 1 .. Len(queue'[t]) : k \in 1 .. Len(p.queue[t]) /\ queue'[t][k] = p.queue[t][k]
    BY <1>5
  <2>2. \A n \in Messages : stage[n] = "queue" => s[n] = "queue"
    BY <1>12, <1>13, <1>14
  <2>3. \A x \in p.sent : QoSOf[x.m] > 0 => s[x.m] = "queue"
    BY <1>8, <1>14, <1>15
  <2> QED
    BY <1>1, <1>5, <1>6, <2>1, <2>2, <2>3, PassKeepsQueue
<1>28. HandInv(s)'
  <2>1. ASSUME NEW u \in Subscribed PROVE ItemInv(s, hand'[u], "hand", u)
    <3>1. CASE u \in back
      <4>1. hand'[u].ack = 0
        BY <1>5, <3>1 DEF Nothing
      <4> QED
        BY <4>1 DEF ItemInv
    <3>2. CASE u \notin back
      <4>1. hand'[u] = hand[u]
        BY <1>5, <3>2
      <4>2. hand[u].ack # 0 => hand[u].m \notin Given /\ hand[u].m \notin Went
        BY <1>11, <1>12, <1>17, <3>2
      <4> QED
        BY <1>11, <1>14, <4>1, <4>2 DEF ItemInv
    <3> QED
      BY <3>1, <3>2
  <2> QED
    BY <1>5, <2>1 DEF HandInv, ItemInv
<1>29. AppInv(s)'
  <2>1. appHeld' = appHeld \cup {x \in {hand[t] : t \in back} : x.ack # 0} /\ back \subseteq Subscribed
    BY <1>3, <1>5 DEF Hand, Back
  <2>2. ASSUME NEW y \in appHeld' PROVE ItemInv(s, y, "app", TopicOf[y.m])
    <3>1. CASE y \in appHeld
      <4>1. y.m \in Messages /\ ItemInv(stage, y, "app", TopicOf[y.m])
        BY <1>6, <3>1 DEF AppInv, TypeInv, Item
      <4>2. stage[y.m] = "app" => s[y.m] = "app"
        BY <1>12, <1>13, <1>14, <4>1
      <4> QED
        BY <4>1, <4>2 DEF ItemInv
    <3>2. CASE y \notin appHeld
      <4>1. PICK t \in Subscribed : t \in back /\ y = hand[t] /\ y.ack # 0
        BY <2>1, <2>2, <3>2
      <4>2. y.m \in Given /\ y.m \notin Went /\ y.m \in Messages
        BY <1>11, <1>12, <1>16, <4>1
      <4> QED
        BY <1>11, <1>14, <4>1, <4>2 DEF ItemInv
    <3> QED
      BY <3>1, <3>2
  <2> QED
    BY <1>5, <2>2 DEF AppInv, ItemInv
<1>30. BufferedInv(s)'
  <2>1. ToSet(<<>>) = {}
    BY DEF ToSet
  <2>2. Parts(p) = ToSet(p.back) \cup p.sent
    BY <1>5, <1>7, <2>1 DEF Parts, PassRoute
  <2>3. Buffered' = IF kept THEN ToSet(p.back) ELSE {}
    BY <1>5, <2>1 DEF Buffered
  <2>4. ASSUME NEW x \in Buffered', QoSOf[x.m] > 0 PROVE s[x.m] = "held" /\ x.id = bid[x.m]
    <3>1. kept /\ x \in ToSet(p.back)
      BY <2>3, <2>4
    <3>2. x.m \notin Went /\ x.m \notin Given /\ x.m \in Messages /\ stage[x.m] = "held" /\ x.id = bid[x.m]
      BY <1>9, <1>13, <1>19, <2>4, <3>1
    <3> QED
      BY <1>14, <3>1, <3>2
  <2>5. ASSUME NEW m \in Messages, s[m] = "held", QoSOf[m] = 2 PROVE [m |-> m, id |-> bid[m]] \in Buffered'
    <3>1. stage[m] = "held" /\ m \notin Went /\ kept
      BY <1>14, <2>5
    <3>2. PICK x : x = [m |-> m, id |-> bid[m]]
      OBVIOUS
    <3>3. x \in Parts(p) /\ x.m = m
      BY <1>6, <1>7, <2>5, <3>1, <3>2 DEF BufferedInv
    <3>4. x \notin p.sent
      BY <1>15, <2>5, <3>1, <3>3
    <3> QED
      BY <2>2, <2>3, <3>1, <3>2, <3>3, <3>4
  <2> QED
    BY <1>5, <2>4, <2>5 DEF BufferedInv
<1>31. PutsInv(s)'
  <2>1. \A n \in Messages : n \in DeliveredBySend(p) /\ QoSOf[n] = 2 => stage[n] = "held" /\ s[n] = "queue"
    BY <1>8, <1>14, <1>15 DEF DeliveredBySend
  <2> QED
    BY <1>5, <1>20, <2>1, PassPuts
<1>32. FateInv(s)'
  <2>1. \A n \in Messages : fate[n] \subseteq fate'[n]
    BY <1>5, PutCounted
  <2>2. \A n \in Messages : s[n] = "flight" => stage[n] = "flight"
    BY <1>14
  <2> QED
    BY <1>5, <1>6, <1>25, <2>1, <2>2, FateKept
<1>33. SessionInv(s)'
  BY <1>14, <1>21, <1>22, <1>23, <1>24, <1>26, <1>27, <1>28, <1>29, <1>30, <1>31, <1>32 DEF SessionInv
<1> QED
  BY <1>33

-----------------------------------------------------------------------------
(* The session.                                                            *)

\* There are stages that fit the state, and the run loop has not failed over the quota:
\* so it is until a drain is cancelled while it writes an acknowledgement.
SessionOK == failure # "quota" /\ \E stage : SessionInv(stage)

\* At first nothing is anywhere.
LEMMA SessionInit == Init => SessionOK
<1> SUFFICES ASSUME Init PROVE SessionOK
  OBVIOUS
<1>1. PICK s : s = [m \in Messages |-> "none"]
  OBVIOUS
<1>2. s \in [Messages -> Stages] /\ \A m \in Messages : s[m] = "none"
  BY <1>1 DEF Stages
<1>3. StageInv(s) /\ ToClientInv(s, toClient) /\ ToBrokerInv(s, toBroker)
  BY <1>2 DEF Init, StageInv, ToClientInv, ToBrokerInv
<1>4. BufferedInv(s)
  <2>1. ToSet(<<>>) = {}
    BY DEF ToSet
  <2> QED
    BY <1>2, <2>1 DEF Init, BufferedInv, Buffered
<1>5. WaitingInv(s) /\ QueueInv(s) /\ HandInv(s) /\ AppInv(s)
  BY DEF Init, WaitingInv, QueueInv, HandInv, AppInv, ItemInv, Nothing
<1>6. FlightInv(s) /\ PendingInv(s) /\ QuotaInv(s)
  BY <1>2 DEF Init, FlightInv, PendingInv, QuotaInv
<1>7. PutsInv(s) /\ FateInv(s)
  BY <1>2 DEF Init, PutsInv, FateInv
<1>8. SessionInv(s)
  BY <1>2, <1>3, <1>4, <1>5, <1>6, <1>7 DEF SessionInv
<1> QED
  BY <1>8 DEF SessionOK, Init

\* What has been put back in the middle of its acknowledgement stays a fact.
LEMMA RequeuedStays ==
  ASSUME TypeInv, requeued, [Next]_vars
  PROVE  requeued'
<1>1. Reset => UNCHANGED requeued
  BY DEF Reset
<1>2. UNCHANGED lapses => UNCHANGED requeued
  BY DEF lapses
<1>3. \A e : HandlePublish(e) \/ HandlePubrel(e) => Reset \/ UNCHANGED lapses
  BY Zenon DEF HandlePublish, HandlePubrel, PublishOverQuota, PublishAccepted, PublishKnown, Fail,
     PublishOverflows, PublishBuffered, PublishDropped, PublishAccept2, PublishRouted
<1>4. Broker => UNCHANGED lapses
  BY Zenon DEF Broker, BrokerSends0, BrokerSends, BrokerReceives
<1>5. \/ ReadLoopPuts \/ Reconnect \/ ReplayTimesOut \/ \E x \in appHeld : AppAck(x)
      \/ \E t \in Subscribed : Subscribe(t) \/ Subscribes(t) \/ GetMessage(t)
      \/ \E m \in Messages : BrokerRetransmits(m)
      => UNCHANGED lapses
  BY Zenon DEF ReadLoopPuts, Reconnect, ReplayTimesOut, Subscribe, Subscribes, GetMessage, AppAck,
     BrokerRetransmits
<1>6. ConnectionLost => Reset
  BY DEF ConnectionLost
<1>7. \A d : Drain(d) => UNCHANGED requeued
  BY DEF Drain, DrainDelivers, DrainEnds
<1>8. Cancelled => requeued'
  <2>1. \A d : CancelWait(d) \/ CancelWrite(d) => requeued'
    BY WaitFacts, WriteFacts
  <2>2. \A t : TakeCancelled(t) => requeued'
    BY TakeFacts
  <2> QED
    BY <2>1, <2>2, Zenon DEF Cancelled
<1>9. CASE Next
  BY <1>1, <1>2, <1>3, <1>4, <1>5, <1>6, <1>7, <1>8, <1>9, StepCases, Zenon
<1>10. CASE UNCHANGED vars
  BY <1>2, <1>10 DEF vars
<1> QED
  BY <1>9, <1>10

\* Every other step leaves stages that fit, and none is a failure over the quota.
LEMMA SessionStep ==
  ASSUME BufferInv, TypeInv', SessionOK, [Next]_vars, ~requeued'
  PROVE  SessionOK'
<1>1. TypeInv /\ BrokerInv /\ WireInv /\ HeldInv
  BY DEF BufferInv
<1>2. PICK stage : SessionInv(stage)
  BY DEF SessionOK
<1>3. failure # "quota"
  BY DEF SessionOK
<1>4. ASSUME NEW why, Fail(why) PROVE \E s : SessionInv(s)'
  <2>1. Reset /\ conn' # "up" /\ UNCHANGED <<bstate, bid>>
    BY <1>4 DEF Fail, broker
  <2> QED
    BY <1>1, <1>2, <2>1, ResetStep
<1>5. ASSUME NEW e \in Read, HandlePublish(e) PROVE SessionOK'
  <2>1. ~PublishOverQuota(e)
    BY <1>1, <1>2, QuotaIsEnough DEF PublishOverQuota
  <2>2. CASE PublishOverflows(e)
    <3>1. failure' = "overflow" /\ Fail("overflow")
      BY <2>2 DEF PublishOverflows, Fail
    <3> QED
      BY <1>4, <3>1 DEF SessionOK
  <2>3. CASE PublishAccepted(e) \/ PublishKnown(e)
    <3>1. failure' = failure
      BY <2>3 DEF PublishAccepted, PublishKnown
    <3> QED
      BY <1>1, <1>2, <1>3, <2>3, <3>1, RepeatedStep DEF SessionOK
  <2>4. CASE PublishBuffered(e) \/ PublishDropped(e)
    <3>1. failure' = failure
      BY <2>4 DEF PublishBuffered, PublishDropped
    <3> QED
      BY <1>1, <1>2, <1>3, <2>4, <3>1, BufferedStep, DroppedStep DEF SessionOK
  <2>5. CASE PublishAccept2(e) \/ PublishRouted(e)
    <3>1. failure' = failure
      BY <2>5 DEF PublishAccept2, PublishRouted
    <3> QED
      BY <1>1, <1>2, <1>3, <2>5, <3>1, Accept2Step, RoutedStep DEF SessionOK
  <2> QED
    BY <1>5, <2>1, <2>2, <2>3, <2>4, <2>5 DEF HandlePublish
<1>6. ASSUME NEW e \in Read, HandlePubrel(e) PROVE SessionOK'
  <2>1. failure' = failure
    BY <1>6 DEF HandlePubrel
  <2> QED
    BY <1>1, <1>2, <1>3, <1>6, <2>1, PubrelStep DEF SessionOK
<1>7. CASE ReadLoopPuts
  <2>1. failure' = failure
    BY <1>7 DEF ReadLoopPuts
  <2> QED
    BY <1>1, <1>2, <1>3, <1>7, <2>1, PutsStep DEF SessionOK
<1>8. ASSUME NEW t \in Subscribed, Subscribe(t) \/ Subscribes(t) \/ GetMessage(t) PROVE SessionOK'
  <2>1. failure' = failure
    BY <1>8 DEF Subscribe, Subscribes, GetMessage
  <2>2. CASE Subscribe(t) \/ Subscribes(t)
    <3>1. UNCHANGED <<conn, bstate, bid, toClient, toBroker, unmatched, publishes, rl, queue, hand, appHeld, inflight2,
                      pendingAck2, unack, puts, fate, cut>>
      BY <2>2 DEF Subscribe, Subscribes, broker, wire, flow, buffer, app
    <3> QED
      BY <1>1, <1>2, <1>3, <2>1, <3>1, IdleStep DEF SessionOK
  <2>3. CASE GetMessage(t)
    BY <1>1, <1>2, <1>3, <2>1, <2>3, GetStep DEF SessionOK
  <2> QED
    BY <1>8, <2>2, <2>3
<1>9. CASE ReplayTimesOut \/ UNCHANGED vars
  <2>1. UNCHANGED <<conn, failure, bstate, bid, toClient, toBroker, unmatched, publishes, rl, queue, hand, appHeld,
                    inflight2, pendingAck2, unack, puts, fate, cut>>
    BY <1>9 DEF ReplayTimesOut, vars, broker, wire, flow, buffer, app
  <2> QED
    BY <1>1, <1>2, <1>3, <2>1, IdleStep DEF SessionOK
<1>10. ASSUME NEW d \in Drainers, Drain(d) PROVE SessionOK'
  <2>1. CASE DrainDelivers(d)
    <3>1. failure' = failure
      BY <2>1, DeliversFacts
    <3> QED
      BY <1>1, <1>2, <1>3, <2>1, <3>1, DeliversStep DEF SessionOK
  <2>2. CASE DrainEnds(d)
    <3>1. failure' = failure
      BY <2>2, EndsFacts
    <3> QED
      BY <1>1, <1>2, <1>3, <2>2, <3>1, EndsStep DEF SessionOK
  <2> QED
    BY <1>10, <2>1, <2>2 DEF Drain
<1>11. ASSUME NEW x \in appHeld, AppAck(x) PROVE SessionOK'
  <2>1. failure' = failure
    BY <1>11 DEF AppAck
  <2> QED
    BY <1>1, <1>2, <1>3, <1>11, <2>1, AppAckStep DEF SessionOK
<1>12. ASSUME NEW m \in Messages, BrokerSends0(m) \/ BrokerSends(m) \/ BrokerRetransmits(m) PROVE SessionOK'
  <2>1. failure' = failure
    BY <1>12 DEF BrokerSends0, BrokerSends, BrokerRetransmits
  <2> QED
    BY <1>1, <1>2, <1>3, <1>12, <2>1, SendStep DEF SessionOK
<1>13. CASE BrokerReceives
  <2>1. failure' = failure
    BY <1>13 DEF BrokerReceives
  <2> QED
    BY <1>1, <1>2, <1>3, <1>13, <2>1, ReceiveStep DEF SessionOK
<1>14. CASE ConnectionLost
  <2>1. failure' = failure /\ Reset /\ conn' # "up" /\ UNCHANGED <<bstate, bid>>
    BY <1>14 DEF ConnectionLost, broker
  <2> QED
    BY <1>1, <1>2, <1>3, <2>1, ResetStep DEF SessionOK
<1>15. CASE Reconnect
  <2>1. failure' = failure
    BY <1>15 DEF Reconnect
  <2> QED
    BY <1>1, <1>2, <1>3, <1>15, <2>1, ReconnectStep DEF SessionOK
<1>16. CASE Cancelled
  <2>1. failure' = failure
    BY <1>16, CancelledFrame
  <2> QED
    BY <1>1, <1>2, <1>3, <1>16, <2>1, CancelledStep DEF SessionOK
<1>17. CASE Next
  <2>1. Broker => BrokerReceives \/ \E m \in Messages : BrokerSends0(m) \/ BrokerSends(m)
    BY DEF Broker
  <2> QED
    BY <1>1, <1>5, <1>6, <1>7, <1>8, <1>9, <1>10, <1>11, <1>12, <1>13, <1>14, <1>15, <1>17, <1>16, <2>1, StepCases
<1> QED
  BY <1>9, <1>17

\* So there are stages that fit in every state until then.
LEMMA SessionHolds == Spec => [](requeued \/ SessionOK)
<1>1. BufferInv /\ BufferInv' /\ (requeued \/ SessionOK) /\ [Next]_vars => requeued' \/ SessionOK'
  BY RequeuedStays, SessionStep DEF BufferInv
<1> QED
  BY <1>1, SessionInit, BufferInvHolds, PTL DEF Spec

\* A broker within the Receive Maximum never makes the client fail with
\* RECEIVE_MAXIMUM_EXCEEDED, whatever is lost, repeated, buffered or acknowledged late, until
\* a drain() is cancelled in the middle of an acknowledgement: every identifier in
\* _unacknowledged is that of a message the broker still counts.
THEOREM QuotaNeverExceededHolds == Spec => []QuotaNeverExceeded
<1>1. requeued \/ SessionOK => QuotaNeverExceeded
  BY DEF SessionOK, SessionInv, QuotaInv, Owns, QuotaNeverExceeded
<1> QED
  BY <1>1, SessionHolds, PTL

\* handle_publish() and handle_pubrel(), the replay buffer and ack() between them queue a
\* message of QoS 2 once per connection, however often the broker sends it and whichever
\* calls are cancelled, but for a drain() in the middle of an acknowledgement.
THEOREM ExactlyOncePerConnectionHolds == Spec => []ExactlyOncePerConnection
<1>1. requeued \/ SessionOK => ExactlyOncePerConnection
  BY DEF SessionOK, SessionInv, PutsInv, ExactlyOncePerConnection
<1> QED
  BY <1>1, SessionHolds, PTL

\* The broker never takes for delivered a message the client has neither handed over nor
\* dropped for want of a subscription, but for the two gaps of QoS 2 the property names,
\* until a drain() is cancelled in the middle of an acknowledgement.
THEOREM AcknowledgedWasHandledHolds == Spec => []AcknowledgedWasHandled
<1>1. requeued \/ SessionOK => AcknowledgedWasHandled
  BY DEF SessionOK, SessionInv, StageInv, FateInv, Handled, AcknowledgedWasHandled
<1> QED
  BY <1>1, SessionHolds, PTL

=============================================================================
