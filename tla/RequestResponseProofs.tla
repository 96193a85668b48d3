------------------------- MODULE RequestResponseProofs -------------------------
(***************************************************************************)
(* Theorems about RequestResponse, for every set of calls of request(),    *)
(* every assignment of response topics and correlation data, every         *)
(* capacity and any number of connections.                                 *)
(***************************************************************************)
EXTENDS RequestResponse, QueueLemmas

-----------------------------------------------------------------------------
(* The calls and the units of the semaphore.                               *)

Early == {"idle", "acquire", "granted"}
Registered == {"subscribing", "publishing", "reply"}
InCleanup == {"unready", "removing", "unsubscribing"}
Places == Early \union Registered \union InCleanup \union Over

\* The calls that own a unit.
Units == {r \in Requests : pc[r] = "granted"} \union Waiting \union Cleaning

CallsTyped ==
  /\ pc \in [Requests -> Places]
  /\ pending \in [Keys -> Requests \union {None}]
  /\ capacity \in Nat
  /\ waiters \in Seq(Requests) /\ IsInjective(waiters)

\* The queue of the semaphore, _pending and the program counters agree, and the units
\* add up.
CallsInv ==
  /\ CallsTyped
  /\ ToSet(waiters) = {r \in Requests : pc[r] = "acquire"}
  /\ \A r \in Waiting : pc[r] \in Registered
  /\ IsFiniteSet(Units) /\ capacity + Cardinality(Units) = MaxPending
  /\ waiters # <<>> => capacity = 0

\* Steps after which the same calls own a unit.
LEMMA UnitsKept ==
  ASSUME CallsInv, CallsTyped', Units' = Units, UNCHANGED <<capacity, waiters>>,
         {r \in Requests : pc'[r] = "acquire"} = {r \in Requests : pc[r] = "acquire"},
         \A r \in Waiting' : pc'[r] \in Registered
  PROVE  CallsInv'
BY DEF CallsInv

\* A call moves on, and keeps its unit or goes on without one.
LEMMA CallMoves ==
  ASSUME CallsInv, NEW r \in Requests, NEW where \in Places,
         pc' = [pc EXCEPT ![r] = where], UNCHANGED <<capacity, waiters>>,
         \/ /\ pending' = pending
            /\ \/ pc[r] \in Registered /\ where \in Registered
               \/ pc[r] \in Registered /\ r \notin Waiting /\ where = "done"
               \/ pc[r] \in InCleanup /\ where \in InCleanup
         \/ /\ pc[r] = "granted" /\ pending[Key(r)] = None /\ where = "subscribing"
            /\ pending' = [pending EXCEPT ![Key(r)] = r]
         \/ /\ r \in Waiting /\ where \in InCleanup
            /\ pending' = [pending EXCEPT ![Key(r)] = None]
  PROVE  CallsInv'
<1>1. Key(r) \in Keys /\ None \notin Requests /\ \A s \in Requests : Key(s) \in Keys
  BY RequestAssumption DEF Keys
<1>2. CallsTyped'
  BY <1>1 DEF CallsInv, CallsTyped
<1>3. {s \in Requests : pc'[s] = "acquire"} = {s \in Requests : pc[s] = "acquire"}
  BY DEF CallsInv, CallsTyped, Registered, InCleanup, Waiting
<1>4. \A s \in Requests \ {r} : pc'[s] = pc[s] /\ (s \in Waiting' <=> s \in Waiting)
  BY <1>1 DEF CallsInv, CallsTyped, Waiting
<1>5. r \in Units' <=> r \in Units
  BY <1>1 DEF CallsInv, CallsTyped, Waiting, Units, Cleaning, Registered, InCleanup
<1>6. r \in Waiting' => pc'[r] \in Registered
  BY <1>1 DEF CallsInv, CallsTyped, Waiting, Registered, InCleanup
<1>7. Units' = Units
  BY <1>4, <1>5 DEF Units, Cleaning, Waiting
<1>8. \A s \in Waiting' : pc'[s] \in Registered
  BY <1>4, <1>6 DEF CallsInv, Waiting
<1> QED
  BY <1>2, <1>3, <1>7, <1>8, UnitsKept

\* A call gives its unit back: to the first in the queue, if there is one.
LEMMA UnitReleased ==
  ASSUME CallsInv, NEW r \in Units, NEW where \in Over, Release(r, where),
         \/ pending' = pending /\ r \notin Waiting
         \/ pending' = [pending EXCEPT ![Key(r)] = None] /\ r \in Waiting
  PROVE  CallsInv'
<1>1. r \in Requests /\ Key(r) \in Keys /\ None \notin Requests /\ \A s \in Requests : Key(s) \in Keys
  BY RequestAssumption DEF Keys, Units, Waiting, Cleaning
<1>2. Waiting' = Waiting \ {r}
  BY <1>1 DEF CallsInv, CallsTyped, Waiting
<1>3. pc[r] # "acquire"
  BY DEF CallsInv, Units, Cleaning, Registered
<1>4. where \in Places /\ where \notin Early \union Registered \union InCleanup
  BY DEF Over, Places, Early, Registered, InCleanup
<1>5. /\ IsFiniteSet(Units \ {r}) /\ Cardinality(Units \ {r}) = Cardinality(Units) - 1
      /\ Cardinality(Units) \in Nat
  BY FS_RemoveElement, FS_CardinalityType DEF CallsInv
<1>6. pending' \in [Keys -> Requests \union {None}]
  BY <1>1 DEF CallsInv, CallsTyped
<1>7. CASE waiters = <<>>
  <2>1. pc' = [pc EXCEPT ![r] = where] /\ capacity' = capacity + 1 /\ waiters' = waiters
    BY <1>7 DEF Release
  <2>2. CallsTyped'
    <3>3. pc' \in [Requests -> Places]
      BY <1>4, <2>1 DEF CallsInv, CallsTyped
    <3>1. capacity' \in Nat
      BY <2>1 DEF CallsInv, CallsTyped
    <3>2. waiters' \in Seq(Requests) /\ IsInjective(waiters')
      BY <2>1 DEF CallsInv, CallsTyped
    <3> QED
      BY <1>6, <3>3, <3>1, <3>2 DEF CallsTyped
  <2>3. \A s \in Requests : pc'[s] = IF s = r THEN where ELSE pc[s]
    BY <2>1 DEF CallsInv, CallsTyped
  <2>4. Units' = Units \ {r}
    BY <1>2, <1>4, <2>3 DEF Units, Cleaning, Early, InCleanup, Waiting
  <2>5. \A s \in Waiting' : pc'[s] \in Registered
    BY <1>2, <2>3 DEF CallsInv, Waiting
  <2>6. ToSet(waiters') = {s \in Requests : pc'[s] = "acquire"}
    BY <1>3, <1>4, <2>1, <2>3 DEF CallsInv, Early
  <2>7. capacity' + Cardinality(Units') = MaxPending /\ IsFiniteSet(Units')
    BY <1>5, <2>1, <2>4, RequestAssumption DEF CallsInv, CallsTyped
  <2> QED
    BY <1>7, <2>1, <2>2, <2>5, <2>6, <2>7 DEF CallsInv
<1>8. CASE waiters # <<>>
  <2> DEFINE h == Head(waiters)
  <2>1. waiters \in Seq(Requests) /\ IsInjective(waiters)
    BY DEF CallsInv, CallsTyped
  <2>2. /\ Tail(waiters) \in Seq(Requests) /\ IsInjective(Tail(waiters))
        /\ h \in ToSet(waiters) /\ h \in Requests
        /\ ToSet(Tail(waiters)) = ToSet(waiters) \ {h}
    BY <1>8, <2>1, TailQueue
  <2> HIDE DEF h
  <2>3. pc[h] = "acquire" /\ h # r /\ h \notin Units
    BY <1>3, <2>2 DEF CallsInv, Units, Cleaning, Registered
  <2>4. /\ pc' = [[pc EXCEPT ![r] = where] EXCEPT ![h] = "granted"]
        /\ capacity' = capacity /\ waiters' = Tail(waiters)
    BY <1>8 DEF Release, h
  <2>5. CallsTyped'
    BY <1>4, <1>6, <2>2, <2>4 DEF CallsInv, CallsTyped, Places, Early
  <2>6. \A s \in Requests : pc'[s] = IF s = h THEN "granted" ELSE IF s = r THEN where ELSE pc[s]
    BY <2>2, <2>3, <2>4 DEF CallsInv, CallsTyped
  <2>7. Units' = (Units \ {r}) \union {h}
    BY <1>2, <1>4, <2>2, <2>3, <2>6 DEF Units, Cleaning, Early, InCleanup, Waiting
  <2>8. \A s \in Waiting' : pc'[s] \in Registered
    BY <1>2, <2>3, <2>6 DEF CallsInv, Waiting, Units
  <2>9. ToSet(waiters') = {s \in Requests : pc'[s] = "acquire"}
    <3>1. \A s \in Requests : pc'[s] = "acquire" <=> pc[s] = "acquire" /\ s # h
      BY <1>3, <1>4, <2>6 DEF Early
    <3>2. ToSet(waiters) = {s \in Requests : pc[s] = "acquire"}
      BY DEF CallsInv
    <3> QED
      BY <2>2, <2>4, <3>1, <3>2
  <2>10. IsFiniteSet(Units') /\ Cardinality(Units') = Cardinality(Units)
    <3> DEFINE rest == Units \ {r}
    <3>1. IsFiniteSet(rest) /\ h \notin rest /\ Cardinality(rest) + 1 = Cardinality(Units)
      BY <1>5, <2>3
    <3> HIDE DEF rest
    <3>2. IsFiniteSet(rest \union {h}) /\ Cardinality(rest \union {h}) = Cardinality(rest) + 1
      BY <3>1, FS_AddElement
    <3> QED
      BY <2>7, <3>1, <3>2 DEF rest
  <2> QED
    BY <1>8, <2>4, <2>5, <2>8, <2>9, <2>10 DEF CallsInv
<1> QED
  BY <1>7, <1>8

\* The end of a call, and how far its cleanup gets, by whichever path it ends.
LEMMA CallUnregisters ==
  ASSUME CallsInv, NEW r \in Requests, pc[r] \in Registered, Unregister(r)
  PROVE  CallsInv'
<1>1. CASE r \notin Waiting
  <2>1. pc' = [pc EXCEPT ![r] = "done"] /\ UNCHANGED <<capacity, waiters, pending>>
    BY <1>1 DEF Unregister, Waiting, sem
  <2>2. "done" \in Places
    BY DEF Places, Over
  <2> QED
    BY <1>1, <2>1, <2>2, CallMoves
<1>2. CASE r \in Waiting
  <2>1. pending' = [pending EXCEPT ![Key(r)] = None] /\ r \in Units
    BY <1>2 DEF Unregister, Waiting, Units
  <2>2. \/ Release(r, "done")
        \/ \E where \in InCleanup : pc' = [pc EXCEPT ![r] = where] /\ UNCHANGED <<capacity, waiters>>
    BY <1>2 DEF Unregister, LetGo, Leave, Waiting, InCleanup, sem
  <2>3. "done" \in Over /\ InCleanup \subseteq Places
    BY DEF Places, Over
  <2>4. CASE Release(r, "done")
    BY <1>2, <2>1, <2>3, <2>4, UnitReleased
  <2>5. ASSUME NEW where \in InCleanup, pc' = [pc EXCEPT ![r] = where], UNCHANGED <<capacity, waiters>>
        PROVE  CallsInv'
    BY <1>2, <2>1, <2>3, <2>5, CallMoves
  <2> QED
    BY <2>2, <2>4, <2>5
<1> QED
  BY <1>1, <1>2

\* disconnect() takes the unit of every registered call and hands as many as it can on.
LEMMA CallsCancelled == CallsInv /\ CancelPending => CallsInv'
<1> SUFFICES ASSUME CallsInv, CancelPending PROVE CallsInv'
  OBVIOUS
<1> DEFINE gone == Waiting
           woken == IF Cardinality(gone) < Len(waiters) THEN Cardinality(gone) ELSE Len(waiters)
           first == {waiters[j] : j \in 1 .. woken}
<1>1. /\ pending' = [k \in Keys |-> None]
      /\ capacity' = capacity + Cardinality(gone) - woken
      /\ pc' = [r \in Requests |-> IF r \in first THEN "granted" ELSE pc[r]]
      /\ waiters' = SubSeq(waiters, woken + 1, Len(waiters))
  BY DEF CancelPending, Waiting
<1>2. /\ IsFiniteSet(gone) /\ Cardinality(gone) \in Nat
      /\ IsFiniteSet(Units \ gone) /\ Cardinality(Units \ gone) = Cardinality(Units) - Cardinality(gone)
      /\ Cardinality(Units) \in Nat
  <2>1. IsFiniteSet(Units) /\ gone \in SUBSET Units
    BY DEF CallsInv, Units
  <2> HIDE DEF gone
  <2>2. IsFiniteSet(gone) /\ IsFiniteSet(Units \ gone)
        /\ Cardinality(Units \ gone) = Cardinality(Units) - Cardinality(Units \cap gone)
    BY <2>1, FS_Subset, FS_Difference
  <2>3. Units \cap gone = gone
    BY <2>1
  <2> QED
    BY <2>1, <2>2, <2>3, FS_CardinalityType
<1>3. woken \in 0 .. Len(waiters) /\ waiters \in Seq(Requests) /\ IsInjective(waiters)
      /\ woken <= Cardinality(gone) /\ (woken = Cardinality(gone) \/ woken = Len(waiters))
  BY <1>2 DEF CallsInv, CallsTyped
<1> HIDE DEF woken
<1>4. waiters \in Seq(Requests) /\ IsInjective(waiters) /\ woken \in 0 .. Len(waiters)
  BY <1>3
<1>5. /\ SubSeq(waiters, woken + 1, Len(waiters)) \in Seq(Requests)
      /\ IsInjective(SubSeq(waiters, woken + 1, Len(waiters)))
      /\ ToSet(SubSeq(waiters, woken + 1, Len(waiters))) = ToSet(waiters) \ first
      /\ first \subseteq ToSet(waiters)
      /\ IsFiniteSet(first) /\ Cardinality(first) = woken
      /\ woken = Len(waiters) => SubSeq(waiters, woken + 1, Len(waiters)) = <<>>
  BY <1>4, LeaveQueue
<1> HIDE DEF first, gone
<1>6. /\ waiters' \in Seq(Requests) /\ IsInjective(waiters')
      /\ ToSet(waiters') = ToSet(waiters) \ first /\ first \subseteq ToSet(waiters)
      /\ IsFiniteSet(first) /\ Cardinality(first) = woken
      /\ woken = Len(waiters) => waiters' = <<>>
  <2>1. waiters' = SubSeq(waiters, woken + 1, Len(waiters))
    BY <1>1
  <2> QED
    BY <1>5, <2>1
<1>7. ToSet(waiters) = {r \in Requests : pc[r] = "acquire"}
  BY DEF CallsInv
<1>8. Waiting' = {}
  BY <1>1, RequestAssumption DEF Waiting, Keys
<1>9. Units' = (Units \ gone) \union first
  <2>1. \A r \in gone : pc[r] \in Registered /\ r \notin first
    BY <1>6, <1>7 DEF CallsInv, gone, Registered
  <2> QED
    BY <1>1, <1>6, <1>7, <1>8, <2>1 DEF Units, Cleaning, gone, Registered, Waiting
<1>10. (Units \ gone) \intersect first = {}
  BY <1>6, <1>7 DEF CallsInv, Units, gone, Cleaning
<1>11. IsFiniteSet(Units') /\ Cardinality(Units') = Cardinality(Units \ gone) + woken
  <2> DEFINE kept == Units \ gone
  <2>1. IsFiniteSet(kept) /\ kept \intersect first = {} /\ Units' = kept \union first
    BY <1>2, <1>9, <1>10
  <2> HIDE DEF kept
  <2>2. /\ IsFiniteSet(kept \union first)
        /\ Cardinality(kept \union first)
             = Cardinality(kept) + Cardinality(first) - Cardinality(kept \intersect first)
    BY <1>6, <2>1, FS_Union
  <2>3. Cardinality(kept) \in Nat
    BY <2>1, FS_CardinalityType
  <2> QED
    <3>1. Cardinality(kept \intersect first) = 0
      BY <2>1, FS_EmptySet
    <3>2. IsFiniteSet(Units') /\ Cardinality(Units') = Cardinality(kept) + woken
      BY <1>3, <1>6, <2>1, <2>2, <2>3, <3>1
    <3> QED
      BY <3>2 DEF kept
<1>12. capacity' \in Nat /\ capacity' + Cardinality(Units') = MaxPending
  <2>1. capacity \in Nat /\ capacity + Cardinality(Units) = MaxPending
    BY DEF CallsInv, CallsTyped
  <2>2. Len(waiters) \in Nat
    BY <1>3
  <2>3. woken \in Nat /\ woken <= Cardinality(gone)
    BY <1>3, <2>2
  <2>4. capacity' = capacity + Cardinality(gone) - woken
    BY <1>1
  <2> QED
    BY <1>2, <1>11, <2>1, <2>3, <2>4
<1>13. waiters' # <<>> => capacity' = 0
  BY <1>1, <1>2, <1>3, <1>6 DEF CallsInv, CallsTyped
<1>14. CallsTyped'
  BY <1>1, <1>6, <1>12 DEF CallsInv, CallsTyped, Places, Early
<1>15. ToSet(waiters') = {r \in Requests : pc'[r] = "acquire"}
  BY <1>1, <1>6, <1>7
<1> QED
  BY <1>8, <1>11, <1>12, <1>13, <1>14, <1>15 DEF CallsInv

\* register() takes a unit or joins the queue.
LEMMA CallAcquires ==
  ASSUME CallsInv, NEW r \in Requests, Request(r)
  PROVE  CallsInv'
<1>1. /\ waiters \in Seq(Requests) /\ IsInjective(waiters)
      /\ ToSet(waiters) = {s \in Requests : pc[s] = "acquire"} /\ pc[r] = "idle"
      /\ pc \in [Requests -> Places]
  BY DEF CallsInv, CallsTyped, Request
<1>2. pending' = pending /\ Waiting' = Waiting /\ r \notin Waiting
  BY <1>1 DEF Request, waits, Waiting, CallsInv, Registered
<1>3. CASE capacity = 0 \/ waiters # <<>>
  <2>1. /\ pc' = [pc EXCEPT ![r] = "acquire"] /\ waiters' = Append(waiters, r)
        /\ capacity' = capacity /\ capacity = 0
    BY <1>3 DEF Request, CallsInv
  <2>2. r \notin ToSet(waiters)
    BY <1>1
  <2>3. /\ waiters' \in Seq(Requests) /\ IsInjective(waiters')
        /\ ToSet(waiters') = ToSet(waiters) \union {r}
    BY <1>1, <2>1, <2>2, AppendQueue
  <2>4. \A s \in Requests : pc'[s] = IF s = r THEN "acquire" ELSE pc[s]
    BY <1>1, <2>1
  <2>5. Units' = Units
    BY <1>1, <1>2, <2>4 DEF Units, Cleaning, Waiting
  <2>6. CallsTyped'
    BY <1>2, <2>1, <2>3 DEF CallsInv, CallsTyped, Places, Early
  <2>7. ToSet(waiters') = {s \in Requests : pc'[s] = "acquire"}
    BY <1>1, <2>3, <2>4
  <2>8. \A s \in Waiting' : pc'[s] \in Registered
    BY <1>2, <2>4 DEF CallsInv, Waiting
  <2> QED
    BY <2>1, <2>5, <2>6, <2>7, <2>8 DEF CallsInv
<1>4. CASE capacity # 0 /\ waiters = <<>>
  <2>1. /\ pc' = [pc EXCEPT ![r] = "granted"] /\ waiters' = waiters
        /\ capacity' = capacity - 1
    BY <1>4 DEF Request
  <2>2. \A s \in Requests : pc'[s] = IF s = r THEN "granted" ELSE pc[s]
    BY <1>1, <2>1
  <2>3. Units' = Units \union {r} /\ r \notin Units
    BY <1>1, <1>2, <2>2 DEF Units, Cleaning, Waiting
  <2>4. IsFiniteSet(Units') /\ Cardinality(Units') = Cardinality(Units) + 1
    BY <2>3, FS_AddElement DEF CallsInv
  <2>5. capacity \in Nat /\ Cardinality(Units) \in Nat /\ capacity + Cardinality(Units) = MaxPending
    BY FS_CardinalityType DEF CallsInv, CallsTyped
  <2>6. capacity' \in Nat /\ capacity' + Cardinality(Units') = MaxPending
    BY <1>4, <2>1, <2>4, <2>5
  <2>7. CallsTyped'
    BY <1>1, <1>2, <2>1, <2>6 DEF CallsInv, CallsTyped, Places, Early
  <2>8. ToSet(waiters') = {s \in Requests : pc'[s] = "acquire"}
    BY <1>1, <2>1, <2>2
  <2>9. \A s \in Waiting' : pc'[s] \in Registered
    BY <1>2, <2>2 DEF CallsInv, Waiting
  <2> QED
    BY <1>4, <2>1, <2>4, <2>6, <2>7, <2>8, <2>9 DEF CallsInv
<1> QED
  BY <1>3, <1>4

\* A call that is cancelled while it waits for a unit leaves the queue.
LEMMA CallGivesUp ==
  ASSUME CallsInv, NEW r \in Requests, pc[r] = "acquire", pc' = [pc EXCEPT ![r] = "done"],
         waiters' = RemoveFirst(waiters, r), UNCHANGED <<capacity, pending>>
  PROVE  CallsInv'
<1>1. /\ waiters \in Seq(Requests) /\ IsInjective(waiters)
      /\ ToSet(waiters) = {s \in Requests : pc[s] = "acquire"}
      /\ pc \in [Requests -> Places]
  BY DEF CallsInv, CallsTyped
<1>2. waiters' \in Seq(Requests) /\ IsInjective(waiters') /\ ToSet(waiters') = ToSet(waiters) \ {r}
  BY <1>1, RemoveQueue
<1>3. \A s \in Requests : pc'[s] = IF s = r THEN "done" ELSE pc[s]
  BY <1>1
<1>4. Waiting' = Waiting /\ r \notin Waiting
  BY DEF CallsInv, Waiting, Registered
<1>5. Units' = Units
  BY <1>3, <1>4 DEF Units, Cleaning, Waiting
<1>6. CallsTyped'
  BY <1>1, <1>2 DEF CallsInv, CallsTyped, Places, Over
<1>7. ToSet(waiters') = {s \in Requests : pc'[s] = "acquire"}
  BY <1>1, <1>2, <1>3
<1>8. \A s \in Waiting' : pc'[s] \in Registered
  BY <1>3, <1>4 DEF CallsInv, Waiting
<1>9. waiters # <<>>
  <2>1. r \in ToSet(waiters)
    BY <1>1
  <2> QED
    BY <2>1 DEF ToSet
<1> QED
  BY <1>5, <1>6, <1>7, <1>8, <1>9 DEF CallsInv

\* Every step keeps the units in order.
LEMMA CallsStep == CallsInv /\ [Next]_vars => CallsInv'
<1> SUFFICES ASSUME CallsInv, [Next]_vars PROVE CallsInv'
  OBVIOUS
<1>1. ASSUME UNCHANGED <<pc, capacity, waiters, pending>> PROVE CallsInv'
  BY <1>1 DEF CallsInv, CallsTyped, Units, Waiting, Cleaning
<1>2. Over \subseteq Places /\ Registered \subseteq Places /\ InCleanup \subseteq Places
      /\ "done" \in Over /\ "interrupted" \in Over
  BY DEF Over, Places
<1>3. ASSUME NEW r \in Requests, Request(r) PROVE CallsInv'
  BY <1>3, CallAcquires
<1>4. ASSUME NEW r \in Requests, pc[r] = "granted" PROVE r \in Units /\ r \notin Waiting
  BY <1>4 DEF Units, CallsInv, Registered
<1>5. ASSUME NEW r \in Requests, pc[r] \in InCleanup PROVE r \in Units /\ r \notin Waiting
  BY <1>5 DEF Units, CallsInv, Registered, InCleanup, Cleaning
<1>6. ASSUME NEW r \in Requests, RegisterFails(r) PROVE CallsInv'
  <2>1. Release(r, "done") /\ pending' = pending
    BY <1>6 DEF RegisterFails, waits
  <2> QED
    BY <1>2, <1>4, <1>6, <2>1, UnitReleased DEF RegisterFails
<1>7. ASSUME NEW r \in Requests, Register(r) PROVE CallsInv'
  <2>1. /\ pc[r] = "granted" /\ pending[Key(r)] = None /\ UNCHANGED <<capacity, waiters>>
        /\ pc' = [pc EXCEPT ![r] = "subscribing"] /\ pending' = [pending EXCEPT ![Key(r)] = r]
    BY <1>7 DEF Register, sem
  <2>2. "subscribing" \in Places
    BY DEF Places, Registered
  <2> QED
    BY <2>1, <2>2, CallMoves
<1>8. ASSUME NEW r \in Requests, pc[r] \in Registered, NEW where \in Registered,
             pc' = [pc EXCEPT ![r] = where], UNCHANGED <<capacity, waiters, pending>>
      PROVE  CallsInv'
  BY <1>2, <1>8, CallMoves
<1>9. ASSUME NEW r \in Requests, TopicReady(r) PROVE CallsInv'
  BY <1>8, <1>9 DEF TopicReady, Registered, sem, waits
<1>10. ASSUME NEW r \in Requests, pc[r] \in Registered, Ends(r) PROVE CallsInv'
  BY <1>10, CallUnregisters DEF Ends
<1>11. ASSUME NEW r \in Requests,
              TopicNotReady(r) \/ Publish(r) \/ Reply(r) \/ Timeout(r) \/ Cancel(r)
       PROVE  CallsInv'
  <2>1. pc[r] \in Registered
    BY <1>11 DEF TopicNotReady, Publish, Reply, Timeout, Cancel, Registered
  <2>2. \/ Ends(r)
        \/ pc' = [pc EXCEPT ![r] = "reply"] /\ UNCHANGED <<capacity, waiters, pending>>
    BY <1>11 DEF TopicNotReady, Publish, Reply, Timeout, Cancel, sem, waits
  <2>3. "reply" \in Registered
    BY DEF Registered
  <2> QED
    BY <1>8, <1>10, <2>1, <2>2, <2>3
<1>12. ASSUME NEW r \in Requests, pc[r] \in InCleanup, pending' = pending,
              \/ \E where \in Over : Release(r, where)
              \/ \E where \in InCleanup :
                   pc' = [pc EXCEPT ![r] = where] /\ UNCHANGED <<capacity, waiters>>
       PROVE  CallsInv'
  <2>1. r \in Units /\ r \notin Waiting
    BY <1>5, <1>12
  <2>2. ASSUME NEW where \in Over, Release(r, where) PROVE CallsInv'
    BY <1>12, <2>1, <2>2, UnitReleased
  <2>3. ASSUME NEW where \in InCleanup, pc' = [pc EXCEPT ![r] = where], UNCHANGED <<capacity, waiters>>
        PROVE  CallsInv'
    BY <1>2, <1>12, <2>3, CallMoves
  <2> QED
    BY <1>12, <2>2, <2>3
<1>13. ASSUME NEW r \in Requests,
              UnregisterResumes(r) \/ RemoveObserver(r) \/ ObserverRemoved(r) \/ CancelCleanup(r)
       PROVE  CallsInv'
  <2>1. pc[r] \in InCleanup /\ pending' = pending
    BY <1>13 DEF UnregisterResumes, RemoveObserver, ObserverRemoved, CancelCleanup, InCleanup, waits
  <2>2. \/ Release(r, "done") \/ Release(r, "interrupted")
        \/ pc' = [pc EXCEPT ![r] = "removing"] /\ UNCHANGED <<capacity, waiters>>
        \/ pc' = [pc EXCEPT ![r] = "unsubscribing"] /\ UNCHANGED <<capacity, waiters>>
    BY <1>13 DEF UnregisterResumes, RemoveObserver, ObserverRemoved, CancelCleanup, LetGo, Leave, sem
  <2>3. "removing" \in InCleanup /\ "unsubscribing" \in InCleanup
    BY DEF InCleanup
  <2> QED
    BY <1>2, <1>12, <2>1, <2>2, <2>3
<1>14. ASSUME NEW r \in Requests, CancelBeforeRegistering(r) PROVE CallsInv'
  <2>1. pending' = pending
    BY <1>14 DEF CancelBeforeRegistering, waits
  <2>2. CASE pc[r] = "acquire"
    BY <1>14, <2>1, <2>2, CallGivesUp DEF CancelBeforeRegistering
  <2>3. CASE pc[r] = "granted"
    <3>1. Release(r, "done")
      BY <1>14, <2>3 DEF CancelBeforeRegistering
    <3> QED
      BY <1>2, <1>4, <2>1, <2>3, <3>1, UnitReleased
  <2> QED
    BY <1>14, <2>2, <2>3 DEF CancelBeforeRegistering
<1>15. ASSUME NEW r \in Requests,
              \/ Claim(r) \/ AddObserver(r) \/ ObserverAnswered(r) \/ ObserverFails(r)
              \/ RestoreTopic(r) \/ \E g : Complete(r, g)
       PROVE  CallsInv'
  BY <1>1, <1>15 DEF Claim, AddObserver, ObserverAnswered, ObserverFails, RestoreTopic, Complete,
                     caller, sem, waits
<1>16. ASSUME NEW t \in Topics,
              AppSubscribe(t) \/ AppUnsubscribe(t) \/ AppSends(t) \/ AppLeaves(t) \/ AppAnswered(t)
       PROVE  CallsInv'
  BY <1>1, <1>16 DEF AppSubscribe, AppUnsubscribe, AppSends, AppLeaves, AppAnswered,
                     caller, sem, waits
<1>17. CASE \/ ConnectionLost \/ Connect \/ RestoreTopics \/ TopicRestored \/ RestoreEnds
            \/ Disconnect \/ UNCHANGED vars
  BY <1>1, <1>17 DEF ConnectionLost, Connect, RestoreTopics, TopicRestored, RestoreEnds,
                     Disconnect, vars, caller, sem, waits
<1>18. CASE CancelPending
  BY <1>18, CallsCancelled
<1>19. ASSUME NEW c \in claims, Complete(c[1], c[2]) PROVE CallsInv'
  BY <1>1, <1>19 DEF Complete, caller, sem, waits
<1> QED
  BY <1>3, <1>6, <1>7, <1>9, <1>11, <1>13, <1>14, <1>15, <1>16, <1>17, <1>18, <1>19 DEF Next

\* At the beginning all units are free.
LEMMA CallsInit == Init => CallsInv
<1> SUFFICES ASSUME Init PROVE CallsInv
  OBVIOUS
<1>1. Units = {} /\ Waiting = {}
  BY RequestAssumption DEF Init, Units, Waiting, Cleaning, Keys
<1>2. ToSet(waiters) = {} /\ IsInjective(waiters) /\ waiters \in Seq(Requests)
  BY DEF Init, ToSet, IsInjective
<1>3. CallsTyped
  BY <1>2, RequestAssumption DEF Init, CallsTyped, Places, Early
<1>4. IsFiniteSet(Units) /\ Cardinality(Units) = 0
  BY <1>1, FS_EmptySet
<1> QED
  BY <1>1, <1>2, <1>3, <1>4, RequestAssumption DEF Init, CallsInv

\* max_pending_requests is neither exceeded nor eroded, whatever the calls do: the units
\* that are free and the calls that own one add up to it, through replies, timeouts,
\* cancellations at any point of a cleanup, and disconnect().
THEOREM CapacityAccountingHolds == Spec => []CapacityAccounting
<1>1. Spec => []CallsInv
  BY CallsInit, CallsStep, PTL DEF Spec
<1>2. CallsInv => CapacityAccounting
  BY DEF CallsInv, CapacityAccounting, Units
<1> QED
  BY <1>1, <1>2, PTL

-----------------------------------------------------------------------------
(* The interests in response topics.                                       *)

Users(t) == {r \in Waiting : TopicOf[r] = t}
IsUnready(r) == pc[r] = "unready"

\* InterestAccounting for one topic.
Counted(t) ==
  IF topics[t] = None
  THEN Users(t) = {}
  ELSE /\ refcount[topics[t]] = Cardinality(Users(t))
       /\ Users(t) = {} => \E r \in Requests : IsUnready(r) /\ joined[r] = topics[t]

InterestTyped ==
  /\ topics \in [Topics -> Requests \union {None}]
  /\ refcount \in [Requests -> Nat]
  /\ joined \in [Requests -> Requests \union {None}]

\* An interest belongs to its topic, and to a call that has registered; a registered call
\* and a call that waits to let go know the interest of their topic.
InterestInv ==
  /\ InterestTyped
  /\ \A t \in Topics : topics[t] # None => TopicOf[topics[t]] = t /\ pc[topics[t]] \notin Early
  /\ \A r \in Requests : pc[r] \in Early => refcount[r] = 0
  /\ \A r \in Waiting : joined[r] = topics[TopicOf[r]]
  /\ \A r \in Requests : IsUnready(r) => joined[r] \in Requests /\ TopicOf[joined[r]] = TopicOf[r]
  /\ \A t \in Topics : Counted(t)

\* The waiters of a topic are finitely many.
LEMMA UsersFinite ==
  ASSUME CallsInv, NEW t
  PROVE  IsFiniteSet(Users(t)) /\ Cardinality(Users(t)) \in Nat
<1>1. Users(t) \in SUBSET Units /\ IsFiniteSet(Units)
  BY DEF Users, Units, CallsInv
<1> QED
  BY <1>1, FS_Subset, FS_CardinalityType

\* How a release moves the program counters.
LEMMA ReleaseMoves ==
  ASSUME CallsInv, NEW r \in Requests, NEW where \in Over, Release(r, where), pc[r] # "acquire"
  PROVE  /\ pc'[r] = where
         /\ \A s \in Requests \ {r} : pc'[s] = pc[s] \/ (pc[s] = "acquire" /\ pc'[s] = "granted")
<1>1. pc \in [Requests -> Places] /\ waiters \in Seq(Requests)
  BY DEF CallsInv, CallsTyped
<1>2. CASE waiters = <<>>
  BY <1>1, <1>2 DEF Release
<1>3. CASE waiters # <<>>
  <2>1. Head(waiters) \in ToSet(waiters) /\ Head(waiters) \in Requests
    BY <1>1, <1>3, TailQueue
  <2>2. pc[Head(waiters)] = "acquire"
    BY <2>1 DEF CallsInv
  <2> QED
    BY <1>1, <1>3, <2>1, <2>2 DEF Release
<1> QED
  BY <1>2, <1>3

\* Steps that neither register, nor unregister, nor let go of an interest.
LEMMA InterestKept ==
  ASSUME InterestInv, UNCHANGED <<topics, refcount, pending>>,
         joined' \in [Requests -> Requests \union {None}],
         \A s \in Requests : pc'[s] \in Early => pc[s] \in Early,
         \A s \in Requests : pc'[s] = "unready" <=> pc[s] = "unready",
         \A s \in Requests : s \in Waiting \/ pc[s] = "unready" => joined'[s] = joined[s]
  PROVE  InterestInv'
<1>1. InterestTyped'
  BY DEF InterestInv, InterestTyped
<1>2. Waiting' = Waiting /\ \A t : Users(t)' = Users(t)
  BY DEF Waiting, Users
<1>3. ASSUME NEW t \in Topics PROVE Counted(t)'
  BY <1>2 DEF InterestInv, Counted, IsUnready
<1>4. \A t \in Topics : topics'[t] # None => TopicOf[topics'[t]] = t /\ pc'[topics'[t]] \notin Early
  BY DEF InterestInv, InterestTyped
<1>5. \A r \in Requests : pc'[r] \in Early => refcount'[r] = 0
  BY DEF InterestInv
<1>6. \A r \in Waiting' : joined'[r] = topics'[TopicOf[r]]
  BY <1>2 DEF InterestInv, Waiting
<1>7. \A r \in Requests : IsUnready(r)' => joined'[r] \in Requests /\ TopicOf[joined'[r]] = TopicOf[r]
  BY DEF InterestInv, IsUnready
<1> QED
  BY <1>1, <1>3, <1>4, <1>5, <1>6, <1>7 DEF InterestInv

\* A call joins the interest of its topic, or creates it.
LEMMA InterestJoined ==
  ASSUME CallsInv, InterestInv, NEW r \in Requests, Register(r)
  PROVE  InterestInv'
<1> DEFINE t == TopicOf[r]
           i == IF topics[t] = None THEN r ELSE topics[t]
<1>1. /\ pc[r] = "granted" /\ pending[Key(r)] = None
      /\ pc' = [pc EXCEPT ![r] = "subscribing"] /\ pending' = [pending EXCEPT ![Key(r)] = r]
      /\ topics' = [topics EXCEPT ![t] = i] /\ refcount' = [refcount EXCEPT ![i] = @ + 1]
      /\ joined' = [joined EXCEPT ![r] = i]
  BY DEF Register
<1>2. t \in Topics /\ Key(r) \in Keys /\ None \notin Requests /\ \A s \in Requests : Key(s) \in Keys
  BY RequestAssumption DEF Topics, Keys
<1>3. pc \in [Requests -> Places] /\ pending \in [Keys -> Requests \union {None}]
  BY DEF CallsInv, CallsTyped
<1>4. i \in Requests /\ TopicOf[i] = t
  BY <1>2 DEF InterestInv, InterestTyped
<1>5. Waiting' = Waiting \union {r} /\ r \notin Waiting
  BY <1>1, <1>2, <1>3 DEF Waiting
<1>6. Users(t)' = Users(t) \union {r} /\ r \notin Users(t)
      /\ \A u \in Topics : u # t => Users(u)' = Users(u)
  BY <1>5 DEF Users
<1>7. refcount[i] = Cardinality(Users(t))
  <2>1. CASE topics[t] = None
    <3>1. Users(t) = {} /\ refcount[r] = 0
      BY <1>1, <1>2, <2>1 DEF InterestInv, Counted, Early
    <3> QED
      BY <2>1, <3>1, FS_EmptySet
  <2>2. CASE topics[t] # None
    BY <1>2, <2>2 DEF InterestInv, Counted
  <2> QED
    BY <2>1, <2>2
<1>8. Cardinality(Users(t)') = Cardinality(Users(t)) + 1 /\ Cardinality(Users(t)) \in Nat
  <2> DEFINE us == Users(t)
  <2>1. IsFiniteSet(us) /\ Cardinality(us) \in Nat /\ r \notin us
    BY <1>6, UsersFinite
  <2> HIDE DEF us
  <2>2. Cardinality(us \union {r}) = Cardinality(us) + 1
    BY <2>1, FS_AddElement
  <2> QED
    BY <1>6, <2>1, <2>2 DEF us
<1> HIDE DEF i
<1>9. InterestTyped'
  BY <1>1, <1>2, <1>4, <1>7, <1>8 DEF InterestInv, InterestTyped
<1>10. \A u \in Topics : topics'[u] = IF u = t THEN i ELSE topics[u]
  BY <1>1, <1>2 DEF InterestInv, InterestTyped
<1>11. \A s \in Requests : /\ pc'[s] = IF s = r THEN "subscribing" ELSE pc[s]
                           /\ joined'[s] = IF s = r THEN i ELSE joined[s]
                           /\ refcount'[s] = IF s = i THEN refcount[i] + 1 ELSE refcount[s]
  BY <1>1, <1>3, <1>4 DEF InterestInv, InterestTyped
<1>12. pc'[i] \notin Early
  <2>1. i = r \/ (topics[t] # None /\ i = topics[t])
    BY DEF i
  <2> QED
    BY <1>2, <1>4, <1>11, <2>1 DEF InterestInv, Early
<1>13. \A u \in Topics : u # t /\ topics[u] # None => topics[u] # i /\ topics[u] \in Requests
  BY <1>4 DEF InterestInv, InterestTyped
<1>14. ASSUME NEW u \in Topics PROVE Counted(u)'
  <2>1. CASE u = t
    <3>1. topics'[u] = i /\ i # None /\ refcount'[i] = Cardinality(Users(u)') /\ Users(u)' # {}
      BY <1>2, <1>4, <1>6, <1>7, <1>8, <1>10, <1>11, <2>1
    <3> QED
      BY <3>1 DEF Counted
  <2>2. CASE u # t
    <3>1. topics'[u] = topics[u] /\ Users(u)' = Users(u) /\ Counted(u)
      BY <1>6, <1>10, <2>2 DEF InterestInv
    <3>2. topics[u] # None => refcount'[topics[u]] = refcount[topics[u]]
      BY <1>11, <1>13, <2>2
    <3>3. \A s \in Requests : IsUnready(s) => IsUnready(s)' /\ joined'[s] = joined[s]
      BY <1>1, <1>11 DEF IsUnready
    <3> QED
      BY <3>1, <3>2, <3>3 DEF Counted
  <2> QED
    BY <2>1, <2>2
<1>15. \A u \in Topics : topics'[u] # None => TopicOf[topics'[u]] = u /\ pc'[topics'[u]] \notin Early
  <2>1. \A s \in Requests : pc'[s] \in Early => pc[s] \in Early
    BY <1>11 DEF Early
  <2> QED
    BY <1>4, <1>10, <1>12, <1>13, <2>1 DEF InterestInv
<1>16. \A s \in Requests : pc'[s] \in Early => refcount'[s] = 0
  BY <1>1, <1>11, <1>12 DEF InterestInv, Early
<1>17. ASSUME NEW s \in Waiting' PROVE joined'[s] = topics'[TopicOf[s]]
  <2>1. s \in Requests /\ TopicOf[s] \in Topics
    BY DEF Waiting, Topics
  <2>2. CASE s = r
    BY <1>2, <1>10, <1>11, <2>1, <2>2
  <2>3. CASE s # r
    <3>1. s \in Waiting /\ joined[s] = topics[TopicOf[s]] /\ s \in Users(TopicOf[s])
      BY <1>5, <2>3 DEF InterestInv, Users
    <3>2. topics[TopicOf[s]] # None
      BY <2>1, <3>1 DEF InterestInv, Counted
    <3> QED
      BY <1>10, <1>11, <2>1, <2>3, <3>1, <3>2 DEF i
  <2> QED
    BY <2>2, <2>3
<1>18. \A s \in Requests : IsUnready(s)' => joined'[s] \in Requests /\ TopicOf[joined'[s]] = TopicOf[s]
  BY <1>1, <1>11 DEF InterestInv, IsUnready
<1> QED
  BY <1>9, <1>14, <1>15, <1>16, <1>17, <1>18 DEF InterestInv

\* What a registered call does as it ends.
UnregisterEffect(r) ==
  LET i == topics[TopicOf[r]] IN
  \/ /\ refcount[i] > 1 /\ topics' = topics /\ pc'[r] = "done"
  \/ /\ refcount[i] <= 1 /\ topics' = topics /\ pc'[r] = "unready" /\ joined' = joined
  \/ /\ refcount[i] <= 1 /\ pc'[r] \in {"done", "removing"}
     /\ topics' = [topics EXCEPT ![TopicOf[r]] = None]

\* How it moves the program counters.
LEMMA UnregisterMoves ==
  ASSUME CallsInv, InterestInv, NEW r \in Requests, r \in Waiting, Unregister(r)
  PROVE  /\ UnregisterEffect(r)
         /\ pending' = [pending EXCEPT ![Key(r)] = None]
         /\ refcount' = [refcount EXCEPT ![topics[TopicOf[r]]] = @ - 1]
         /\ joined' = joined \/ joined' = [joined EXCEPT ![r] = None]
         /\ \A s \in Requests \ {r} : pc'[s] = pc[s] \/ (pc[s] = "acquire" /\ pc'[s] = "granted")
<1> DEFINE i == topics[TopicOf[r]]
           settled == \A s \in Requests \ {r} : pc'[s] = pc[s] \/ (pc[s] = "acquire" /\ pc'[s] = "granted")
<1>1. pc \in [Requests -> Places] /\ pc[r] # "acquire" /\ "done" \in Over
  BY DEF CallsInv, CallsTyped, Registered, Over
<1>2. ASSUME Release(r, "done") PROVE pc'[r] = "done" /\ settled
  BY <1>1, <1>2, ReleaseMoves
<1>3. ASSUME NEW where, pc' = [pc EXCEPT ![r] = where] PROVE pc'[r] = where /\ settled
  BY <1>1, <1>3
<1>4. i \in Requests /\ refcount[i] \in Nat /\ TopicOf[r] \in Topics
  <2>1. TopicOf[r] \in Topics /\ r \in Users(TopicOf[r])
    BY DEF Topics, Users
  <2>2. i # None
    BY <2>1 DEF InterestInv, Counted
  <2> QED
    BY <2>1, <2>2 DEF InterestInv, InterestTyped
<1>5. /\ pending' = [pending EXCEPT ![Key(r)] = None] /\ refcount' = [refcount EXCEPT ![i] = @ - 1]
      /\ IF refcount[i] > 1
         THEN Leave(r, "done") /\ UNCHANGED <<topics, guard>>
         ELSE IF Running(i)
         THEN /\ pc' = [pc EXCEPT ![r] = "unready"]
              /\ UNCHANGED <<joined, sem, topics, guard>>
         ELSE LetGo(r, task[i] = "ok")
  BY DEF Unregister, Waiting
<1>6. CASE refcount[i] > 1
  BY <1>2, <1>5, <1>6 DEF Leave, UnregisterEffect
<1>7. CASE ~(refcount[i] > 1) /\ Running(i)
  <2>1. pc' = [pc EXCEPT ![r] = "unready"] /\ joined' = joined /\ topics' = topics
    BY <1>5, <1>7
  <2>2. pc'[r] = "unready" /\ settled
    BY <1>3, <2>1
  <2>3. UnregisterEffect(r)
    BY <1>4, <1>7, <2>1, <2>2 DEF UnregisterEffect
  <2> QED
    BY <1>5, <2>1, <2>2, <2>3
<1>8. CASE ~(refcount[i] > 1) /\ ~Running(i)
  <2>1. /\ topics' = [topics EXCEPT ![TopicOf[r]] = None]
        /\ \/ pc' = [pc EXCEPT ![r] = "removing"] /\ joined' = joined
           \/ Release(r, "done") /\ joined' = [joined EXCEPT ![r] = None]
    BY <1>5, <1>8 DEF LetGo, Leave
  <2> QED
    BY <1>2, <1>3, <1>4, <1>5, <1>8, <2>1 DEF UnregisterEffect
<1> QED
  BY <1>6, <1>7, <1>8

\* A registered call leaves the interest, as the last one or not.
LEMMA InterestLeft ==
  ASSUME CallsInv, InterestInv, NEW r \in Requests, r \in Waiting, Unregister(r)
  PROVE  InterestInv'
<1> DEFINE t == TopicOf[r]
           i == topics[t]
<1>1. /\ UnregisterEffect(r)
      /\ pending' = [pending EXCEPT ![Key(r)] = None]
      /\ refcount' = [refcount EXCEPT ![i] = @ - 1]
      /\ joined' = joined \/ joined' = [joined EXCEPT ![r] = None]
      /\ \A s \in Requests \ {r} : pc'[s] = pc[s] \/ (pc[s] = "acquire" /\ pc'[s] = "granted")
  BY UnregisterMoves
<1>2. t \in Topics /\ Key(r) \in Keys /\ None \notin Requests /\ \A s \in Requests : Key(s) \in Keys
  BY RequestAssumption DEF Topics, Keys
<1>3. pc[r] \in Registered /\ pending \in [Keys -> Requests \union {None}]
  BY DEF CallsInv, CallsTyped
<1>4. r \in Users(t) /\ i # None /\ i \in Requests /\ TopicOf[i] = t /\ joined[r] = i
  <2>1. r \in Users(t) /\ joined[r] = i
    BY DEF Users, InterestInv
  <2>2. i # None
    BY <1>2, <2>1 DEF InterestInv, Counted
  <2> QED
    BY <1>2, <2>1, <2>2 DEF InterestInv, InterestTyped
<1>5. Waiting' = Waiting \ {r}
  BY <1>1, <1>2, <1>3 DEF Waiting
<1>6. Users(t)' = Users(t) \ {r} /\ \A u \in Topics : u # t => Users(u)' = Users(u)
  BY <1>5 DEF Users
<1>7. /\ refcount[i] = Cardinality(Users(t)) /\ refcount[i] \in Nat
      /\ Cardinality(Users(t)') = refcount[i] - 1 /\ Cardinality(Users(t)') \in Nat
      /\ Cardinality(Users(t)') = 0 => Users(t)' = {}
      /\ Cardinality(Users(t)') # 0 => Users(t)' # {}
  <2> DEFINE us == Users(t)
  <2>1. IsFiniteSet(us) /\ Cardinality(us) \in Nat /\ r \in us
    BY <1>4, UsersFinite
  <2>2. refcount[i] = Cardinality(us)
    BY <1>2, <1>4 DEF InterestInv, Counted
  <2> HIDE DEF us
  <2>3. IsFiniteSet(us \ {r}) /\ Cardinality(us \ {r}) = Cardinality(us) - 1
        /\ Cardinality(us \ {r}) \in Nat
    BY <2>1, FS_RemoveElement, FS_CardinalityType
  <2>4. Cardinality(us \ {r}) = 0 <=> us \ {r} = {}
    BY <2>3, FS_EmptySet
  <2> QED
    BY <1>6, <2>1, <2>2, <2>3, <2>4 DEF us
<1> HIDE DEF i
<1>8. \A s \in Requests : /\ s # r => joined'[s] = joined[s]
                          /\ refcount'[s] = IF s = i THEN refcount[i] - 1 ELSE refcount[s]
                          /\ joined'[s] \in Requests \union {None}
  BY <1>1, <1>4 DEF InterestInv, InterestTyped
<1>9. \A u \in Topics : u # t => topics'[u] = topics[u]
  BY <1>1 DEF UnregisterEffect, InterestInv, InterestTyped
<1>10. \/ topics'[t] = None /\ Users(t)' = {}
       \/ topics'[t] = i /\ (Users(t)' = {} => pc'[r] = "unready" /\ joined' = joined)
  <2>1. CASE refcount[i] > 1
    BY <1>1, <1>7, <2>1 DEF UnregisterEffect, i
  <2>2. CASE ~(refcount[i] > 1)
    <3>1. Users(t)' = {}
      BY <1>7, <2>2
    <3> QED
      BY <1>1, <1>2, <2>2, <3>1 DEF UnregisterEffect, InterestInv, InterestTyped, i
  <2> QED
    BY <2>1, <2>2
<1>11. InterestTyped'
  <2>1. refcount' \in [Requests -> Nat]
    BY <1>1, <1>4, <1>7 DEF InterestInv, InterestTyped
  <2>2. joined' \in [Requests -> Requests \union {None}]
    BY <1>1 DEF InterestInv, InterestTyped
  <2>3. topics' \in [Topics -> Requests \union {None}]
    BY <1>1 DEF UnregisterEffect, InterestInv, InterestTyped
  <2> QED
    BY <2>1, <2>2, <2>3 DEF InterestTyped
<1>12. \A s \in Requests : pc'[s] \in Early => pc[s] \in Early /\ s # r
  BY <1>1 DEF UnregisterEffect, Early
<1>13. \A u \in Topics : topics'[u] # None => TopicOf[topics'[u]] = u /\ pc'[topics'[u]] \notin Early
  <2> SUFFICES ASSUME NEW u \in Topics, topics'[u] # None
               PROVE  TopicOf[topics'[u]] = u /\ pc'[topics'[u]] \notin Early
    OBVIOUS
  <2>1. topics'[u] = topics[u]
    BY <1>9, <1>10 DEF i
  <2>2. topics[u] \in Requests /\ TopicOf[topics[u]] = u /\ pc[topics[u]] \notin Early
    BY <2>1 DEF InterestInv, InterestTyped
  <2> QED
    BY <1>12, <2>1, <2>2
<1>14. ASSUME NEW u \in Topics PROVE Counted(u)'
  <2>1. CASE u = t
    <3>1. CASE topics'[t] = None /\ Users(t)' = {}
      BY <2>1, <3>1 DEF Counted
    <3>2. CASE topics'[t] = i /\ (Users(t)' = {} => pc'[r] = "unready" /\ joined' = joined)
      <4>1. refcount'[topics'[t]] = Cardinality(Users(t)')
        BY <1>4, <1>7, <1>8, <3>2
      <4>2. Users(t)' = {} => IsUnready(r)' /\ joined'[r] = topics'[t]
        BY <1>4, <3>2 DEF IsUnready
      <4> QED
        BY <2>1, <3>2, <1>4, <4>1, <4>2 DEF Counted
    <3> QED
      BY <1>10, <3>1, <3>2
  <2>2. CASE u # t
    <3>1. topics'[u] = topics[u] /\ Users(u)' = Users(u) /\ Counted(u)
      BY <1>6, <1>9, <2>2 DEF InterestInv
    <3>2. topics[u] # None => topics[u] \in Requests /\ topics[u] # i
      BY <1>4, <2>2 DEF InterestInv, InterestTyped
    <3>3. topics[u] # None => refcount'[topics[u]] = refcount[topics[u]]
      BY <1>8, <3>2
    <3>4. \A s \in Requests : IsUnready(s) => IsUnready(s)' /\ joined'[s] = joined[s]
      BY <1>1, <1>3, <1>8 DEF IsUnready, Registered
    <3> QED
      BY <3>1, <3>3, <3>4 DEF Counted
  <2> QED
    BY <2>1, <2>2
<1>15. \A s \in Requests : pc'[s] \in Early => refcount'[s] = 0
  <2>1. pc[i] \notin Early
    BY <1>2, <1>4 DEF InterestInv, i
  <2> QED
    BY <1>8, <1>12, <2>1 DEF InterestInv
<1>16. ASSUME NEW s \in Waiting' PROVE joined'[s] = topics'[TopicOf[s]]
  <2>1. s \in Requests /\ s # r /\ TopicOf[s] \in Topics /\ s \in Users(TopicOf[s])'
        /\ joined[s] = topics[TopicOf[s]]
    BY <1>5 DEF Waiting, Topics, Users, InterestInv
  <2> QED
    BY <1>8, <1>9, <1>10, <2>1 DEF i
<1>17. ASSUME NEW s \in Requests, IsUnready(s)'
       PROVE  joined'[s] \in Requests /\ TopicOf[joined'[s]] = TopicOf[s]
  <2>1. CASE s = r
    <3>1. joined' = joined
      BY <1>1, <1>17, <2>1 DEF UnregisterEffect, IsUnready
    <3> QED
      BY <1>4, <2>1, <3>1
  <2>2. CASE s # r
    BY <1>1, <1>8, <1>17, <2>2 DEF IsUnready, InterestInv
  <2> QED
    BY <2>1, <2>2
<1> QED
  BY <1>11, <1>13, <1>14, <1>15, <1>16, <1>17 DEF InterestInv

\* A call that has waited for the readiness task, or is cancelled in that wait, forgets
\* the interest exactly when nobody uses it any more.
LEMMA InterestDropped ==
  ASSUME CallsInv, InterestInv, NEW r \in Requests, IsUnready(r), ~IsUnready(r)',
         pc'[r] \notin Early, UNCHANGED <<refcount, pending>>,
         topics' = IF refcount[joined[r]] = 0 /\ topics[TopicOf[r]] = joined[r]
                   THEN [topics EXCEPT ![TopicOf[r]] = None] ELSE topics,
         joined' = joined \/ joined' = [joined EXCEPT ![r] = None],
         \A s \in Requests \ {r} : pc'[s] = pc[s] \/ (pc[s] = "acquire" /\ pc'[s] = "granted")
  PROVE  InterestInv'
<1> DEFINE t == TopicOf[r]
           i == joined[r]
<1>1. t \in Topics /\ i \in Requests /\ TopicOf[i] = t /\ None \notin Requests
  BY RequestAssumption DEF Topics, InterestInv, IsUnready
<1>2. Waiting' = Waiting /\ \A u : Users(u)' = Users(u)
  BY DEF Waiting, Users
<1>3. \A s \in Requests : /\ s # r => joined'[s] = joined[s]
                          /\ s # r => (IsUnready(s)' <=> IsUnready(s))
                          /\ pc'[s] \in Early => pc[s] \in Early
  BY DEF InterestInv, InterestTyped, IsUnready, Early
<1>4. \A u \in Topics : /\ u # t => topics'[u] = topics[u]
                        /\ topics'[u] = None \/ topics'[u] = topics[u]
  BY DEF InterestInv, InterestTyped
<1>5. InterestTyped'
  BY <1>1 DEF InterestInv, InterestTyped
<1>6. topics'[t] = IF refcount[i] = 0 /\ topics[t] = i THEN None ELSE topics[t]
  BY <1>1 DEF InterestInv, InterestTyped
<1>7. topics[t] = i /\ refcount[i] = 0 => Users(t) = {}
  <2> SUFFICES ASSUME topics[t] = i, refcount[i] = 0 PROVE Users(t) = {}
    OBVIOUS
  <2>1. Cardinality(Users(t)) = 0
    BY <1>1 DEF InterestInv, Counted
  <2> QED
    BY <2>1, UsersFinite, FS_EmptySet
<1>8. topics[t] = i /\ refcount[i] # 0 => Users(t) # {}
  <2> SUFFICES ASSUME topics[t] = i, refcount[i] # 0 PROVE Users(t) # {}
    OBVIOUS
  <2>1. Cardinality(Users(t)) # 0
    BY <1>1 DEF InterestInv, Counted
  <2> QED
    BY <2>1, FS_EmptySet
<1> HIDE DEF i
<1>9. ASSUME NEW u \in Topics PROVE Counted(u)'
  <2>1. CASE u = t /\ topics[t] = i
    <3>1. CASE refcount[i] = 0
      BY <1>2, <1>6, <1>7, <2>1, <3>1 DEF Counted
    <3>2. CASE refcount[i] # 0
      <4>1. topics'[u] = topics[u] /\ Users(u)' = Users(u) /\ Users(u) # {} /\ Counted(u)
        BY <1>2, <1>6, <1>8, <2>1, <3>2 DEF InterestInv
      <4> QED
        BY <4>1 DEF Counted
    <3> QED
      BY <3>1, <3>2
  <2>2. CASE ~(u = t /\ topics[t] = i)
    <3>1. topics'[u] = topics[u] /\ Users(u)' = Users(u) /\ Counted(u)
      BY <1>2, <1>4, <1>6, <2>2 DEF InterestInv
    <3>2. topics[u] # None => topics[u] # i
      BY <1>1, <2>2 DEF InterestInv
    <3>3. \A s \in Requests : IsUnready(s) /\ joined[s] # i => IsUnready(s)' /\ joined'[s] = joined[s]
      BY <1>3 DEF i
    <3> QED
      BY <3>1, <3>2, <3>3 DEF Counted
  <2> QED
    BY <2>1, <2>2
<1>10. \A u \in Topics : topics'[u] # None => TopicOf[topics'[u]] = u /\ pc'[topics'[u]] \notin Early
  BY <1>3, <1>4 DEF InterestInv, InterestTyped
<1>11. \A s \in Requests : pc'[s] \in Early => refcount'[s] = 0
  BY <1>3 DEF InterestInv
<1>12. ASSUME NEW s \in Waiting' PROVE joined'[s] = topics'[TopicOf[s]]
  <2>1. s \in Requests /\ s \in Waiting /\ s # r /\ TopicOf[s] \in Topics /\ s \in Users(TopicOf[s])
    BY <1>2 DEF Waiting, IsUnready, CallsInv, Registered, Topics, Users
  <2>2. joined'[s] = joined[s] /\ joined[s] = topics[TopicOf[s]]
    BY <1>3, <2>1 DEF InterestInv
  <2> QED
    BY <1>4, <1>6, <1>7, <2>1, <2>2
<1>13. \A s \in Requests : IsUnready(s)' => joined'[s] \in Requests /\ TopicOf[joined'[s]] = TopicOf[s]
  BY <1>3 DEF InterestInv
<1> QED
  BY <1>5, <1>9, <1>10, <1>11, <1>12, <1>13 DEF InterestInv

\* The calls that disconnect() hands a unit were waiting for one.
LEMMA WokenWaited ==
  ASSUME CallsInv, CancelPending
  PROVE  \A r \in Requests : pc'[r] = pc[r] \/ (pc[r] = "acquire" /\ pc'[r] = "granted")
<1> DEFINE woken == IF Cardinality(Waiting) < Len(waiters) THEN Cardinality(Waiting) ELSE Len(waiters)
           first == {waiters[j] : j \in 1 .. woken}
<1>1. pc' = [r \in Requests |-> IF r \in first THEN "granted" ELSE pc[r]]
  BY DEF CancelPending, Waiting
<1>2. Cardinality(Waiting) \in Nat
  <2>1. Waiting \in SUBSET Units /\ IsFiniteSet(Units)
    BY DEF Units, CallsInv
  <2> QED
    BY <2>1, FS_Subset, FS_CardinalityType
<1>3. waiters \in Seq(Requests) /\ ToSet(waiters) = {r \in Requests : pc[r] = "acquire"}
  BY DEF CallsInv, CallsTyped
<1>4. woken \in 0 .. Len(waiters)
  BY <1>2, <1>3
<1> HIDE DEF woken
<1>5. \A j \in 1 .. woken : j \in DOMAIN waiters
  BY <1>3, <1>4
<1>6. \A r \in first : pc[r] = "acquire"
  BY <1>3, <1>5 DEF ToSet
<1> HIDE DEF first
<1> QED
  BY <1>1, <1>6

\* disconnect() forgets every call and every interest.
LEMMA InterestsCancelled ==
  ASSUME CallsInv, InterestInv, CancelPending
  PROVE  InterestInv'
<1>1. /\ pending' = [k \in Keys |-> None] /\ topics' = [t \in Topics |-> None]
      /\ UNCHANGED <<joined, refcount>>
  BY DEF CancelPending
<1>2. \A r \in Requests : pc'[r] = pc[r] \/ (pc[r] = "acquire" /\ pc'[r] = "granted")
  BY WokenWaited
<1>3. Waiting' = {}
  BY <1>1, RequestAssumption DEF Waiting, Keys
<1>4. \A t \in Topics : Counted(t)'
  BY <1>1, <1>3 DEF Counted, Users
<1>5. InterestTyped'
  BY <1>1 DEF InterestInv, InterestTyped
<1>6. \A r \in Requests : /\ pc'[r] \in Early => pc[r] \in Early
                          /\ IsUnready(r)' <=> IsUnready(r)
  BY <1>1, <1>2 DEF Early, IsUnready
<1>7. \A r \in Requests : pc'[r] \in Early => refcount'[r] = 0
  BY <1>1, <1>6 DEF InterestInv
<1>8. \A r \in Requests : IsUnready(r)' => joined'[r] \in Requests /\ TopicOf[joined'[r]] = TopicOf[r]
  BY <1>1, <1>6 DEF InterestInv
<1> QED
  BY <1>1, <1>3, <1>4, <1>5, <1>7, <1>8 DEF InterestInv

\* Every step keeps the interests in order.
LEMMA InterestStep == CallsInv /\ InterestInv /\ [Next]_vars => InterestInv'
<1> SUFFICES ASSUME CallsInv, InterestInv, [Next]_vars PROVE InterestInv'
  OBVIOUS
<1>1. /\ pc \in [Requests -> Places] /\ joined \in [Requests -> Requests \union {None}]
      /\ "done" \in Over /\ "interrupted" \in Over
      /\ \A where \in Over : where # "unready" /\ where \notin Early
  BY DEF CallsInv, CallsTyped, InterestInv, InterestTyped, Over, Early
<1>2. ASSUME UNCHANGED <<pc, joined, topics, refcount, pending>> PROVE InterestInv'
  BY <1>1, <1>2, InterestKept
\* A call moves between places where it has nothing to do with the interests, ...
<1>3. ASSUME NEW r \in Requests, NEW where, pc' = [pc EXCEPT ![r] = where],
             where # "unready", pc[r] # "unready", where \in Early => pc[r] \in Early,
             joined' = joined \/ (joined' = [joined EXCEPT ![r] = None] /\ r \notin Waiting),
             UNCHANGED <<topics, refcount, pending>>
      PROVE  InterestInv'
  <2>1. joined' \in [Requests -> Requests \union {None}]
    BY <1>1, <1>3
  <2>2. \A s \in Requests : /\ pc'[s] \in Early => pc[s] \in Early
                            /\ pc'[s] = "unready" <=> pc[s] = "unready"
                            /\ s \in Waiting \/ pc[s] = "unready" => joined'[s] = joined[s]
    BY <1>1, <1>3
  <2> QED
    BY <1>3, <2>1, <2>2, InterestKept
\* ... or ends there.
<1>4. ASSUME NEW r \in Requests, NEW where \in Over, Release(r, where),
             pc[r] \notin {"unready", "acquire"}, r \notin Waiting,
             joined' = joined \/ joined' = [joined EXCEPT ![r] = None],
             UNCHANGED <<topics, refcount, pending>>
      PROVE  InterestInv'
  <2>1. joined' \in [Requests -> Requests \union {None}]
    BY <1>1, <1>4
  <2>2. /\ pc'[r] = where
        /\ \A s \in Requests \ {r} : pc'[s] = pc[s] \/ (pc[s] = "acquire" /\ pc'[s] = "granted")
    BY <1>4, ReleaseMoves
  <2>3. \A s \in Requests : /\ pc'[s] \in Early => pc[s] \in Early
                            /\ pc'[s] = "unready" <=> pc[s] = "unready"
                            /\ s \in Waiting \/ pc[s] = "unready" => joined'[s] = joined[s]
    BY <1>1, <1>4, <2>2 DEF Early
  <2> QED
    BY <1>4, <2>1, <2>3, InterestKept
<1>5. \A r \in Waiting : pc[r] \in Registered
  BY DEF CallsInv
<1>6. ASSUME NEW r \in Requests, Request(r) PROVE InterestInv'
  <2>1. \E where \in {"acquire", "granted"} : pc' = [pc EXCEPT ![r] = where]
    BY <1>6 DEF Request
  <2>2. UNCHANGED <<joined, topics, refcount, pending>> /\ pc[r] = "idle"
    BY <1>6 DEF Request, interests, waits
  <2> QED
    BY <1>3, <2>1, <2>2 DEF Early
<1>7. ASSUME NEW r \in Requests, RegisterFails(r) PROVE InterestInv'
  BY <1>1, <1>4, <1>5, <1>7 DEF RegisterFails, Registered, interests, waits
<1>8. ASSUME NEW r \in Requests, Register(r) PROVE InterestInv'
  BY <1>8, InterestJoined
<1>9. ASSUME NEW r \in Requests, TopicReady(r) PROVE InterestInv'
  BY <1>3, <1>9 DEF TopicReady, Early, interests, waits
<1>10. ASSUME NEW r \in Requests, pc[r] \in Registered, Ends(r) PROVE InterestInv'
  <2>1. CASE r \in Waiting
    BY <1>10, <2>1, InterestLeft DEF Ends
  <2>2. CASE r \notin Waiting
    <3>1. /\ pc' = [pc EXCEPT ![r] = "done"] /\ joined' = [joined EXCEPT ![r] = None]
          /\ UNCHANGED <<topics, refcount, pending>>
      BY <1>10, <2>2 DEF Ends, Unregister, Waiting
    <3>2. pc[r] # "unready" /\ "done" # "unready" /\ "done" \notin Early
      BY <1>10 DEF Registered, Early
    <3> QED
      BY <1>3, <2>2, <3>1, <3>2
  <2> QED
    BY <2>1, <2>2
<1>11. ASSUME NEW r \in Requests,
              TopicNotReady(r) \/ Publish(r) \/ Reply(r) \/ Timeout(r) \/ Cancel(r)
       PROVE  InterestInv'
  <2>1. pc[r] \in Registered /\ pc[r] # "unready"
    BY <1>11 DEF TopicNotReady, Publish, Reply, Timeout, Cancel, Registered
  <2>2. \/ Ends(r)
        \/ pc' = [pc EXCEPT ![r] = "reply"] /\ UNCHANGED <<joined, topics, refcount, pending>>
    BY <1>11 DEF TopicNotReady, Publish, Reply, Timeout, Cancel, interests, waits
  <2>3. "reply" # "unready" /\ "reply" \notin Early
    BY DEF Early
  <2> QED
    BY <1>3, <1>10, <2>1, <2>2, <2>3
<1>12. ASSUME NEW r \in Requests, UnregisterResumes(r) \/ (CancelCleanup(r) /\ IsUnready(r))
       PROVE  InterestInv'
  <2>1. IsUnready(r) /\ pc[r] = "unready" /\ UNCHANGED <<refcount, pending>>
    BY <1>12 DEF UnregisterResumes, CancelCleanup, IsUnready, waits
  <2>2. topics' = IF refcount[joined[r]] = 0 /\ topics[TopicOf[r]] = joined[r]
                  THEN [topics EXCEPT ![TopicOf[r]] = None] ELSE topics
    <3>1. TopicOf[r] \in Topics /\ topics \in [Topics -> Requests \union {None}]
      BY DEF Topics, InterestInv, InterestTyped
    <3>2. CASE UnregisterResumes(r)
      BY <3>2 DEF UnregisterResumes, LetGo
    <3>3. CASE CancelCleanup(r)
      <4>1. topics' = [topics EXCEPT ![TopicOf[r]] =
                         IF refcount[joined[r]] = 0 /\ @ = joined[r] THEN None ELSE @]
        BY <2>1, <3>3 DEF CancelCleanup
      <4> QED
        BY <3>1, <4>1
    <3> QED
      BY <1>12, <3>2, <3>3
  <2>3. \/ pc' = [pc EXCEPT ![r] = "removing"] /\ joined' = joined
        \/ /\ Release(r, "done") \/ Release(r, "interrupted")
           /\ joined' = [joined EXCEPT ![r] = None]
    BY <1>12 DEF UnregisterResumes, CancelCleanup, LetGo, Leave
  <2>4. /\ ~IsUnready(r)' /\ pc'[r] \notin Early
        /\ \A s \in Requests \ {r} : pc'[s] = pc[s] \/ (pc[s] = "acquire" /\ pc'[s] = "granted")
    <3>1. CASE pc' = [pc EXCEPT ![r] = "removing"]
      BY <1>1, <3>1 DEF IsUnready, Early
    <3>2. ASSUME NEW where \in Over, Release(r, where)
          PROVE  /\ pc'[r] = where
                 /\ \A s \in Requests \ {r} : pc'[s] = pc[s] \/ (pc[s] = "acquire" /\ pc'[s] = "granted")
      BY <2>1, <3>2, ReleaseMoves
    <3> QED
      BY <1>1, <2>3, <3>1, <3>2 DEF IsUnready
  <2>5. joined' = joined \/ joined' = [joined EXCEPT ![r] = None]
    BY <2>3
  <2> QED
    BY <2>1, <2>2, <2>4, <2>5, InterestDropped
<1>13. ASSUME NEW r \in Requests,
              RemoveObserver(r) \/ ObserverRemoved(r) \/ (CancelCleanup(r) /\ ~IsUnready(r))
       PROVE  InterestInv'
  <2>1. pc[r] \in {"removing", "unsubscribing"} /\ UNCHANGED <<topics, refcount, pending>>
    BY <1>13 DEF RemoveObserver, ObserverRemoved, CancelCleanup, IsUnready, interests, waits
  <2>2. r \notin Waiting
    BY <1>5, <2>1 DEF Registered
  <2>3. \/ pc' = [pc EXCEPT ![r] = "unsubscribing"] /\ joined' = joined
        \/ /\ Release(r, "done") \/ Release(r, "interrupted")
           /\ joined' = [joined EXCEPT ![r] = None]
    BY <1>13 DEF RemoveObserver, ObserverRemoved, CancelCleanup, Leave
  <2>4. "unsubscribing" # "unready" /\ "unsubscribing" \notin Early
    BY DEF Early
  <2> QED
    BY <1>1, <1>3, <1>4, <2>1, <2>2, <2>3, <2>4
<1>14. ASSUME NEW r \in Requests, CancelBeforeRegistering(r) PROVE InterestInv'
  <2>1. UNCHANGED <<joined, topics, refcount, pending>> /\ r \notin Waiting
    BY <1>5, <1>14 DEF CancelBeforeRegistering, Registered, interests, waits
  <2>2. \/ pc[r] = "acquire" /\ pc' = [pc EXCEPT ![r] = "done"]
        \/ pc[r] = "granted" /\ Release(r, "done")
    BY <1>14 DEF CancelBeforeRegistering
  <2> QED
    BY <1>1, <1>3, <1>4, <2>1, <2>2
<1>15. ASSUME NEW r \in Requests,
              \/ Claim(r) \/ AddObserver(r) \/ ObserverAnswered(r) \/ ObserverFails(r)
              \/ RestoreTopic(r)
       PROVE  InterestInv'
  BY <1>2, <1>15 DEF Claim, AddObserver, ObserverAnswered, ObserverFails, RestoreTopic,
                     caller, interests, waits
<1>16. ASSUME NEW t \in Topics,
              AppSubscribe(t) \/ AppUnsubscribe(t) \/ AppSends(t) \/ AppLeaves(t) \/ AppAnswered(t)
       PROVE  InterestInv'
  BY <1>2, <1>16 DEF AppSubscribe, AppUnsubscribe, AppSends, AppLeaves, AppAnswered,
                     caller, interests, waits
<1>17. CASE \/ ConnectionLost \/ Connect \/ RestoreTopics \/ TopicRestored \/ RestoreEnds
            \/ Disconnect \/ UNCHANGED vars
  BY <1>2, <1>17 DEF ConnectionLost, Connect, RestoreTopics, TopicRestored, RestoreEnds,
                     Disconnect, vars, caller, interests, waits
<1>18. CASE CancelPending
  BY <1>18, InterestsCancelled
<1>19. ASSUME NEW c \in claims, Complete(c[1], c[2]) PROVE InterestInv'
  BY <1>2, <1>19 DEF Complete, caller, interests, waits
<1> QED
  BY <1>6, <1>7, <1>8, <1>9, <1>11, <1>12, <1>13, <1>14, <1>15, <1>16, <1>17, <1>18, <1>19 DEF Next

\* At the beginning nobody is interested in a topic.
LEMMA InterestInit == Init => InterestInv
BY RequestAssumption DEF Init, InterestInv, InterestTyped, Counted, Users, Waiting, Keys, Topics,
                         IsUnready, Early

\* The interest of a topic is there as long as a registered call needs it, and counts
\* those calls exactly, also when one joins while the last one waits to let go.
THEOREM InterestAccountingHolds == Spec => []InterestAccounting
<1>1. Spec => [](CallsInv /\ InterestInv)
  BY CallsInit, CallsStep, InterestInit, InterestStep, PTL DEF Spec
<1>2. InterestInv => InterestAccounting
  <2> SUFFICES ASSUME InterestInv, NEW t \in Topics
               PROVE  LET users == {r \in Waiting : TopicOf[r] = t} IN
                      IF topics[t] = None
                      THEN users = {}
                      ELSE /\ refcount[topics[t]] = Cardinality(users)
                           /\ users = {} => \E r \in Cleaning : pc[r] = "unready" /\ joined[r] = topics[t]
    BY DEF InterestAccounting
  <2> QED
    BY DEF InterestInv, Counted, Users, IsUnready, Cleaning
<1> QED
  BY <1>1, <1>2, PTL

-----------------------------------------------------------------------------
(* Claimed responses.                                                      *)

\* A call that has not registered is not claimed; a claimed call that still waits has its
\* claim on the current connection.
ClaimInv ==
  /\ claimed \in [Requests -> BOOLEAN] /\ future \in [Requests -> {"none", "waiting", "result", "failed"}]
  /\ \A r \in Requests : pc[r] \in Early => ~claimed[r]
  /\ \A r \in Waiting : claimed[r] /\ future[r] = "waiting" => <<r, generation>> \in claims

\* No call registers twice, and an interrupted cleanup stays so.
LEMMA NoReturn ==
  ASSUME CallsInv, InterestInv, [Next]_vars, NEW s \in Requests
  PROVE  /\ pc'[s] \in Early => pc[s] \in Early
         /\ pc[s] = "interrupted" => pc'[s] = "interrupted"
<1> DEFINE fine == /\ pc'[s] \in Early => pc[s] \in Early
                   /\ pc[s] = "interrupted" => pc'[s] = "interrupted"
<1>1. pc \in [Requests -> Places] /\ "done" \in Over /\ "interrupted" \in Over
  BY DEF CallsInv, CallsTyped, Over
<1>2. CASE pc' = pc
  BY <1>2
<1>3. ASSUME NEW r \in Requests, NEW where, pc' = [pc EXCEPT ![r] = where],
             where \in Early => pc[r] \in Early, pc[r] # "interrupted"
      PROVE  fine
  BY <1>1, <1>3
<1>4. ASSUME NEW r \in Requests, NEW where \in Over, Release(r, where),
             pc[r] \notin {"acquire", "interrupted"}
      PROVE  fine
  <2>1. /\ pc'[r] = where
        /\ \A q \in Requests \ {r} : pc'[q] = pc[q] \/ (pc[q] = "acquire" /\ pc'[q] = "granted")
    BY <1>4, ReleaseMoves
  <2> QED
    BY <1>1, <1>4, <2>1 DEF Early, Over
<1> HIDE DEF fine
<1>5. ASSUME NEW r \in Requests, Request(r) PROVE fine
  <2>1. \E where \in {"acquire", "granted"} : pc' = [pc EXCEPT ![r] = where]
    BY <1>5 DEF Request
  <2> QED
    BY <1>3, <1>5, <2>1 DEF Request, Early
<1>6. ASSUME NEW r \in Requests, RegisterFails(r) PROVE fine
  BY <1>1, <1>4, <1>6 DEF RegisterFails
<1>7. ASSUME NEW r \in Requests, Register(r) \/ TopicReady(r) PROVE fine
  BY <1>3, <1>7 DEF Register, TopicReady, Early
<1>8. ASSUME NEW r \in Requests, pc[r] \in Registered, Unregister(r) PROVE fine
  <2>1. CASE r \in Waiting
    <3>1. /\ UnregisterEffect(r)
          /\ \A q \in Requests \ {r} : pc'[q] = pc[q] \/ (pc[q] = "acquire" /\ pc'[q] = "granted")
      BY <1>8, <2>1, UnregisterMoves
    <3> QED
      BY <1>8, <3>1 DEF UnregisterEffect, Registered, Early, fine
  <2>2. CASE r \notin Waiting
    BY <1>3, <1>8, <2>2 DEF Unregister, Waiting, Registered, Early
  <2> QED
    BY <2>1, <2>2
<1>9. ASSUME NEW r \in Requests,
             TopicNotReady(r) \/ Publish(r) \/ Reply(r) \/ Timeout(r) \/ Cancel(r)
      PROVE  fine
  <2>1. pc[r] \in Registered
    BY <1>9 DEF TopicNotReady, Publish, Reply, Timeout, Cancel, Registered
  <2>2. Unregister(r) \/ pc' = [pc EXCEPT ![r] = "reply"]
    BY <1>9 DEF TopicNotReady, Publish, Reply, Timeout, Cancel, Ends
  <2> QED
    BY <1>3, <1>8, <2>1, <2>2 DEF Early, Registered
<1>10. ASSUME NEW r \in Requests,
              UnregisterResumes(r) \/ RemoveObserver(r) \/ ObserverRemoved(r) \/ CancelCleanup(r)
       PROVE  fine
  <2>1. pc[r] \in InCleanup
    BY <1>10 DEF UnregisterResumes, RemoveObserver, ObserverRemoved, CancelCleanup, InCleanup
  <2>2. \/ Release(r, "done") \/ Release(r, "interrupted")
        \/ pc' = [pc EXCEPT ![r] = "removing"] \/ pc' = [pc EXCEPT ![r] = "unsubscribing"]
    BY <1>10 DEF UnregisterResumes, RemoveObserver, ObserverRemoved, CancelCleanup, LetGo, Leave
  <2> QED
    BY <1>1, <1>3, <1>4, <2>1, <2>2 DEF InCleanup, Early
<1>11. ASSUME NEW r \in Requests, CancelBeforeRegistering(r) PROVE fine
  <2>1. \/ pc[r] = "acquire" /\ pc' = [pc EXCEPT ![r] = "done"]
        \/ pc[r] = "granted" /\ Release(r, "done")
    BY <1>11 DEF CancelBeforeRegistering
  <2> QED
    BY <1>1, <1>3, <1>4, <2>1 DEF Early
<1>12. CASE CancelPending
  BY <1>12, WokenWaited DEF fine, Early
<1>13. ASSUME NEW r \in Requests,
              \/ Claim(r) \/ AddObserver(r) \/ ObserverAnswered(r) \/ ObserverFails(r)
              \/ RestoreTopic(r)
       PROVE  fine
  BY <1>2, <1>13 DEF Claim, AddObserver, ObserverAnswered, ObserverFails, RestoreTopic, caller, fine
<1>14. ASSUME NEW t \in Topics,
              AppSubscribe(t) \/ AppUnsubscribe(t) \/ AppSends(t) \/ AppLeaves(t) \/ AppAnswered(t)
       PROVE  fine
  BY <1>2, <1>14 DEF AppSubscribe, AppUnsubscribe, AppSends, AppLeaves, AppAnswered, caller, fine
<1>15. CASE \/ ConnectionLost \/ Connect \/ RestoreTopics \/ TopicRestored \/ RestoreEnds
            \/ Disconnect \/ UNCHANGED vars
  BY <1>2, <1>15 DEF ConnectionLost, Connect, RestoreTopics, TopicRestored, RestoreEnds,
                     Disconnect, vars, caller
<1>16. ASSUME NEW c \in claims, Complete(c[1], c[2]) PROVE fine
  BY <1>2, <1>16 DEF Complete, caller, fine
<1>17. fine
  BY <1>5, <1>6, <1>7, <1>9, <1>10, <1>11, <1>12, <1>13, <1>14, <1>15, <1>16 DEF Next, fine
<1> QED
  BY <1>17 DEF fine

\* Every step keeps a claim for every claimed call that still waits.
LEMMA ClaimStep == CallsInv /\ InterestInv /\ ClaimInv /\ [Next]_vars => ClaimInv'
<1> SUFFICES ASSUME CallsInv, InterestInv, ClaimInv, [Next]_vars PROVE ClaimInv'
  OBVIOUS
<1>1. \A s \in Requests : pc'[s] \in Early => pc[s] \in Early
  BY NoReturn
<1>2. /\ None \notin Requests /\ \A s \in Requests : Key(s) \in Keys
      /\ pending \in [Keys -> Requests \union {None}]
  BY RequestAssumption DEF Keys, CallsInv, CallsTyped
<1>3. ASSUME UNCHANGED <<pending, claimed, future, claims, generation>> PROVE ClaimInv'
  BY <1>1, <1>3 DEF ClaimInv, Waiting
<1>4. ASSUME NEW r \in Requests, Register(r) PROVE ClaimInv'
  <2>1. /\ pc[r] = "granted" /\ pending' = [pending EXCEPT ![Key(r)] = r]
        /\ future' = [future EXCEPT ![r] = "waiting"] /\ UNCHANGED <<claimed, claims, generation>>
    BY <1>4 DEF Register, life
  <2>2. ~claimed[r]
    BY <2>1 DEF ClaimInv, Early
  <2>3. \A s \in Waiting' : s = r \/ (s \in Waiting /\ future'[s] = future[s])
    BY <1>2, <2>1 DEF Waiting, ClaimInv
  <2>4. future' \in [Requests -> {"none", "waiting", "result", "failed"}]
    BY <2>1 DEF ClaimInv
  <2> QED
    BY <1>1, <2>1, <2>2, <2>3, <2>4 DEF ClaimInv
<1>5. ASSUME NEW r \in Requests, Unregister(r), UNCHANGED <<claimed, generation>> PROVE ClaimInv'
  <2>1. /\ future' = [future EXCEPT ![r] = "none"]
        /\ \/ pending' = pending /\ claims' = claims /\ r \notin Waiting
           \/ /\ pending' = [pending EXCEPT ![Key(r)] = None]
              /\ claims' = {c \in claims : c[1] # r}
    BY <1>5 DEF Unregister, Waiting
  <2>2. \A s \in Waiting' : s \in Waiting /\ s # r /\ s \in Requests
    BY <1>2, <2>1 DEF Waiting
  <2>3. \A s \in Requests : s # r => future'[s] = future[s]
    BY <2>1 DEF ClaimInv
  <2>4. ASSUME NEW s \in Requests, s # r, <<s, generation>> \in claims
        PROVE  <<s, generation>> \in claims'
    BY <2>1, <2>4
  <2>5. future' \in [Requests -> {"none", "waiting", "result", "failed"}]
    BY <2>1 DEF ClaimInv
  <2> QED
    BY <1>1, <1>5, <2>2, <2>3, <2>4, <2>5 DEF ClaimInv
<1>6. ASSUME NEW r \in Requests,
             TopicNotReady(r) \/ Publish(r) \/ Reply(r) \/ Timeout(r) \/ Cancel(r)
      PROVE  ClaimInv'
  <2>1. \/ Unregister(r) /\ UNCHANGED <<claimed, generation>>
        \/ UNCHANGED <<pending, claimed, future, claims, generation>>
    BY <1>6 DEF TopicNotReady, Publish, Reply, Timeout, Cancel, Ends, waits, life
  <2> QED
    BY <1>3, <1>5, <2>1
<1>7. ASSUME NEW r \in Requests, Claim(r) PROVE ClaimInv'
  <2>1. /\ pending[Key(r)] = r
        /\ claimed' = [claimed EXCEPT ![r] = TRUE] /\ claims' = claims \union {<<r, generation>>}
        /\ UNCHANGED <<pc, pending, future, generation>>
    BY <1>7 DEF Claim, caller, life
  <2>2. pc[r] \notin Early
    BY <2>1 DEF CallsInv, Waiting, Registered, Early
  <2> QED
    BY <2>1, <2>2 DEF ClaimInv, Waiting
<1>8. ASSUME NEW c \in claims, Complete(c[1], c[2]) PROVE ClaimInv'
  <2> DEFINE r == c[1]
             g == c[2]
  <2>1. /\ claims' = claims \ {<<r, g>>}
        /\ future' = IF generation = g /\ pending[Key(r)] = r /\ future[r] = "waiting"
                     THEN [future EXCEPT ![r] = "result"] ELSE future
        /\ UNCHANGED <<pc, pending, claimed, generation>>
    BY <1>8 DEF Complete, caller, life
  <2> HIDE DEF r, g
  <2>2. Waiting' = Waiting /\ future' \in [Requests -> {"none", "waiting", "result", "failed"}]
    BY <2>1 DEF Waiting, ClaimInv
  <2>3. ASSUME NEW s \in Waiting, claimed[s], future'[s] = "waiting"
        PROVE  <<s, generation>> \in claims'
    <3>1. s \in Requests /\ pending[Key(s)] = s /\ future[s] = "waiting"
      BY <2>1, <2>3 DEF Waiting, ClaimInv
    <3>2. <<s, generation>> \in claims
      BY <2>3, <3>1 DEF ClaimInv
    <3>3. ~(s = r /\ generation = g)
      BY <2>1, <2>3, <3>1 DEF ClaimInv
    <3> QED
      BY <2>1, <3>2, <3>3
  <2> QED
    BY <2>1, <2>2, <2>3 DEF ClaimInv
<1>9. CASE Connect
  <2>1. /\ claimed' = [r \in Requests |-> claimed[r] /\ pending[Key(r)] # r]
        /\ UNCHANGED <<pc, pending, future>>
    BY <1>9 DEF Connect, caller
  <2> QED
    BY <2>1 DEF ClaimInv, Waiting
<1>10. CASE CancelPending
  <2>1. /\ pending' = [k \in Keys |-> None] /\ UNCHANGED claimed
        /\ future' \in [Requests -> {"none", "waiting", "result", "failed"}]
    BY <1>10 DEF CancelPending, ClaimInv
  <2>2. Waiting' = {}
    BY <1>2, <2>1 DEF Waiting
  <2> QED
    BY <1>1, <2>1, <2>2 DEF ClaimInv
<1>11. ASSUME NEW r \in Requests,
              \/ Request(r) \/ RegisterFails(r) \/ TopicReady(r) \/ UnregisterResumes(r)
              \/ RemoveObserver(r) \/ ObserverRemoved(r)
              \/ CancelBeforeRegistering(r) \/ CancelCleanup(r)
       PROVE  ClaimInv'
  BY <1>3, <1>11 DEF Request, RegisterFails, TopicReady, UnregisterResumes, RemoveObserver,
                     ObserverRemoved, CancelBeforeRegistering, CancelCleanup, waits, life
<1>12. ASSUME NEW r \in Requests,
              AddObserver(r) \/ ObserverAnswered(r) \/ ObserverFails(r) \/ RestoreTopic(r)
       PROVE  ClaimInv'
  BY <1>3, <1>12 DEF AddObserver, ObserverAnswered, ObserverFails, RestoreTopic, waits, life
<1>13. ASSUME NEW t \in Topics,
              AppSubscribe(t) \/ AppUnsubscribe(t) \/ AppSends(t) \/ AppLeaves(t) \/ AppAnswered(t)
       PROVE  ClaimInv'
  BY <1>3, <1>13 DEF AppSubscribe, AppUnsubscribe, AppSends, AppLeaves, AppAnswered, waits, life
<1>14. CASE \/ ConnectionLost \/ RestoreTopics \/ TopicRestored \/ RestoreEnds
            \/ Disconnect \/ UNCHANGED vars
  BY <1>3, <1>14 DEF ConnectionLost, RestoreTopics, TopicRestored, RestoreEnds,
                     Disconnect, vars, waits, life
<1> QED
  BY <1>4, <1>6, <1>7, <1>8, <1>9, <1>10, <1>11, <1>12, <1>13, <1>14 DEF Next

\* A response is claimed for a call at most once, and never in vain: a claimed call that
\* still waits has a claim that the current connection will deliver.
THEOREM ClaimIsDeliverableHolds == Spec => []ClaimIsDeliverable
<1>1. Init => ClaimInv
  BY RequestAssumption DEF Init, ClaimInv, Waiting, Keys
<1>2. Spec => [](CallsInv /\ InterestInv /\ ClaimInv)
  BY <1>1, CallsInit, CallsStep, InterestInit, InterestStep, ClaimStep, PTL DEF Spec
<1>3. ClaimInv => ClaimIsDeliverable
  BY DEF ClaimInv, ClaimIsDeliverable
<1> QED
  BY <1>2, <1>3, PTL

-----------------------------------------------------------------------------
(* The guards, the observers and the broker, one topic at a time.          *)

AppOp == <<"app", None>>
AddOp(i) == <<"add", i>>
RemoveOp(r) == <<"remove", r>>
Ops == {AppOp} \union {AddOp(i) : i \in Requests} \union {RemoveOp(r) : r \in Requests}

OnTopic(t) == {j \in Requests : TopicOf[j] = t}
Removing(r) == pc[r] \in {"removing", "unsubscribing"}

\* Only the application's operations are behind op.
LastOfCalls(s, op) == \A j, k \in 1 .. Len(s) : s[j] = op /\ j < k => s[k] = AppOp

\* Every operation in the guard belongs to somebody at work on the topic.
MayHold(t, op) ==
  \/ op = AppOp /\ app[t] \notin {"none", "owned"}
  \/ \E i \in OnTopic(t) : op = AddOp(i) /\ Running(i)
  \/ \E r \in OnTopic(t) : op = RemoveOp(r) /\ Removing(r)

GuardFits(t) ==
  /\ guard[t] \in Seq(Ops) /\ IsInjective(guard[t])
  /\ \A op \in ToSet(guard[t]) : MayHold(t, op)

DeadTopic(t) ==
  ~alive => /\ guard[t] = <<>> /\ app[t] \in {"none", "owned"} /\ t \notin observers
            /\ \A j \in OnTopic(t) : j \notin toRestore

Fresh(t) == \A j \in OnTopic(t) : pc[j] \in Early => task[j] = "none" /\ j \notin toRestore

\* restore() only starts the task of an interest that is still in _topics.
RestoreFits(t) == \A j \in OnTopic(t) : j \in toRestore /\ bound /\ refcount[j] > 0 => topics[t] = j

\* Whoever waits for the broker holds the guard.
SubackHolds(t) ==
  alive => \A j \in OnTopic(t) :
             task[j] = "suback" => Holds(t, AddOp(j)) /\ ~HasEntry(t) /\ t \in observers

UnsubackHolds(t) ==
  alive => \A r \in OnTopic(t) :
             pc[r] = "unsubscribing" => Holds(t, RemoveOp(r)) /\ t \notin observers

BrokerHas(t) == alive /\ (HasEntry(t) \/ t \in observers) => t \in broker

\* The operations of earlier interests are in front of the current one's, and gone once it
\* has had its turn.
Ordered(t) ==
  LET i == topics[t] IN
  alive /\ i # None =>
    /\ task[i] = "queued" => AddOp(i) \in ToSet(guard[t]) /\ LastOfCalls(guard[t], AddOp(i))
    /\ task[i] \notin {"none", "queued"} => ToSet(guard[t]) \subseteq {AddOp(i), AppOp}
    /\ task[i] = "ok" => t \in observers

Interrupted(t) == \E r \in OnTopic(t) : pc[r] = "interrupted"

Supported(t) ==
  t \in observers =>
    \/ topics[t] # None /\ task[topics[t]] = "ok"
    \/ exiting
    \/ \E j \in Requests : AddOp(j) \in ToSet(guard[t]) \/ RemoveOp(j) \in ToSet(guard[t])
    \/ Interrupted(t)

\* Only an interrupted cleanup forgets an interest whose task still runs.
Forgotten(t) ==
  alive => \A j \in OnTopic(t) : Running(j) /\ topics[t] # j => exiting \/ Interrupted(t)

TopicInv(t) ==
  /\ GuardFits(t) /\ DeadTopic(t) /\ Fresh(t) /\ RestoreFits(t) /\ SubackHolds(t)
  /\ UnsubackHolds(t) /\ BrokerHas(t) /\ Ordered(t) /\ Supported(t) /\ Forgotten(t)

ObserverTyped ==
  /\ guard \in [Topics -> Seq(Ops)]
  /\ task \in [Requests -> {"none", "queued", "suback", "ok", "failed", "rejected", "cancelled"}]
  /\ app \in [Topics -> {"none", "queued", "requeued", "subscribing", "resubscribing", "owned",
                         "leaving", "unsubscribing"}]
  /\ observers \subseteq Topics /\ toRestore \subseteq Requests
  /\ alive \in BOOLEAN /\ bound \in BOOLEAN /\ exiting \in BOOLEAN

ObserverInv ==
  /\ ObserverTyped
  /\ ~bound => exiting \/ ~alive
  /\ \A t \in Topics : TopicInv(t)

\* Operations of different kinds, or of different calls, are different.
LEMMA OpsDiffer ==
  \A i, j : /\ AddOp(i) # AppOp /\ RemoveOp(i) # AppOp /\ AddOp(i) # RemoveOp(j)
            /\ (AddOp(i) = AddOp(j) => i = j) /\ (RemoveOp(i) = RemoveOp(j) => i = j)
BY DEF AddOp, RemoveOp, AppOp

\* An operation of the application may queue behind any other; one of a call may be
\* the last one when it comes.
LEMMA LastAppend ==
  ASSUME NEW s \in Seq(Ops), NEW op \in Ops, NEW e \in Ops,
         \/ e = AppOp /\ LastOfCalls(s, op)
         \/ e = op /\ op \notin ToSet(s)
  PROVE  LastOfCalls(Append(s, e), op)
<1> SUFFICES ASSUME NEW j \in 1 .. Len(s) + 1, NEW k \in 1 .. Len(s) + 1,
                    Append(s, e)[j] = op, j < k
             PROVE  Append(s, e)[k] = AppOp
  BY DEF LastOfCalls
<1>1. j \in 1 .. Len(s) /\ Append(s, e)[j] = s[j] /\ DOMAIN s = 1 .. Len(s)
  OBVIOUS
<1>2. op \in ToSet(s)
  BY <1>1 DEF ToSet
<1>3. e = AppOp /\ LastOfCalls(s, op)
  BY <1>2
<1>4. CASE k = Len(s) + 1
  BY <1>3, <1>4
<1>5. CASE k \in 1 .. Len(s)
  BY <1>1, <1>3, <1>5 DEF LastOfCalls
<1> QED
  BY <1>4, <1>5

\* It stays so when another operation leaves the guard.
LEMMA LastRemove ==
  ASSUME NEW s \in Seq(Ops), IsInjective(s), NEW op, NEW e, LastOfCalls(s, op)
  PROVE  LastOfCalls(RemoveFirst(s, e), op)
<1>1. DOMAIN s = 1 .. Len(s) /\ Len(s) \in Nat
  OBVIOUS
<1>2. CASE \A k \in 1 .. Len(s) : s[k] # e
  BY <1>2, RemoveFirstAbsent
<1>3. ASSUME NEW k \in 1 .. Len(s), s[k] = e PROVE LastOfCalls(RemoveFirst(s, e), op)
  <2>1. \A j \in 1 .. Len(s) : s[j] = s[k] => k <= j
    BY <1>1 DEF IsInjective
  <2> DEFINE u == RemoveFirst(s, s[k])
  <2>2. /\ Len(u) = Len(s) - 1
        /\ \A j \in 1 .. Len(s) - 1 : u[j] = IF j < k THEN s[j] ELSE s[j + 1]
    BY <2>1, RemoveFirstFacts
  <2> HIDE DEF u
  <2>3. LastOfCalls(u, op)
    BY <1>1, <2>2 DEF LastOfCalls
  <2> QED
    BY <1>3, <2>3 DEF u
<1> QED
  BY <1>2, <1>3

\* When its turn comes, only operations of the application are left.
LEMMA LastAtHead ==
  ASSUME NEW s \in Seq(Ops), NEW op, s # <<>>, Head(s) = op, LastOfCalls(s, op)
  PROVE  ToSet(s) \subseteq {op, AppOp}
<1>1. DOMAIN s = 1 .. Len(s) /\ 1 \in 1 .. Len(s) /\ s[1] = op /\ Len(s) \in Nat
  OBVIOUS
<1>2. \A k \in 1 .. Len(s) : k = 1 \/ s[k] = AppOp
  BY <1>1 DEF LastOfCalls
<1> QED
  BY <1>1, <1>2 DEF ToSet

\* What joins the guard of a topic leaves its holder alone.
LEMMA GuardJoined ==
  ASSUME NEW s \in Seq(Ops), IsInjective(s), NEW e \in Ops, e \notin ToSet(s)
  PROVE  /\ Append(s, e) \in Seq(Ops) /\ IsInjective(Append(s, e))
         /\ ToSet(Append(s, e)) = ToSet(s) \union {e}
         /\ Append(s, e) # <<>> /\ (s # <<>> => Head(Append(s, e)) = Head(s))
BY AppendQueue

\* The holder is a member.
LEMMA HolderListed ==
  ASSUME NEW s \in Seq(Ops), s # <<>>
  PROVE  Head(s) \in ToSet(s)
BY TailQueue

\* The step of call j, if any, is none that its topic would notice.
Calm(j) ==
  /\ pc'[j] \in Early => pc[j] \in Early
  /\ Removing(j) => pc'[j] = pc[j]
  /\ pc'[j] = "unsubscribing" => pc[j] = "unsubscribing"
  /\ pc[j] = "interrupted" => pc'[j] = "interrupted"

\* Nothing changes on the topic.
LEMMA TopicUntouched ==
  ASSUME NEW t \in Topics, TopicInv(t),
         UNCHANGED <<alive, bound, exiting>>, alive \in BOOLEAN, bound \in BOOLEAN, exiting \in BOOLEAN,
         guard'[t] = guard[t], app'[t] = app[t], topics'[t] = topics[t],
         topics[t] \in OnTopic(t) \union {None},
         t \in observers' <=> t \in observers, t \in broker' <=> t \in broker,
         \A j \in OnTopic(t) :
           /\ task'[j] = task[j] /\ (j \in toRestore' => j \in toRestore)
           /\ refcount'[j] > 0 => refcount[j] > 0 \/ topics[t] = j
           /\ Calm(j)
  PROVE  TopicInv(t)'
<1> USE DEF Calm
<1>1. Interrupted(t) => Interrupted(t)'
  BY DEF Interrupted
<1>2. GuardFits(t)'
  <2>1. \A op \in ToSet(guard[t]) : MayHold(t, op)'
    BY DEF TopicInv, GuardFits, MayHold, Running, Removing
  <2> QED
    BY <2>1 DEF TopicInv, GuardFits
<1>3. DeadTopic(t)' /\ Fresh(t)' /\ RestoreFits(t)'
  BY DEF TopicInv, DeadTopic, Fresh, RestoreFits
<1>4. SubackHolds(t)' /\ UnsubackHolds(t)' /\ BrokerHas(t)'
  BY DEF TopicInv, SubackHolds, UnsubackHolds, BrokerHas, Holds, HasEntry, Removing
<1>5. Ordered(t)'
  BY DEF TopicInv, Ordered
<1>6. Supported(t)' /\ Forgotten(t)'
  BY <1>1 DEF TopicInv, Supported, Forgotten, Running
<1> QED
  BY <1>2, <1>3, <1>4, <1>5, <1>6 DEF TopicInv

\* The connection is dead.
LEMMA TopicDead ==
  ASSUME NEW t \in Topics, ~alive', guard'[t] = <<>>, app'[t] \in {"none", "owned"},
         t \notin observers', \A j \in OnTopic(t) : j \notin toRestore',
         \A j \in OnTopic(t) : pc'[j] \in Early => task'[j] = "none"
  PROVE  TopicInv(t)'
<1>1. guard'[t] \in Seq(Ops) /\ IsInjective(guard'[t]) /\ ToSet(guard'[t]) = {}
  BY DEF IsInjective, ToSet
<1> QED
  BY <1>1 DEF TopicInv, GuardFits, DeadTopic, Fresh, RestoreFits, SubackHolds, UnsubackHolds,
              BrokerHas, Ordered, Supported, Forgotten

\* The readiness task of the topic's interest is created and queues for the guard.
LEMMA TopicAsked ==
  ASSUME NEW t \in Topics, TopicInv(t), alive, alive', UNCHANGED <<bound, exiting>>,
         bound \in BOOLEAN, exiting \in BOOLEAN,
         NEW i \in OnTopic(t), task[i] = "none", task'[i] = "queued", pc'[i] \notin Early,
         topics[t] \in {None, i}, topics'[t] = i, i # None,
         guard'[t] = Append(guard[t], AddOp(i)), app'[t] = app[t],
         t \in observers' <=> t \in observers, t \in broker' <=> t \in broker,
         \A j \in OnTopic(t) :
           /\ (j # i => task'[j] = task[j]) /\ (j \in toRestore' => j \in toRestore)
           /\ refcount'[j] > 0 => refcount[j] > 0 \/ j = i
           /\ Calm(j)
  PROVE  TopicInv(t)'
<1> USE DEF Calm
<1>1. guard[t] \in Seq(Ops) /\ IsInjective(guard[t]) /\ AddOp(i) \in Ops
  BY DEF TopicInv, GuardFits, Ops, OnTopic
<1>2. AddOp(i) \notin ToSet(guard[t])
  BY OpsDiffer DEF TopicInv, GuardFits, MayHold, Running
<1>3. /\ guard'[t] \in Seq(Ops) /\ IsInjective(guard'[t])
      /\ ToSet(guard'[t]) = ToSet(guard[t]) \union {AddOp(i)}
      /\ guard'[t] # <<>> /\ (guard[t] # <<>> => Head(guard'[t]) = Head(guard[t]))
  BY <1>1, <1>2, GuardJoined
<1>4. LastOfCalls(guard'[t], AddOp(i))
  BY <1>1, <1>2, LastAppend
<1>5. Interrupted(t) => Interrupted(t)'
  BY DEF Interrupted
<1>6. GuardFits(t)'
  <2>1. \A op \in ToSet(guard[t]) : MayHold(t, op)'
    BY DEF TopicInv, GuardFits, MayHold, Running, Removing
  <2>2. MayHold(t, AddOp(i))'
    BY DEF MayHold, Running
  <2> QED
    BY <1>3, <2>1, <2>2 DEF GuardFits
<1>7. DeadTopic(t)' /\ Fresh(t)'
  BY DEF TopicInv, DeadTopic, Fresh
<1>8. RestoreFits(t)'
  BY RequestAssumption DEF TopicInv, RestoreFits, OnTopic
<1>9. SubackHolds(t)' /\ UnsubackHolds(t)' /\ BrokerHas(t)'
  BY <1>3 DEF TopicInv, SubackHolds, UnsubackHolds, BrokerHas, Holds, HasEntry, Removing
<1>10. Ordered(t)'
  BY <1>3, <1>4 DEF Ordered
<1>11. Supported(t)'
  BY <1>3, <1>5 DEF TopicInv, Supported, OnTopic
<1>12. Forgotten(t)'
  BY <1>5, RequestAssumption DEF TopicInv, Forgotten, Running, OnTopic
<1> QED
  BY <1>6, <1>7, <1>8, <1>9, <1>10, <1>11, <1>12 DEF TopicInv

\* The last waiter forgets the interest, and asks for the removal of its observer if there
\* is one.
LEMMA TopicLetGo ==
  ASSUME NEW t \in Topics, TopicInv(t), alive, alive', UNCHANGED <<bound, exiting>>,
         bound \in BOOLEAN, exiting \in BOOLEAN,
         NEW r \in OnTopic(t), ~Removing(r), NEW i \in OnTopic(t), i # None,
         topics[t] = i, topics'[t] = None, ~Running(i), ~(refcount'[i] > 0),
         app'[t] = app[t], t \in observers' <=> t \in observers, t \in broker' <=> t \in broker,
         \/ guard'[t] = guard[t] /\ (task[i] # "ok" \/ exiting) /\ Calm(r)
         \/ guard'[t] = Append(guard[t], RemoveOp(r)) /\ pc'[r] = "removing" /\ pc[r] # "interrupted",
         \A j \in OnTopic(t) :
           /\ task'[j] = task[j] /\ (j \in toRestore' => j \in toRestore)
           /\ j # i => (refcount'[j] > 0 => refcount[j] > 0)
           /\ j # r => Calm(j)
  PROVE  TopicInv(t)'
<1> USE DEF Calm
<1>1. guard[t] \in Seq(Ops) /\ IsInjective(guard[t]) /\ RemoveOp(r) \in Ops
  BY DEF TopicInv, GuardFits, Ops, OnTopic
<1>2. RemoveOp(r) \notin ToSet(guard[t])
  BY OpsDiffer DEF TopicInv, GuardFits, MayHold
<1>3. ASSUME guard'[t] = Append(guard[t], RemoveOp(r))
      PROVE  /\ guard'[t] \in Seq(Ops) /\ IsInjective(guard'[t])
             /\ ToSet(guard'[t]) = ToSet(guard[t]) \union {RemoveOp(r)}
             /\ guard'[t] # <<>> /\ (guard[t] # <<>> => Head(guard'[t]) = Head(guard[t]))
  BY <1>1, <1>2, <1>3, GuardJoined
<1>4. /\ guard'[t] \in Seq(Ops) /\ IsInjective(guard'[t])
      /\ \A op : Holds(t, op) => Holds(t, op)'
      /\ ToSet(guard[t]) \subseteq ToSet(guard'[t])
      /\ ToSet(guard'[t]) \subseteq ToSet(guard[t]) \union {RemoveOp(r)}
      /\ RemoveOp(r) \in ToSet(guard'[t]) => Removing(r)'
  BY <1>1, <1>2, <1>3 DEF Holds, Removing
<1>5. Interrupted(t) => Interrupted(t)'
  BY DEF Interrupted
<1>6. GuardFits(t)'
  <2>1. \A op \in ToSet(guard[t]) : MayHold(t, op)'
    BY DEF TopicInv, GuardFits, MayHold, Running, Removing
  <2>2. Removing(r)' => MayHold(t, RemoveOp(r))'
    BY DEF MayHold
  <2> QED
    BY <1>4, <2>1, <2>2 DEF GuardFits
<1>7. DeadTopic(t)' /\ Fresh(t)'
  BY DEF TopicInv, DeadTopic, Fresh, Early
<1>8. RestoreFits(t)'
  BY DEF TopicInv, RestoreFits, OnTopic
<1>9. SubackHolds(t)' /\ UnsubackHolds(t)' /\ BrokerHas(t)'
  BY <1>4 DEF TopicInv, SubackHolds, UnsubackHolds, BrokerHas, HasEntry, Removing
<1>10. Ordered(t)'
  BY DEF Ordered
<1>11. Supported(t)'
  <2>1. CASE guard'[t] = guard[t] /\ (task[i] # "ok" \/ exiting)
    BY <1>5, <2>1 DEF TopicInv, Supported
  <2>2. CASE guard'[t] = Append(guard[t], RemoveOp(r))
    BY <1>3, <2>2 DEF Supported, OnTopic
  <2> QED
    BY <2>1, <2>2
<1>12. Forgotten(t)'
  BY <1>5 DEF TopicInv, Forgotten, Running
<1> QED
  BY <1>6, <1>7, <1>8, <1>9, <1>10, <1>11, <1>12 DEF TopicInv

\* A removal leaves the guard, done or interrupted.
LEMMA TopicRemovalEnds ==
  ASSUME NEW t \in Topics, TopicInv(t), alive, alive', UNCHANGED <<bound, exiting>>,
         bound \in BOOLEAN, exiting \in BOOLEAN,
         NEW r \in OnTopic(t), Removing(r), pc'[r] \in Over,
         pc'[r] = "interrupted" \/ t \notin observers',
         topics'[t] = topics[t], app'[t] = app[t], topics[t] \in OnTopic(t) \union {None},
         guard'[t] = RemoveFirst(guard[t], RemoveOp(r)),
         \/ t \in observers' <=> t \in observers
         \/ Holds(t, RemoveOp(r)) /\ t \notin observers',
         t \in broker' <=> t \in broker,
         \A j \in OnTopic(t) :
           /\ task'[j] = task[j] /\ (j \in toRestore' => j \in toRestore)
           /\ refcount'[j] = refcount[j]
           /\ j # r => Calm(j)
  PROVE  TopicInv(t)'
<1> USE DEF Calm
<1>1. guard[t] \in Seq(Ops) /\ IsInjective(guard[t]) /\ guard[t] \in Seq(Ops)
  BY DEF TopicInv, GuardFits
<1>2. /\ guard'[t] \in Seq(Ops) /\ IsInjective(guard'[t])
      /\ ToSet(guard'[t]) = ToSet(guard[t]) \ {RemoveOp(r)}
      /\ guard[t] # <<>> /\ Head(guard[t]) # RemoveOp(r) =>
           guard'[t] # <<>> /\ Head(guard'[t]) = Head(guard[t])
  BY <1>1, RemoveQueue
<1>3. \A op : LastOfCalls(guard[t], op) => LastOfCalls(guard'[t], op)
  BY <1>1, LastRemove
<1>4. pc'[r] \notin Early /\ pc'[r] # "unsubscribing" /\ ~Removing(r)'
  BY DEF Over, Early, Removing
<1>5. Holds(t, RemoveOp(r)) => RemoveOp(r) \in ToSet(guard[t])
  BY <1>1, HolderListed DEF Holds
<1>6. GuardFits(t)'
  <2>1. ASSUME NEW op \in ToSet(guard'[t]) PROVE MayHold(t, op)'
    BY <1>2 DEF TopicInv, GuardFits, MayHold, Running, Removing
  <2> QED
    BY <1>2, <2>1 DEF GuardFits
<1>7. DeadTopic(t)' /\ Fresh(t)' /\ RestoreFits(t)'
  BY <1>4 DEF TopicInv, DeadTopic, Fresh, RestoreFits
<1>8. SubackHolds(t)'
  BY <1>2, OpsDiffer DEF TopicInv, SubackHolds, Holds, HasEntry
<1>9. UnsubackHolds(t)'
  BY <1>2, <1>4, OpsDiffer DEF TopicInv, UnsubackHolds, Holds
<1>10. BrokerHas(t)'
  BY DEF TopicInv, BrokerHas, HasEntry
<1>11. Ordered(t)'
  BY <1>2, <1>3, <1>5, OpsDiffer DEF TopicInv, Ordered
<1>12. Supported(t)'
  BY DEF Supported, Interrupted
<1>13. Forgotten(t)'
  <2>1. Interrupted(t) => Interrupted(t)'
    BY DEF Interrupted, Removing
  <2> QED
    BY <2>1 DEF TopicInv, Forgotten, Running
<1> QED
  BY <1>6, <1>7, <1>8, <1>9, <1>10, <1>11, <1>12, <1>13 DEF TopicInv

\* remove_response_observer() has the guard and awaits the UNSUBACK.
LEMMA TopicUnsubscribes ==
  ASSUME NEW t \in Topics, TopicInv(t), alive, alive', UNCHANGED <<bound, exiting>>,
         bound \in BOOLEAN, exiting \in BOOLEAN,
         NEW r \in OnTopic(t), pc[r] = "removing", pc'[r] = "unsubscribing", Holds(t, RemoveOp(r)),
         topics'[t] = topics[t], app'[t] = app[t], topics[t] \in OnTopic(t) \union {None},
         guard'[t] = guard[t], t \notin observers', ~HasEntry(t),
         \A j \in OnTopic(t) :
           /\ task'[j] = task[j] /\ (j \in toRestore' => j \in toRestore)
           /\ refcount'[j] = refcount[j]
           /\ j # r => Calm(j)
  PROVE  TopicInv(t)'
<1> USE DEF Calm
<1>1. guard[t] \in Seq(Ops) /\ IsInjective(guard[t])
  BY DEF TopicInv, GuardFits
<1>2. RemoveOp(r) \in ToSet(guard[t])
  BY <1>1, HolderListed DEF Holds
<1>3. GuardFits(t)'
  <2>1. ASSUME NEW op \in ToSet(guard[t]) PROVE MayHold(t, op)'
    BY DEF TopicInv, GuardFits, MayHold, Running, Removing
  <2> QED
    BY <1>1, <2>1 DEF GuardFits
<1>4. DeadTopic(t)' /\ Fresh(t)' /\ RestoreFits(t)'
  BY DEF TopicInv, DeadTopic, Fresh, RestoreFits, Early
<1>5. SubackHolds(t)' /\ UnsubackHolds(t)' /\ BrokerHas(t)'
  BY OpsDiffer DEF TopicInv, SubackHolds, UnsubackHolds, BrokerHas, Holds, HasEntry
<1>6. Ordered(t)'
  BY <1>2, OpsDiffer DEF TopicInv, Ordered
<1>7. Supported(t)' /\ Forgotten(t)'
  <2>1. Interrupted(t) => Interrupted(t)'
    BY DEF Interrupted
  <2> QED
    BY <2>1 DEF TopicInv, Supported, Forgotten, Running
<1> QED
  BY <1>3, <1>4, <1>5, <1>6, <1>7 DEF TopicInv

\* add_response_observer() has the guard and adds the observer; if the topic is not
\* subscribed yet, it keeps the guard and awaits the SUBACK.
LEMMA TopicObserved ==
  ASSUME NEW t \in Topics, TopicInv(t), alive, alive', UNCHANGED <<bound, exiting>>,
         bound \in BOOLEAN, exiting \in BOOLEAN,
         NEW i \in OnTopic(t), task[i] = "queued", Holds(t, AddOp(i)),
         topics'[t] = topics[t], app'[t] = app[t], topics[t] \in OnTopic(t) \union {None},
         t \in observers',
         \/ /\ task'[i] = "ok" /\ guard'[t] = RemoveFirst(guard[t], AddOp(i))
            /\ (t \in observers \/ HasEntry(t)) /\ (t \in broker' <=> t \in broker)
         \/ task'[i] = "suback" /\ guard'[t] = guard[t] /\ t \in broker' /\ ~HasEntry(t),
         t \in broker => t \in broker',
         \A j \in OnTopic(t) :
           /\ (j # i => task'[j] = task[j]) /\ (j \in toRestore' => j \in toRestore)
           /\ refcount'[j] = refcount[j] /\ pc'[j] = pc[j]
  PROVE  TopicInv(t)'
<1>1. guard[t] \in Seq(Ops) /\ IsInjective(guard[t]) /\ guard[t] # <<>> /\ Head(guard[t]) = AddOp(i)
  BY DEF TopicInv, GuardFits, Holds
<1>2. AddOp(i) \in ToSet(guard[t])
  BY <1>1, HolderListed
<1>3. guard[t] \in Seq(Ops) /\ IsInjective(guard[t])
  BY <1>1
<1>4. /\ RemoveFirst(guard[t], AddOp(i)) \in Seq(Ops) /\ IsInjective(RemoveFirst(guard[t], AddOp(i)))
      /\ ToSet(RemoveFirst(guard[t], AddOp(i))) = ToSet(guard[t]) \ {AddOp(i)}
  BY <1>3, RemoveQueue
<1>5. \A op : LastOfCalls(guard[t], op) => LastOfCalls(RemoveFirst(guard[t], AddOp(i)), op)
  BY <1>3, LastRemove
<1>6. LastOfCalls(guard[t], AddOp(i)) => ToSet(guard[t]) \subseteq {AddOp(i), AppOp}
  BY <1>1, LastAtHead
<1>7. /\ guard'[t] \in Seq(Ops) /\ IsInjective(guard'[t])
      /\ ToSet(guard'[t]) \subseteq ToSet(guard[t]) /\ ToSet(guard[t]) \ {AddOp(i)} \subseteq ToSet(guard'[t])
      /\ AddOp(i) \in ToSet(guard'[t]) => Running(i)' /\ guard'[t] = guard[t] /\ task'[i] = "suback"
      /\ \A op : LastOfCalls(guard[t], op) => LastOfCalls(guard'[t], op)
  BY <1>3, <1>4, <1>5 DEF Running
<1>8. GuardFits(t)'
  <2>1. ASSUME NEW op \in ToSet(guard'[t]) PROVE MayHold(t, op)'
    <3>1. MayHold(t, op)
      BY <1>7 DEF TopicInv, GuardFits
    <3>2. CASE op = AddOp(i)
      BY <1>7, <3>2 DEF MayHold
    <3>3. CASE op # AddOp(i)
      BY <3>1, <3>3 DEF MayHold, Running, Removing
    <3> QED
      BY <3>2, <3>3
  <2> QED
    BY <1>7, <2>1 DEF GuardFits
<1>9. DeadTopic(t)' /\ Fresh(t)' /\ RestoreFits(t)'
  BY DEF TopicInv, DeadTopic, Fresh, RestoreFits
<1>10. \A j \in OnTopic(t) : task[j] # "suback" /\ pc[j] # "unsubscribing"
  BY OpsDiffer DEF TopicInv, SubackHolds, UnsubackHolds, Holds
<1>11. SubackHolds(t)' /\ UnsubackHolds(t)'
  BY <1>1, <1>10 DEF SubackHolds, UnsubackHolds, Holds, HasEntry
<1>12. BrokerHas(t)'
  BY DEF TopicInv, BrokerHas, HasEntry
<1>13. Ordered(t)'
  <2>1. CASE topics[t] = i
    BY <1>6, <1>7, <2>1 DEF TopicInv, Ordered
  <2>2. CASE topics[t] # i
    BY <1>2, <1>7, <2>2, OpsDiffer DEF TopicInv, Ordered
  <2> QED
    BY <2>1, <2>2
<1>14. Interrupted(t)' <=> Interrupted(t)
  BY DEF Interrupted
<1>15. Supported(t)'
  <2>1. CASE task'[i] = "suback"
    BY <1>2, <2>1 DEF Supported, OnTopic
  <2>2. CASE task'[i] = "ok" /\ topics[t] = i
    BY <2>2, RequestAssumption DEF Supported, OnTopic
  <2>3. CASE task'[i] = "ok" /\ topics[t] # i
    BY <1>14, <2>3 DEF TopicInv, Forgotten, Running, Supported
  <2> QED
    BY <2>1, <2>2, <2>3
<1>16. Forgotten(t)'
  BY <1>14 DEF TopicInv, Forgotten, Running
<1> QED
  BY <1>8, <1>9, <1>11, <1>12, <1>13, <1>15, <1>16 DEF TopicInv

\* The SUBACK of add_response_observer().
LEMMA TopicAnswered ==
  ASSUME NEW t \in Topics, TopicInv(t), alive, alive', UNCHANGED <<bound, exiting>>,
         bound \in BOOLEAN, exiting \in BOOLEAN,
         NEW i \in OnTopic(t), task[i] = "suback",
         topics'[t] = topics[t], app'[t] = app[t], topics[t] \in OnTopic(t) \union {None},
         guard'[t] = RemoveFirst(guard[t], AddOp(i)),
         \/ /\ task'[i] = "ok" /\ (t \in observers' <=> t \in observers)
            /\ t \in broker' <=> t \in broker
         \/ task'[i] = "rejected" /\ t \notin observers',
         \A j \in OnTopic(t) :
           /\ (j # i => task'[j] = task[j]) /\ (j \in toRestore' => j \in toRestore)
           /\ refcount'[j] = refcount[j] /\ pc'[j] = pc[j]
  PROVE  TopicInv(t)'
<1>1. guard[t] \in Seq(Ops) /\ IsInjective(guard[t])
  BY DEF TopicInv, GuardFits
<1>2. guard[t] # <<>> /\ Head(guard[t]) = AddOp(i) /\ ~HasEntry(t) /\ t \in observers
  BY DEF TopicInv, SubackHolds, Holds
<1>3. AddOp(i) \in ToSet(guard[t])
  BY <1>1, <1>2, HolderListed
<1>4. /\ guard'[t] \in Seq(Ops) /\ IsInjective(guard'[t])
      /\ ToSet(guard'[t]) = ToSet(guard[t]) \ {AddOp(i)}
  BY <1>1, RemoveQueue
<1>5. \A op : LastOfCalls(guard[t], op) => LastOfCalls(guard'[t], op)
  BY <1>1, LastRemove
<1>6. GuardFits(t)'
  <2>1. ASSUME NEW op \in ToSet(guard'[t]) PROVE MayHold(t, op)'
    BY <1>4 DEF TopicInv, GuardFits, MayHold, Running, Removing
  <2> QED
    BY <1>4, <2>1 DEF GuardFits
<1>7. DeadTopic(t)' /\ Fresh(t)' /\ RestoreFits(t)'
  BY DEF TopicInv, DeadTopic, Fresh, RestoreFits
<1>8. \A j \in OnTopic(t) : (task[j] = "suback" => j = i) /\ pc[j] # "unsubscribing"
  BY <1>2, OpsDiffer DEF TopicInv, SubackHolds, UnsubackHolds, Holds
<1>9. SubackHolds(t)' /\ UnsubackHolds(t)'
  BY <1>8 DEF SubackHolds, UnsubackHolds
<1>10. BrokerHas(t)'
  BY <1>2 DEF TopicInv, BrokerHas, HasEntry
<1>11. Ordered(t)'
  <2>1. CASE topics[t] = i
    BY <1>2, <1>4, <2>1 DEF TopicInv, Ordered
  <2>2. CASE topics[t] # i
    BY <1>3, <1>4, <1>5, <2>2, OpsDiffer DEF TopicInv, Ordered
  <2> QED
    BY <2>1, <2>2
<1>12. Interrupted(t)' <=> Interrupted(t)
  BY DEF Interrupted
<1>13. Supported(t)'
  <2>1. CASE topics[t] = i
    BY <2>1, RequestAssumption DEF Supported, OnTopic
  <2>2. CASE topics[t] # i
    BY <1>12, <2>2 DEF TopicInv, Forgotten, Running, Supported
  <2> QED
    BY <2>1, <2>2
<1>14. Forgotten(t)'
  BY <1>12 DEF TopicInv, Forgotten, Running
<1> QED
  BY <1>6, <1>7, <1>9, <1>10, <1>11, <1>13, <1>14 DEF TopicInv

\* The application's operation comes, gets its turn or leaves.
LEMMA TopicOfApp ==
  ASSUME NEW t \in Topics, TopicInv(t), alive, alive', UNCHANGED <<bound, exiting, topics>>,
         bound \in BOOLEAN, exiting \in BOOLEAN, topics[t] \in OnTopic(t) \union {None},
         guard'[t] \in Seq(Ops), IsInjective(guard'[t]),
         ToSet(guard'[t]) \ {AppOp} = ToSet(guard[t]) \ {AppOp},
         AppOp \in ToSet(guard'[t]) => app'[t] \notin {"none", "owned"},
         \A op : op # AppOp /\ Holds(t, op) => Holds(t, op)',
         \A op : op # AppOp /\ LastOfCalls(guard[t], op) => LastOfCalls(guard'[t], op),
         HasEntry(t)' => HasEntry(t) \/ Holds(t, AppOp),
         HasEntry(t)' \/ t \in observers => t \in broker',
         t \in observers' <=> t \in observers,
         \A j \in OnTopic(t) :
           /\ task'[j] = task[j] /\ (j \in toRestore' => j \in toRestore)
           /\ refcount'[j] = refcount[j] /\ pc'[j] = pc[j]
  PROVE  TopicInv(t)'
<1>1. Interrupted(t)' <=> Interrupted(t)
  BY DEF Interrupted
<1>2. GuardFits(t)'
  <2>1. ASSUME NEW op \in ToSet(guard'[t]) PROVE MayHold(t, op)'
    <3>1. CASE op = AppOp
      BY <3>1 DEF MayHold
    <3>2. CASE op # AppOp
      BY <3>2 DEF TopicInv, GuardFits, MayHold, Running, Removing
    <3> QED
      BY <3>1, <3>2
  <2> QED
    BY <2>1 DEF GuardFits
<1>3. DeadTopic(t)' /\ Fresh(t)' /\ RestoreFits(t)'
  BY DEF TopicInv, DeadTopic, Fresh, RestoreFits
<1>4. SubackHolds(t)'
  <2>1. \A j \in OnTopic(t) : task[j] = "suback" =>
          Holds(t, AddOp(j)) /\ ~HasEntry(t) /\ t \in observers
    BY DEF TopicInv, SubackHolds
  <2>2. \A j : Holds(t, AddOp(j)) => ~Holds(t, AppOp) /\ Holds(t, AddOp(j))'
    BY OpsDiffer DEF Holds
  <2> QED
    BY <2>1, <2>2 DEF SubackHolds
<1>5. UnsubackHolds(t)' /\ BrokerHas(t)'
  BY OpsDiffer DEF TopicInv, UnsubackHolds, BrokerHas
<1>6. Ordered(t)'
  <2>1. \A i : AddOp(i) \in ToSet(guard'[t]) <=> AddOp(i) \in ToSet(guard[t])
    BY OpsDiffer
  <2> QED
    BY <2>1, OpsDiffer DEF TopicInv, Ordered
<1>7. Supported(t)' /\ Forgotten(t)'
  BY <1>1, OpsDiffer DEF TopicInv, Supported, Forgotten, Running
<1> QED
  BY <1>2, <1>3, <1>4, <1>5, <1>6, <1>7 DEF TopicInv

\* The wait of the last waiter for the readiness task is interrupted.
LEMMA TopicInterrupted ==
  ASSUME NEW t \in Topics, TopicInv(t), alive, alive', UNCHANGED <<bound, exiting>>,
         bound \in BOOLEAN, exiting \in BOOLEAN,
         NEW r \in OnTopic(t), pc[r] = "unready", pc'[r] = "interrupted",
         topics[t] \in OnTopic(t) \union {None},
         \/ topics'[t] = topics[t]
         \/ topics'[t] = None /\ ~(refcount[topics[t]] > 0),
         guard'[t] = guard[t], app'[t] = app[t],
         t \in observers' <=> t \in observers, t \in broker' <=> t \in broker,
         \A j \in OnTopic(t) :
           /\ task'[j] = task[j] /\ (j \in toRestore' => j \in toRestore)
           /\ refcount'[j] = refcount[j]
           /\ j # r => Calm(j)
  PROVE  TopicInv(t)'
<1> USE DEF Calm
<1>1. Interrupted(t)'
  BY DEF Interrupted
<1>2. GuardFits(t)'
  <2>1. \A op \in ToSet(guard[t]) : MayHold(t, op)'
    BY DEF TopicInv, GuardFits, MayHold, Running, Removing
  <2> QED
    BY <2>1 DEF TopicInv, GuardFits
<1>3. DeadTopic(t)' /\ Fresh(t)' /\ RestoreFits(t)'
  BY DEF TopicInv, DeadTopic, Fresh, RestoreFits, Early
<1>4. SubackHolds(t)' /\ UnsubackHolds(t)' /\ BrokerHas(t)'
  BY DEF TopicInv, SubackHolds, UnsubackHolds, BrokerHas, Holds, HasEntry, Removing
<1>5. Ordered(t)'
  BY DEF TopicInv, Ordered
<1>6. Supported(t)' /\ Forgotten(t)'
  BY <1>1 DEF Supported, Forgotten
<1> QED
  BY <1>2, <1>3, <1>4, <1>5, <1>6 DEF TopicInv

\* cancel_pending() forgets the interest and cancels its task.
LEMMA TopicCancelled ==
  ASSUME NEW t \in Topics, TopicInv(t), alive, alive', exiting', ~bound',
         topics[t] \in OnTopic(t) \union {None}, topics'[t] = None,
         \/ guard'[t] = guard[t] /\ \A j \in OnTopic(t) : task'[j] = task[j]
         \/ /\ guard'[t] = RemoveFirst(guard[t], AddOp(topics[t]))
            /\ topics[t] \in OnTopic(t) /\ Running(topics[t]) /\ task'[topics[t]] = "cancelled"
            /\ pc[topics[t]] \notin Early
            /\ \A j \in OnTopic(t) \ {topics[t]} : task'[j] = task[j],
         app'[t] = app[t], t \in broker' <=> t \in broker,
         t \in observers' => t \in observers,
         t \in observers /\ t \notin observers' =>
           topics[t] \in OnTopic(t) /\ task[topics[t]] = "suback" /\ task'[topics[t]] = "cancelled",
         \A j \in OnTopic(t) : (j \in toRestore' => j \in toRestore) /\ Calm(j)
  PROVE  TopicInv(t)'
<1> USE DEF Calm
<1>1. guard[t] \in Seq(Ops) /\ IsInjective(guard[t])
  BY DEF TopicInv, GuardFits
<1>2. LET s == RemoveFirst(guard[t], AddOp(topics[t])) IN
      /\ s \in Seq(Ops) /\ IsInjective(s) /\ ToSet(s) = ToSet(guard[t]) \ {AddOp(topics[t])}
      /\ guard[t] # <<>> /\ Head(guard[t]) # AddOp(topics[t]) => s # <<>> /\ Head(s) = Head(guard[t])
  BY <1>1, RemoveQueue
<1>3. GuardFits(t)'
  <2>1. CASE guard'[t] = guard[t] /\ \A j \in OnTopic(t) : task'[j] = task[j]
    <3>1. \A op \in ToSet(guard[t]) : MayHold(t, op)'
      BY <2>1 DEF TopicInv, GuardFits, MayHold, Running, Removing
    <3> QED
      BY <1>1, <2>1, <3>1 DEF GuardFits
  <2>2. CASE /\ guard'[t] = RemoveFirst(guard[t], AddOp(topics[t]))
             /\ \A j \in OnTopic(t) \ {topics[t]} : task'[j] = task[j]
    <3>1. \A op \in ToSet(guard'[t]) : MayHold(t, op)'
      BY <1>2, <2>2 DEF TopicInv, GuardFits, MayHold, Running, Removing
    <3> QED
      BY <1>2, <2>2, <3>1 DEF GuardFits
  <2> QED
    BY <2>1, <2>2
<1>4. DeadTopic(t)' /\ Fresh(t)' /\ RestoreFits(t)'
  BY DEF TopicInv, DeadTopic, Fresh, RestoreFits
<1>5. SubackHolds(t)'
  <2>1. ASSUME NEW j \in OnTopic(t), task'[j] = "suback"
        PROVE  Holds(t, AddOp(j))' /\ ~HasEntry(t)' /\ t \in observers'
    <3>1. task[j] = "suback" /\ Holds(t, AddOp(j)) /\ ~HasEntry(t) /\ t \in observers
      BY <2>1 DEF TopicInv, SubackHolds
    <3>2. \A k \in OnTopic(t) : task[k] = "suback" => k = j
      BY <3>1, OpsDiffer DEF TopicInv, SubackHolds, Holds
    <3>3. t \in observers'
      BY <2>1, <3>1, <3>2
    <3>4. Holds(t, AddOp(j))'
      <4>1. CASE guard'[t] = guard[t]
        BY <3>1, <4>1 DEF Holds
      <4>2. CASE guard'[t] = RemoveFirst(guard[t], AddOp(topics[t])) /\ topics[t] # j
        BY <1>2, <3>1, <4>2, OpsDiffer DEF Holds
      <4> QED
        BY <2>1, <4>1, <4>2
    <3> QED
      BY <3>1, <3>3, <3>4 DEF HasEntry
  <2> QED
    BY <2>1 DEF SubackHolds
<1>6. UnsubackHolds(t)'
  BY <1>2, OpsDiffer DEF TopicInv, UnsubackHolds, Holds, Removing
<1>7. BrokerHas(t)' /\ Ordered(t)' /\ Supported(t)' /\ Forgotten(t)'
  BY DEF TopicInv, BrokerHas, HasEntry, Ordered, Supported, Forgotten
<1> QED
  BY <1>3, <1>4, <1>5, <1>6, <1>7 DEF TopicInv

\* A new connection: the application's subscription is first to be restored.
LEMMA TopicConnected ==
  ASSUME NEW t \in Topics, TopicInv(t), ~alive, alive',
         \A j \in OnTopic(t) : pc[j] # "unsubscribing",
         guard'[t] = IF app[t] = "owned" THEN <<AppOp>> ELSE <<>>,
         app'[t] = IF app[t] = "owned" THEN "requeued" ELSE app[t],
         t \in observers' <=> t \in observers, topics[t] \in OnTopic(t) \union {None},
         topics'[t] = topics[t],
         \A j \in OnTopic(t) : task'[j] = "none" /\ (j \in toRestore' => j \in toRestore) /\ pc'[j] = pc[j]
  PROVE  TopicInv(t)'
<1>1. /\ app[t] \in {"none", "owned"} /\ t \notin observers
      /\ \A j \in OnTopic(t) : j \notin toRestore
  BY DEF TopicInv, DeadTopic
<1>2. GuardFits(t)'
  <2>1. CASE app[t] = "owned"
    <3>1. guard'[t] \in Seq(Ops) /\ IsInjective(guard'[t]) /\ ToSet(guard'[t]) = {AppOp}
      <4>1. AppOp \in Ops /\ guard'[t] = <<AppOp>>
        BY <2>1 DEF Ops
      <4>2. guard'[t] \in Seq(Ops) /\ Len(guard'[t]) = 1 /\ guard'[t][1] = AppOp /\ DOMAIN guard'[t] = {1}
        BY <4>1
      <4> QED
        BY <4>2 DEF IsInjective, ToSet
    <3>2. MayHold(t, AppOp)'
      BY <2>1 DEF MayHold
    <3> QED
      BY <3>1, <3>2 DEF GuardFits
  <2>2. CASE app[t] # "owned"
    <3>1. guard'[t] \in Seq(Ops) /\ IsInjective(guard'[t]) /\ ToSet(guard'[t]) = {}
      BY <2>2 DEF IsInjective, ToSet
    <3> QED
      BY <3>1 DEF GuardFits
  <2> QED
    BY <2>1, <2>2
<1>3. DeadTopic(t)' /\ Fresh(t)' /\ RestoreFits(t)'
  BY <1>1 DEF DeadTopic, Fresh, RestoreFits
<1>4. SubackHolds(t)' /\ UnsubackHolds(t)' /\ BrokerHas(t)'
  BY <1>1 DEF SubackHolds, UnsubackHolds, BrokerHas, HasEntry
<1>5. Ordered(t)' /\ Supported(t)' /\ Forgotten(t)'
  BY <1>1 DEF Ordered, Supported, Forgotten, Running
<1> QED
  BY <1>2, <1>3, <1>4, <1>5 DEF TopicInv

\* The interest of a topic is one of the calls on it.
LEMMA InterestOnTopic ==
  ASSUME InterestInv
  PROVE  /\ \A t \in Topics : /\ topics[t] \in OnTopic(t) \union {None}
                              /\ topics[t] # None => pc[topics[t]] \notin Early
         /\ \A r \in Requests : TopicOf[r] \in Topics /\ r \in OnTopic(TopicOf[r]) /\ r # None
BY RequestAssumption DEF InterestInv, InterestTyped, OnTopic, Topics

\* A call that keeps its place, or is handed a unit, is calm.
LEMMA CallCalm ==
  ASSUME NEW s \in Requests, pc'[s] = pc[s] \/ (pc[s] = "acquire" /\ pc'[s] = "granted")
  PROVE  Calm(s)
BY DEF Calm, Early, Removing

\* What cannot change once the connection is dead, and what its end leaves behind.
Quiet(t) ==
  /\ guard[t] = <<>> /\ app[t] \in {"none", "owned"} /\ t \notin observers
  /\ \A j \in OnTopic(t) : j \notin toRestore

\* Nothing is started on a dead connection.
LEMMA DeadStep ==
  CallsInv /\ InterestInv /\ ObserverInv /\ [Next]_vars /\ ~alive' => \A t \in Topics : TopicInv(t)'
<1> SUFFICES ASSUME CallsInv, InterestInv, ObserverInv, [Next]_vars, ~alive', NEW t \in Topics
             PROVE  TopicInv(t)'
  OBVIOUS
<1>1. /\ \A j \in OnTopic(t) : pc[j] \in Early => task[j] = "none"
      /\ ~alive => Quiet(t)
      /\ guard \in [Topics -> Seq(Ops)] /\ task \in [Requests -> {"none", "queued", "suback", "ok",
                                                   "failed", "rejected", "cancelled"}]
  BY DEF ObserverInv, ObserverTyped, TopicInv, DeadTopic, Fresh, Quiet
<1>2. InterestInv'
  BY InterestStep
<1>3. /\ topics'[t] # None => pc'[topics'[t]] \notin Early
      /\ \A j \in OnTopic(t) : j \in Requests /\ (pc'[j] \in Early => pc[j] \in Early)
  BY <1>2, NoReturn DEF InterestInv, OnTopic
<1> DEFINE rest == /\ guard' = guard /\ app' = app /\ observers' = observers /\ toRestore' = toRestore
           ended == /\ guard'[t] = <<>> /\ app'[t] \in {"none", "owned"} /\ observers' = {}
                    /\ toRestore' = {}
           started(i) == task[i] # "none" \/ (topics'[TopicOf[i]] = i /\ i \in Requests)
           kept == task' = task \/ \E i \in Requests : \E v : task' = [task EXCEPT ![i] = v] /\ started(i)
<1>4. ASSUME (rest /\ ~alive) \/ ended, kept PROVE TopicInv(t)'
  <2>1. Quiet(t)'
    BY <1>1, <1>4 DEF Quiet, OnTopic
  <2>2. \A j \in OnTopic(t) : pc'[j] \in Early => task'[j] = "none"
    BY <1>1, <1>3, <1>4, RequestAssumption DEF OnTopic
  <2> QED
    BY <2>1, <2>2, TopicDead DEF Quiet
<1>5. \A op : RemoveFirst(<<>>, op) = <<>>
  <2>1. <<>> \in Seq(Ops) /\ Len(<<>>) = 0
    OBVIOUS
  <2>2. \A op : \A i \in 1 .. Len(<<>>) : <<>>[i] # op
    OBVIOUS
  <2> QED
    BY <2>1, <2>2, RemoveFirstAbsent
<1>6. \A u \in Topics : ~alive => guard[u] = <<>>
  BY DEF ObserverInv, TopicInv, DeadTopic
<1>7. \A op : \A u \in Topics : ~alive => LeftBy(u, op) = guard
  <2> SUFFICES ASSUME NEW op, NEW u \in Topics, ~alive PROVE LeftBy(u, op) = guard
    OBVIOUS
  <2>1. guard[u] = <<>> /\ RemoveFirst(guard[u], op) = guard[u]
    BY <1>5, <1>6
  <2> QED
    BY <1>1, <2>1 DEF LeftBy
<1>8. \A op, u : ~alive => Queued(u, op) = guard
  BY DEF Queued
<1>9. \A r \in Requests : TopicOf[r] \in Topics
  BY DEF Topics
<1> HIDE DEF kept, ended, rest
<1>10. ASSUME NEW r \in Requests,
              \/ Request(r) \/ RegisterFails(r) \/ TopicReady(r) \/ Claim(r)
              \/ CancelBeforeRegistering(r)
       PROVE  TopicInv(t)'
  BY <1>4, <1>10 DEF Request, RegisterFails, TopicReady, Claim, CancelBeforeRegistering,
                     proto, life, kept, rest
<1>11. ASSUME NEW r \in Requests, Register(r) PROVE TopicInv(t)'
  <2>1. rest /\ ~alive
    BY <1>8, <1>11 DEF Register, EnsureTopicReady, life, rest
  <2>2. kept
    <3>1. /\ topics \in [Topics -> Requests \union {None}] /\ TopicOf[r] \in Topics
      BY <1>9 DEF InterestInv, InterestTyped
    <3> DEFINE i == IF topics[TopicOf[r]] = None THEN r ELSE topics[TopicOf[r]]
    <3>2. i \in Requests /\ TopicOf[i] = TopicOf[r]
      BY <3>1 DEF InterestInv
    <3>3. topics'[TopicOf[r]] = i /\ (task' = task \/ task' = [task EXCEPT ![i] = "queued"])
      BY <1>11, <3>1 DEF Register, EnsureTopicReady
    <3> QED
      BY <3>2, <3>3 DEF kept
  <2> QED
    BY <1>4, <2>1, <2>2
<1>12. ASSUME NEW r \in Requests,
              \/ TopicNotReady(r) \/ Publish(r) \/ Reply(r) \/ Timeout(r) \/ Cancel(r)
       PROVE  TopicInv(t)'
  <2>1. Ends(r)
    BY <1>12 DEF TopicNotReady, Publish, Reply, Timeout, Cancel, life
  <2>2. ~alive
    BY <2>1 DEF Ends, life
  <2>3. guard' = guard
    BY <1>8, <2>1, <2>2 DEF Ends, Unregister, LetGo
  <2> QED
    BY <1>4, <2>1, <2>2, <2>3 DEF Ends, life, kept, rest
<1>13. ASSUME NEW r \in Requests,
              UnregisterResumes(r) \/ RemoveObserver(r) \/ ObserverRemoved(r) \/ CancelCleanup(r)
       PROVE  TopicInv(t)'
  <2>1. ~alive
    BY <1>13 DEF UnregisterResumes, RemoveObserver, ObserverRemoved, CancelCleanup, life
  <2>2. guard' = guard /\ observers' = observers
    BY <1>7, <1>8, <1>9, <1>13, <2>1 DEF UnregisterResumes, RemoveObserver, ObserverRemoved,
                                         CancelCleanup, LetGo
  <2> QED
    BY <1>4, <1>13, <2>1, <2>2 DEF UnregisterResumes, RemoveObserver, ObserverRemoved, CancelCleanup,
                                   life, kept, rest
<1>14. ASSUME NEW c \in claims, Complete(c[1], c[2]) PROVE TopicInv(t)'
  BY <1>4, <1>14 DEF Complete, proto, life, kept, rest
<1>15. ASSUME NEW i \in Requests, AddObserver(i) \/ ObserverAnswered(i) PROVE TopicInv(t)'
  BY <1>15 DEF AddObserver, ObserverAnswered, life
<1>16. ASSUME NEW i \in Requests, ObserverFails(i) PROVE TopicInv(t)'
  BY <1>4, <1>16 DEF ObserverFails, Running, life, kept, rest
<1>17. ASSUME NEW u \in Topics,
              \/ AppSubscribe(u) \/ AppUnsubscribe(u) \/ AppSends(u) \/ AppLeaves(u) \/ AppAnswered(u)
       PROVE  TopicInv(t)'
  BY <1>17 DEF AppSubscribe, AppUnsubscribe, AppSends, AppLeaves, AppAnswered, life
<1>18. ASSUME NEW where, Down(where), task' = task PROVE TopicInv(t)'
  BY <1>4, <1>18 DEF Down, kept, ended
<1>19. CASE ConnectionLost
  BY <1>18, <1>19 DEF ConnectionLost
<1>20. CASE Connect \/ RestoreTopics \/ RestoreEnds
  BY <1>20 DEF Connect, RestoreTopics, RestoreEnds
<1>21. ASSUME NEW i \in Requests, RestoreTopic(i) PROVE TopicInv(t)'
  BY <1>18, <1>21 DEF RestoreTopic
<1>22. CASE TopicRestored
  BY <1>18, <1>22 DEF TopicRestored
<1>23. CASE CancelPending
  <2>1. ~alive /\ app' = app /\ toRestore' = toRestore /\ observers' \subseteq observers
    BY <1>23 DEF CancelPending
  <2>2. guard'[t] = <<>>
    BY <1>1, <1>5, <1>23, <2>1 DEF CancelPending, Quiet
  <2>3. \A j \in Requests : task'[j] = task[j] \/ task[j] # "none"
    BY <1>1, <1>23 DEF CancelPending, Running
  <2>4. \A j \in OnTopic(t) : pc'[j] \in Early => task'[j] = "none"
    BY <1>1, <1>3, <2>3
  <2> QED
    BY <1>1, <2>1, <2>2, <2>4, TopicDead DEF Quiet
<1>24. CASE Disconnect
  BY <1>4, <1>24 DEF Disconnect, kept, ended
<1>25. CASE UNCHANGED vars
  BY <1>4, <1>25 DEF vars, proto, life, kept, rest
<1> QED
  BY <1>10, <1>11, <1>12, <1>13, <1>14, <1>15, <1>16, <1>17, <1>19, <1>20, <1>21, <1>22, <1>23,
     <1>24, <1>25 DEF Next

\* A step of call r leaves the topics of the others alone.
LEMMA TopicElsewhere ==
  ASSUME ObserverInv, InterestInv, UNCHANGED <<alive, bound, exiting>>, NEW r \in Requests,
         NEW t \in Topics, t # TopicOf[r],
         \A s \in Requests \ {r} : pc'[s] = pc[s] \/ (pc[s] = "acquire" /\ pc'[s] = "granted"),
         guard'[t] = guard[t], app'[t] = app[t], topics'[t] = topics[t],
         t \in observers' <=> t \in observers, t \in broker' <=> t \in broker,
         toRestore' \subseteq toRestore,
         \A j \in Requests : TopicOf[j] = t => task'[j] = task[j] /\ refcount'[j] = refcount[j]
  PROVE  TopicInv(t)'
<1>1. TopicInv(t) /\ alive \in BOOLEAN /\ bound \in BOOLEAN /\ exiting \in BOOLEAN
  BY DEF ObserverInv, ObserverTyped
<1>2. topics[t] \in OnTopic(t) \union {None}
  BY InterestOnTopic
<1>3. \A j \in OnTopic(t) : Calm(j) /\ j \in Requests /\ TopicOf[j] = t
  BY CallCalm DEF OnTopic
<1>4. \A j \in OnTopic(t) : /\ task'[j] = task[j] /\ (j \in toRestore' => j \in toRestore)
                            /\ refcount'[j] > 0 => refcount[j] > 0 \/ topics[t] = j
                            /\ Calm(j)
  BY <1>3
<1> QED
  BY <1>1, <1>2, <1>4, TopicUntouched

\* A call that only changes its own place, where no topic is concerned.
LEMMA CallElsewhere ==
  ASSUME ObserverInv, InterestInv, NEW t \in Topics,
         UNCHANGED <<alive, bound, exiting, guard, app, topics, observers, broker, task>>,
         toRestore' \subseteq toRestore,
         \A j \in Requests : refcount'[j] > 0 => refcount[j] > 0 \/ topics[TopicOf[j]] = j,
         NEW r \in Requests,
         \A s \in Requests \ {r} : pc'[s] = pc[s] \/ (pc[s] = "acquire" /\ pc'[s] = "granted"),
         Calm(r)
  PROVE  TopicInv(t)'
<1>1. TopicInv(t) /\ alive \in BOOLEAN /\ bound \in BOOLEAN /\ exiting \in BOOLEAN
  BY DEF ObserverInv, ObserverTyped
<1>2. topics[t] \in OnTopic(t) \union {None}
  BY InterestOnTopic
<1>3. \A j \in OnTopic(t) : Calm(j) /\ j \in Requests /\ TopicOf[j] = t
  BY CallCalm DEF OnTopic
<1>4. \A j \in OnTopic(t) : /\ task'[j] = task[j] /\ (j \in toRestore' => j \in toRestore)
                            /\ refcount'[j] > 0 => refcount[j] > 0 \/ topics[t] = j
                            /\ Calm(j)
  BY <1>3
<1> QED
  BY <1>1, <1>2, <1>4, TopicUntouched

\* register() on a live connection.
LEMMA RegisterLive ==
  ASSUME CallsInv, InterestInv, ObserverInv, alive, NEW r \in Requests, Register(r), NEW t \in Topics
  PROVE  TopicInv(t)'
<1> DEFINE u == TopicOf[r]
           i == IF topics[u] = None THEN r ELSE topics[u]
<1>1. u \in Topics /\ r \in OnTopic(u) /\ r # None /\ topics[u] \in OnTopic(u) \union {None}
  BY InterestOnTopic
<1>2. i \in OnTopic(u) /\ i # None /\ i \in Requests /\ topics[u] \in {None, i}
  BY <1>1, RequestAssumption DEF OnTopic
<1>3. /\ topics \in [Topics -> Requests \union {None}] /\ refcount \in [Requests -> Nat]
      /\ pc \in [Requests -> Places]
      /\ guard \in [Topics -> Seq(Ops)]
      /\ task \in [Requests -> {"none", "queued", "suback", "ok", "failed", "rejected", "cancelled"}]
      /\ bound \in BOOLEAN /\ exiting \in BOOLEAN /\ \A v \in Topics : TopicInv(v)
  BY DEF InterestInv, InterestTyped, ObserverInv, ObserverTyped, CallsInv, CallsTyped
<1>4. /\ pc[r] = "granted" /\ pc' = [pc EXCEPT ![r] = "subscribing"]
      /\ topics' = [topics EXCEPT ![u] = i]
      /\ refcount' = [refcount EXCEPT ![i] = @ + 1]
      /\ UNCHANGED <<observers, app, broker, toRestore, alive, bound, exiting>>
  BY DEF Register, life
<1>5. IF task[i] # "none" THEN UNCHANGED <<task, guard>>
      ELSE /\ task' = [task EXCEPT ![i] = "queued"]
           /\ guard' = [guard EXCEPT ![u] = Append(@, AddOp(i))]
  BY DEF Register, EnsureTopicReady, Queued, AddOp
<1>6. pc'[i] \notin Early /\ pc[r] \in Early
  <2>1. topics[u] # None => pc[topics[u]] \notin Early
    BY <1>1, InterestOnTopic
  <2> QED
    BY <1>2, <1>3, <1>4, <2>1 DEF Early
<1> HIDE DEF u, i
<1>7. \A j \in Requests : Calm(j)
  BY <1>3, <1>4 DEF Calm, Early, Removing
<1>8. CASE t # u
  <2>1. /\ guard'[t] = guard[t] /\ topics'[t] = topics[t]
        /\ \A j \in Requests : TopicOf[j] = t => task'[j] = task[j] /\ refcount'[j] = refcount[j]
    BY <1>2, <1>3, <1>4, <1>5, <1>8 DEF OnTopic
  <2>2. \A s \in Requests \ {r} : pc'[s] = pc[s]
    BY <1>3, <1>4
  <2> QED
    BY <1>4, <1>8, <2>1, <2>2, TopicElsewhere DEF u
<1>9. CASE t = u /\ task[i] # "none"
  <2>1. topics[u] = i
    <3>1. topics[u] = None => i = r
      BY DEF i
    <3>2. r \in OnTopic(u) /\ pc[r] \in Early => task[r] = "none"
      BY <1>1, <1>3 DEF TopicInv, Fresh
    <3> QED
      BY <1>1, <1>2, <1>6, <1>9, <3>1, <3>2
  <2>2. topics' = topics /\ UNCHANGED <<task, guard>>
    BY <1>1, <1>3, <1>4, <1>5, <1>9, <2>1
  <2>3. \A j \in Requests : refcount'[j] > 0 => refcount[j] > 0 \/ topics[TopicOf[j]] = j
    BY <1>2, <1>3, <1>4, <2>1 DEF OnTopic
  <2>4. \A s \in Requests \ {r} : pc'[s] = pc[s]
    BY <1>3, <1>4
  <2> QED
    BY <1>4, <1>7, <2>2, <2>3, <2>4, CallElsewhere
<1>10. CASE t = u /\ task[i] = "none"
  <2>1. /\ guard'[u] = Append(guard[u], AddOp(i)) /\ task'[i] = "queued" /\ topics'[u] = i
        /\ TopicInv(u)
    BY <1>1, <1>2, <1>3, <1>4, <1>5, <1>10
  <2>2. \A j \in OnTopic(u) :
          /\ (j # i => task'[j] = task[j]) /\ (j \in toRestore' => j \in toRestore)
          /\ refcount'[j] > 0 => refcount[j] > 0 \/ j = i
          /\ Calm(j)
    BY <1>2, <1>3, <1>4, <1>5, <1>7, <1>10 DEF OnTopic
  <2>3. TopicInv(u)'
    BY <1>1, <1>2, <1>3, <1>4, <1>6, <1>10, <2>1, <2>2, TopicAsked
  <2> QED
    BY <1>10, <2>3
<1> QED
  BY <1>8, <1>9, <1>10

\* The last waiter lets go of an interest whose task has ended.
LEMMA LetGoLive ==
  ASSUME CallsInv, InterestInv, ObserverInv, alive, NEW r \in Requests, NEW t \in Topics,
         ~Removing(r), pc[r] \notin {"acquire", "interrupted"} /\ pc[r] \notin Early,
         NEW i, topics[TopicOf[r]] = i, i # None, ~Running(i),
         LetGo(r, task[i] = "ok"), ~(refcount'[i] > 0),
         \A j \in Requests : j # i => refcount'[j] = refcount[j],
         UNCHANGED <<task, observers, app, broker, life>>
  PROVE  TopicInv(t)'
<1> DEFINE u == TopicOf[r]
<1>1. u \in Topics /\ r \in OnTopic(u) /\ i \in OnTopic(u) /\ i \in Requests /\ TopicOf[i] = u
  BY InterestOnTopic DEF OnTopic
<1>2. /\ topics \in [Topics -> Requests \union {None}] /\ guard \in [Topics -> Seq(Ops)]
      /\ pc \in [Requests -> Places] /\ (~bound => exiting)
      /\ bound \in BOOLEAN /\ exiting \in BOOLEAN /\ \A v \in Topics : TopicInv(v)
  BY DEF InterestInv, InterestTyped, ObserverInv, ObserverTyped, CallsInv, CallsTyped
<1>3. UNCHANGED <<task, observers, app, broker, toRestore, alive, bound, exiting>>
  BY DEF life
<1>4. topics' = [topics EXCEPT ![u] = None]
  BY DEF LetGo
<1>5. /\ \/ /\ guard' = guard /\ pc'[r] = "done" /\ (task[i] # "ok" \/ exiting)
         \/ /\ guard' = [guard EXCEPT ![u] = Append(@, RemoveOp(r))] /\ pc'[r] = "removing"
      /\ \A s \in Requests \ {r} : pc'[s] = pc[s] \/ (pc[s] = "acquire" /\ pc'[s] = "granted")
  <2>1. CASE task[i] = "ok" /\ bound
    BY <1>2, <2>1 DEF LetGo, Queued, RemoveOp
  <2>2. CASE ~(task[i] = "ok" /\ bound)
    <3>1. Release(r, "done") /\ guard' = guard /\ "done" \in Over
      BY <2>2 DEF LetGo, Leave, Over
    <3>2. pc[r] # "acquire"
      OBVIOUS
    <3> QED
      BY <1>2, <2>2, <3>1, <3>2, ReleaseMoves
  <2> QED
    BY <2>1, <2>2
<1> HIDE DEF u
<1>6. CASE t # u
  <2>1. guard'[t] = guard[t] /\ topics'[t] = topics[t]
    BY <1>1, <1>2, <1>4, <1>5, <1>6
  <2>2. \A j \in Requests : TopicOf[j] = t => refcount'[j] = refcount[j]
    BY <1>1, <1>6
  <2> QED
    BY <1>3, <1>5, <1>6, <2>1, <2>2, TopicElsewhere DEF u
<1>7. CASE t = u
  <2>1. \/ guard'[u] = guard[u] /\ (task[i] # "ok" \/ exiting) /\ Calm(r)
        \/ guard'[u] = Append(guard[u], RemoveOp(r)) /\ pc'[r] = "removing" /\ pc[r] # "interrupted"
    <3>1. pc'[r] = "done" => Calm(r)
      BY DEF Calm, Early
    <3> QED
      BY <1>1, <1>2, <1>5, <3>1
  <2>2. \A j \in OnTopic(u) : j \in Requests /\ (j # r => Calm(j))
    BY <1>5, CallCalm DEF OnTopic
  <2>3. \A j \in OnTopic(u) :
          /\ task'[j] = task[j] /\ (j \in toRestore' => j \in toRestore)
          /\ j # i => (refcount'[j] > 0 => refcount[j] > 0)
          /\ j # r => Calm(j)
    BY <1>3, <2>2
  <2>4. topics[u] = i /\ topics'[u] = None /\ TopicInv(u)
    BY <1>1, <1>2, <1>4 DEF u
  <2>5. TopicInv(u)'
    BY <1>1, <1>2, <1>3, <2>1, <2>3, <2>4, TopicLetGo
  <2> QED
    BY <1>7, <2>5
<1> QED
  BY <1>6, <1>7

\* A call leaves its try block on a live connection.
LEMMA EndsLive ==
  ASSUME CallsInv, InterestInv, ObserverInv, alive, NEW r \in Requests, pc[r] \in Registered,
         Ends(r), NEW t \in Topics
  PROVE  TopicInv(t)'
<1> DEFINE i == topics[TopicOf[r]]
<1>1. /\ UNCHANGED <<task, observers, app, broker, life>>
      /\ UNCHANGED <<alive, bound, exiting, task, observers, app, broker, toRestore>>
      /\ Unregister(r)
  BY DEF Ends, life
<1>2. /\ pc \in [Requests -> Places] /\ refcount \in [Requests -> Nat]
      /\ pc[r] \notin Early /\ ~Removing(r) /\ pc[r] \notin {"acquire", "interrupted"}
  BY DEF CallsInv, CallsTyped, InterestInv, InterestTyped, Registered, Early, Removing
<1>3. pc'[r] \in {"done", "unready"} => Calm(r)
  BY <1>2 DEF Calm, Early
<1>4. CASE r \notin Waiting
  <2>1. pc' = [pc EXCEPT ![r] = "done"] /\ UNCHANGED <<topics, refcount, guard>>
    BY <1>1, <1>4 DEF Unregister, Waiting
  <2>2. /\ \A s \in Requests \ {r} : pc'[s] = pc[s] \/ (pc[s] = "acquire" /\ pc'[s] = "granted")
        /\ Calm(r)
    BY <1>2, <1>3, <2>1
  <2> QED
    BY <1>1, <2>1, <2>2, CallElsewhere
<1>5. CASE r \in Waiting
  <2>1. i # None /\ i \in Requests
    <3>1. r \in Users(TopicOf[r]) /\ TopicOf[r] \in Topics
      BY <1>5 DEF Users, Topics
    <3>2. Counted(TopicOf[r])
      BY <3>1 DEF InterestInv
    <3> QED
      BY <3>1, <3>2 DEF Counted, InterestInv, InterestTyped
  <2>2. refcount' = [refcount EXCEPT ![i] = @ - 1] /\ pending[Key(r)] = r
    BY <1>1, <1>5 DEF Unregister, Waiting
  <2>3. \A s \in Requests \ {r} : pc'[s] = pc[s] \/ (pc[s] = "acquire" /\ pc'[s] = "granted")
    BY <1>1, <1>5, UnregisterMoves
  <2>4. \A j \in Requests : refcount'[j] > 0 => refcount[j] > 0
    BY <1>2, <2>1, <2>2
  <2>5. CASE refcount[i] > 1 \/ Running(i)
    <3>1. UNCHANGED <<topics, guard>> /\ (pc' = [pc EXCEPT ![r] = "unready"] \/ Release(r, "done"))
      BY <1>1, <2>2, <2>5 DEF Unregister, Leave
    <3>2. Release(r, "done") => pc'[r] = "done"
      BY <1>2, ReleaseMoves DEF Over
    <3>3. Calm(r)
      BY <1>2, <1>3, <3>1, <3>2
    <3> QED
      BY <1>1, <2>3, <2>4, <3>1, <3>3, CallElsewhere
  <2>6. CASE ~(refcount[i] > 1) /\ ~Running(i)
    <3>1. LetGo(r, task[i] = "ok")
      BY <1>1, <2>2, <2>6 DEF Unregister
    <3>2. ~(refcount'[i] > 0) /\ \A j \in Requests : j # i => refcount'[j] = refcount[j]
      BY <1>2, <2>1, <2>2, <2>6
    <3> QED
      BY <1>1, <1>2, <2>1, <2>6, <3>1, <3>2, LetGoLive
  <2> QED
    BY <2>5, <2>6
<1> QED
  BY <1>4, <1>5

\* unregister() resumes on a live connection.
LEMMA ResumesLive ==
  ASSUME CallsInv, InterestInv, ObserverInv, alive, NEW r \in Requests, UnregisterResumes(r),
         NEW t \in Topics
  PROVE  TopicInv(t)'
<1> DEFINE i == joined[r]
<1>1. /\ UNCHANGED <<task, observers, app, broker, life>>
      /\ UNCHANGED <<alive, bound, exiting, task, observers, app, broker, toRestore, refcount>>
      /\ pc[r] = "unready" /\ ~Running(i)
  BY DEF UnregisterResumes, life
<1>2. /\ refcount \in [Requests -> Nat] /\ pc[r] \notin Early /\ ~Removing(r)
      /\ pc[r] \notin {"acquire", "interrupted"} /\ i \in Requests /\ i # None
  BY <1>1, RequestAssumption DEF InterestInv, InterestTyped, IsUnready, Early, Removing
<1>3. CASE refcount[i] = 0 /\ topics[TopicOf[r]] = i
  <2>1. LetGo(r, task[i] = "ok")
    BY <1>3 DEF UnregisterResumes
  <2>2. ~(refcount'[i] > 0) /\ \A j \in Requests : j # i => refcount'[j] = refcount[j]
    BY <1>1, <1>3
  <2> QED
    BY <1>1, <1>2, <1>3, <2>1, <2>2, LetGoLive
<1>4. CASE ~(refcount[i] = 0 /\ topics[TopicOf[r]] = i)
  <2>1. Release(r, "done") /\ UNCHANGED <<topics, guard>>
    BY <1>4 DEF UnregisterResumes, Leave
  <2>2. /\ pc'[r] = "done"
        /\ \A s \in Requests \ {r} : pc'[s] = pc[s] \/ (pc[s] = "acquire" /\ pc'[s] = "granted")
    BY <1>2, <2>1, ReleaseMoves DEF Over
  <2>3. Calm(r)
    BY <1>2, <2>2 DEF Calm, Early
  <2> QED
    BY <1>1, <2>1, <2>2, <2>3, CallElsewhere
<1> QED
  BY <1>3, <1>4

\* A removal gets its turn, is answered or is interrupted on a live connection.
LEMMA RemovalLive ==
  ASSUME CallsInv, InterestInv, ObserverInv, alive, NEW r \in Requests, Removing(r),
         RemoveObserver(r) \/ ObserverRemoved(r) \/ CancelCleanup(r), NEW t \in Topics
  PROVE  TopicInv(t)'
<1> DEFINE u == TopicOf[r]
<1>1. u \in Topics /\ r \in OnTopic(u) /\ topics[u] \in OnTopic(u) \union {None}
  BY InterestOnTopic
<1>2. /\ guard \in [Topics -> Seq(Ops)] /\ pc \in [Requests -> Places] /\ observers \subseteq Topics
      /\ bound \in BOOLEAN /\ exiting \in BOOLEAN /\ \A v \in Topics : TopicInv(v)
      /\ pc[r] # "acquire"
  BY DEF ObserverInv, ObserverTyped, CallsInv, CallsTyped, Removing
<1>3. UNCHANGED <<alive, bound, exiting, task, app, toRestore, refcount, topics>>
  BY DEF RemoveObserver, ObserverRemoved, CancelCleanup, life, interests, Removing
<1>4. ASSUME NEW where \in Over, Release(r, where)
      PROVE  /\ pc'[r] = where
             /\ \A s \in Requests \ {r} : pc'[s] = pc[s] \/ (pc[s] = "acquire" /\ pc'[s] = "granted")
  BY <1>2, <1>4, ReleaseMoves
<1>5. \/ /\ Holds(u, RemoveOp(r)) /\ observers' = observers \ {u} /\ Release(r, "done")
         /\ guard' = LeftBy(u, RemoveOp(r)) /\ broker' = broker
      \/ /\ pc[r] = "removing" /\ Holds(u, RemoveOp(r)) /\ observers' = observers \ {u}
         /\ pc' = [pc EXCEPT ![r] = "unsubscribing"] /\ guard' = guard
         /\ broker' = broker \ {u} /\ ~HasEntry(u)
      \/ /\ pc[r] = "unsubscribing" /\ Release(r, "done") /\ guard' = LeftBy(u, RemoveOp(r))
         /\ UNCHANGED <<observers, broker>>
      \/ /\ Release(r, "interrupted") /\ guard' = LeftBy(u, RemoveOp(r))
         /\ UNCHANGED <<observers, broker>>
  <2>1. CASE RemoveObserver(r)
    BY <2>1 DEF RemoveObserver, RemoveOp, Leave
  <2>2. CASE ObserverRemoved(r)
    BY <2>2 DEF ObserverRemoved, RemoveOp, Leave
  <2>3. CASE CancelCleanup(r)
    BY <2>3 DEF CancelCleanup, RemoveOp, Leave, Removing
  <2> QED
    BY <2>1, <2>2, <2>3
<1>6. \A s \in Requests \ {r} : pc'[s] = pc[s] \/ (pc[s] = "acquire" /\ pc'[s] = "granted")
  BY <1>2, <1>4, <1>5 DEF Over
<1> HIDE DEF u
<1>7. CASE t # u
  <2>1. guard'[t] = guard[t] /\ (t \in observers' <=> t \in observers) /\ (t \in broker' <=> t \in broker)
    BY <1>1, <1>2, <1>5, <1>7 DEF LeftBy
  <2> QED
    BY <1>3, <1>6, <1>7, <2>1, TopicElsewhere DEF u
<1>8. CASE t = u
  <2>1. \A j \in OnTopic(u) : j \in Requests /\ (j # r => Calm(j))
    BY <1>6, CallCalm DEF OnTopic
  <2>2. \A j \in OnTopic(u) :
          /\ task'[j] = task[j] /\ (j \in toRestore' => j \in toRestore)
          /\ refcount'[j] = refcount[j]
          /\ j # r => Calm(j)
    BY <1>3, <2>1
  <2>3. TopicInv(u) /\ topics'[u] = topics[u] /\ app'[u] = app[u] /\ UNCHANGED <<bound, exiting, alive>>
    BY <1>1, <1>2, <1>3
  <2>4. CASE pc[r] = "removing" /\ pc' = [pc EXCEPT ![r] = "unsubscribing"]
    <3>1. /\ pc'[r] = "unsubscribing" /\ Holds(u, RemoveOp(r)) /\ ~HasEntry(u) /\ guard' = guard
          /\ u \notin observers'
      <4>1. pc'[r] = "unsubscribing" /\ "done" \in Over /\ "interrupted" \in Over
        BY <1>2, <2>4 DEF Over
      <4>2. ~Release(r, "done") /\ ~Release(r, "interrupted")
        BY <1>4, <4>1
      <4> QED
        BY <1>5, <4>1, <4>2
    <3>2. TopicInv(u)'
      BY <1>1, <1>2, <2>2, <2>3, <2>4, <3>1, TopicUnsubscribes
    <3> QED
      BY <1>8, <3>2
  <2>5. CASE ~(pc[r] = "removing" /\ pc' = [pc EXCEPT ![r] = "unsubscribing"])
    <3>1. /\ pc'[r] \in Over /\ guard'[u] = RemoveFirst(guard[u], RemoveOp(r)) /\ broker' = broker
          /\ pc'[r] = "interrupted" \/ u \notin observers'
          /\ \/ u \in observers' <=> u \in observers
             \/ Holds(u, RemoveOp(r)) /\ u \notin observers'
      <4>1. pc[r] = "unsubscribing" => u \notin observers
        BY <1>1, <1>2 DEF TopicInv, UnsubackHolds
      <4>2. \A op : LeftBy(u, op)[u] = RemoveFirst(guard[u], op)
        BY <1>1, <1>2 DEF LeftBy
      <4>3. "done" \in Over /\ "interrupted" \in Over
        BY DEF Over
      <4> QED
        BY <1>4, <1>5, <2>5, <4>1, <4>2, <4>3
    <3>2. TopicInv(u)'
      BY <1>1, <1>2, <2>2, <2>3, <3>1, TopicRemovalEnds
    <3> QED
      BY <1>8, <3>2
  <2> QED
    BY <2>4, <2>5
<1> QED
  BY <1>7, <1>8

\* The last waiter is interrupted on a live connection.
LEMMA InterruptLive ==
  ASSUME CallsInv, InterestInv, ObserverInv, alive, NEW r \in Requests, CancelCleanup(r),
         pc[r] = "unready", NEW t \in Topics
  PROVE  TopicInv(t)'
<1> DEFINE u == TopicOf[r]
           i == joined[r]
<1>1. u \in Topics /\ r \in OnTopic(u) /\ topics[u] \in OnTopic(u) \union {None}
  BY InterestOnTopic
<1>2. /\ topics \in [Topics -> Requests \union {None}] /\ pc[r] # "acquire"
      /\ bound \in BOOLEAN /\ exiting \in BOOLEAN /\ \A v \in Topics : TopicInv(v)
  BY DEF ObserverInv, ObserverTyped, InterestInv, InterestTyped
<1>3. /\ UNCHANGED <<alive, bound, exiting, task, app, toRestore, refcount, guard, observers, broker>>
      /\ Release(r, "interrupted")
      /\ topics' = [topics EXCEPT ![u] = IF refcount[i] = 0 /\ @ = i THEN None ELSE @]
  BY DEF CancelCleanup, life, Leave
<1>4. /\ pc'[r] = "interrupted"
      /\ \A s \in Requests \ {r} : pc'[s] = pc[s] \/ (pc[s] = "acquire" /\ pc'[s] = "granted")
  BY <1>2, <1>3, ReleaseMoves DEF Over
<1> HIDE DEF u, i
<1>5. CASE t # u
  <2>1. topics'[t] = topics[t]
    BY <1>2, <1>3, <1>5
  <2> QED
    BY <1>3, <1>4, <1>5, <2>1, TopicElsewhere DEF u
<1>6. CASE t = u
  <2>1. \A j \in OnTopic(u) : j \in Requests /\ (j # r => Calm(j))
    BY <1>4, CallCalm DEF OnTopic
  <2>2. \A j \in OnTopic(u) :
          /\ task'[j] = task[j] /\ (j \in toRestore' => j \in toRestore)
          /\ refcount'[j] = refcount[j]
          /\ j # r => Calm(j)
    BY <1>3, <2>1
  <2>3. \/ topics'[u] = topics[u]
        \/ topics'[u] = None /\ ~(refcount[topics[u]] > 0)
    BY <1>1, <1>2, <1>3
  <2>4. TopicInv(u)'
    BY <1>1, <1>2, <1>3, <1>4, <2>2, <2>3, TopicInterrupted
  <2> QED
    BY <1>6, <2>4
<1> QED
  BY <1>5, <1>6

\* The steps of a readiness task on a live connection.
LEMMA ObserverLive ==
  ASSUME InterestInv, ObserverInv, alive, NEW i \in Requests,
         AddObserver(i) \/ ObserverAnswered(i), NEW t \in Topics
  PROVE  TopicInv(t)'
<1> DEFINE u == TopicOf[i]
<1>1. u \in Topics /\ i \in OnTopic(u) /\ topics[u] \in OnTopic(u) \union {None}
  BY InterestOnTopic
<1>2. /\ guard \in [Topics -> Seq(Ops)] /\ observers \subseteq Topics
      /\ task \in [Requests -> {"none", "queued", "suback", "ok", "failed", "rejected", "cancelled"}]
      /\ bound \in BOOLEAN /\ exiting \in BOOLEAN /\ \A v \in Topics : TopicInv(v)
  BY DEF ObserverInv, ObserverTyped
<1>3. UNCHANGED <<alive, bound, exiting, app, toRestore, refcount, topics, pc>>
  BY DEF AddObserver, ObserverAnswered, life, interests, caller
<1>4. \/ /\ task[i] = "queued" /\ Holds(u, AddOp(i)) /\ observers' = observers \union {u}
         /\ \/ /\ u \in observers \/ HasEntry(u)
               /\ task' = [task EXCEPT ![i] = "ok"] /\ guard' = LeftBy(u, AddOp(i)) /\ broker' = broker
            \/ /\ ~HasEntry(u)
               /\ task' = [task EXCEPT ![i] = "suback"] /\ broker' = broker \union {u} /\ guard' = guard
      \/ /\ task[i] = "suback" /\ guard' = LeftBy(u, AddOp(i))
         /\ \/ task' = [task EXCEPT ![i] = "ok"] /\ UNCHANGED <<observers, broker>>
            \/ /\ task' = [task EXCEPT ![i] = "rejected"]
               /\ observers' = observers \ {u} /\ broker' = broker \ {u}
  BY DEF AddObserver, ObserverAnswered, AddOp
<1>5. LeftBy(u, AddOp(i))[u] = RemoveFirst(guard[u], AddOp(i))
  BY <1>1, <1>2 DEF LeftBy
<1> HIDE DEF u
<1>6. CASE t # u
  <2>1. guard'[t] = guard[t] /\ (t \in observers' <=> t \in observers) /\ (t \in broker' <=> t \in broker)
    BY <1>1, <1>2, <1>4, <1>6 DEF LeftBy
  <2>2. \A j \in Requests : TopicOf[j] = t => task'[j] = task[j] /\ refcount'[j] = refcount[j]
    BY <1>2, <1>3, <1>4, <1>6 DEF u
  <2> QED
    BY <1>3, <1>6, <2>1, <2>2, TopicElsewhere DEF u
<1>7. CASE t = u
  <2>1. \A j \in OnTopic(u) :
          /\ (j # i => task'[j] = task[j]) /\ (j \in toRestore' => j \in toRestore)
          /\ refcount'[j] = refcount[j] /\ pc'[j] = pc[j]
    BY <1>2, <1>3, <1>4 DEF OnTopic
  <2>2. TopicInv(u) /\ topics'[u] = topics[u] /\ app'[u] = app[u] /\ UNCHANGED <<bound, exiting, alive>>
    BY <1>1, <1>2, <1>3
  <2>3. CASE task[i] = "queued"
    <3>1. /\ Holds(u, AddOp(i)) /\ u \in observers' /\ (u \in broker => u \in broker')
          /\ \/ /\ task'[i] = "ok" /\ guard'[u] = RemoveFirst(guard[u], AddOp(i))
                /\ (u \in observers \/ HasEntry(u)) /\ (u \in broker' <=> u \in broker)
             \/ task'[i] = "suback" /\ guard'[u] = guard[u] /\ u \in broker' /\ ~HasEntry(u)
      BY <1>1, <1>2, <1>4, <1>5, <2>3
    <3>2. TopicInv(u)'
      BY <1>1, <1>2, <2>1, <2>2, <2>3, <3>1, TopicObserved
    <3> QED
      BY <1>7, <3>2
  <2>4. CASE task[i] # "queued"
    <3>1. /\ task[i] = "suback" /\ guard'[u] = RemoveFirst(guard[u], AddOp(i))
          /\ \/ /\ task'[i] = "ok" /\ (u \in observers' <=> u \in observers)
                /\ u \in broker' <=> u \in broker
             \/ task'[i] = "rejected" /\ u \notin observers'
      BY <1>1, <1>2, <1>4, <1>5, <2>4
    <3>2. TopicInv(u)'
      BY <1>1, <1>2, <2>1, <2>2, <3>1, TopicAnswered
    <3> QED
      BY <1>7, <3>2
  <2> QED
    BY <2>3, <2>4
<1> QED
  BY <1>6, <1>7

\* The steps of the application's subscription to a response topic.
LEMMA AppLive ==
  ASSUME InterestInv, ObserverInv, alive, NEW u \in Topics,
         AppSubscribe(u) \/ AppUnsubscribe(u) \/ AppSends(u) \/ AppLeaves(u) \/ AppAnswered(u),
         NEW t \in Topics
  PROVE  TopicInv(t)'
<1>1. topics[t] \in OnTopic(t) \union {None}
  BY InterestOnTopic
<1>2. /\ guard \in [Topics -> Seq(Ops)]
      /\ app \in [Topics -> {"none", "queued", "requeued", "subscribing", "resubscribing", "owned",
                             "leaving", "unsubscribing"}]
      /\ bound \in BOOLEAN /\ exiting \in BOOLEAN /\ alive \in BOOLEAN /\ \A v \in Topics : TopicInv(v)
  BY DEF ObserverInv, ObserverTyped
<1>3. UNCHANGED <<alive, bound, exiting, toRestore, refcount, topics, pc, task, observers>>
  BY DEF AppSubscribe, AppUnsubscribe, AppSends, AppLeaves, AppAnswered, life, interests, caller
<1>4. \E a : \E g : \E b \in {broker \union {u}, broker \ {u}, broker} :
        app' = [app EXCEPT ![u] = a] /\ guard' = [guard EXCEPT ![u] = g] /\ broker' = b
  <2>1. guard = [guard EXCEPT ![u] = guard[u]]
    BY <1>2
  <2> QED
    BY <2>1 DEF AppSubscribe, AppUnsubscribe, AppSends, AppLeaves, AppAnswered, Queued, LeftBy
<1>5. CASE t # u
  <2>1. guard'[t] = guard[t] /\ app'[t] = app[t] /\ (t \in broker' <=> t \in broker)
    BY <1>2, <1>4, <1>5
  <2>2. \A j \in OnTopic(t) :
          /\ task'[j] = task[j] /\ (j \in toRestore' => j \in toRestore)
          /\ refcount'[j] > 0 => refcount[j] > 0 \/ topics[t] = j
          /\ Calm(j)
    BY <1>3, CallCalm DEF OnTopic
  <2> QED
    BY <1>1, <1>2, <1>3, <2>1, <2>2, TopicUntouched
<1>6. CASE t = u
  <2>1. guard[u] \in Seq(Ops) /\ IsInjective(guard[u]) /\ AppOp \in Ops
    BY <1>2 DEF TopicInv, GuardFits, Ops
  <2>2. AppOp \in ToSet(guard[u]) => app[u] \notin {"none", "owned"}
    BY <1>2, OpsDiffer DEF TopicInv, GuardFits, MayHold
  <2> DEFINE joins == app[u] \in {"none", "owned"} /\ guard'[u] = Append(guard[u], AppOp)
             leaves == guard'[u] = RemoveFirst(guard[u], AppOp)
  <2>3. /\ HasEntry(u)' => HasEntry(u) \/ Holds(u, AppOp)
        /\ HasEntry(u)' \/ u \in observers => u \in broker'
        /\ \/ joins /\ app'[u] \notin {"none", "owned"}
           \/ guard'[u] = guard[u] /\ app'[u] \notin {"none", "owned"}
           \/ leaves
    <3>1. HasEntry(u) \/ u \in observers => u \in broker
      BY <1>2 DEF TopicInv, BrokerHas
    <3>2. CASE AppSubscribe(u) \/ AppUnsubscribe(u)
      BY <1>2, <3>1, <3>2 DEF AppSubscribe, AppUnsubscribe, HasEntry, Queued, AppOp
    <3>3. CASE AppSends(u) \/ AppLeaves(u)
      BY <1>2, <3>1, <3>3 DEF AppSends, AppLeaves, HasEntry, AppOp
    <3>4. CASE AppAnswered(u)
      BY <1>2, <3>1, <3>4 DEF AppAnswered, HasEntry, LeftBy, AppOp
    <3> QED
      BY <3>2, <3>3, <3>4
  <2>4. /\ guard'[u] \in Seq(Ops) /\ IsInjective(guard'[u])
        /\ ToSet(guard'[u]) \ {AppOp} = ToSet(guard[u]) \ {AppOp}
        /\ AppOp \in ToSet(guard'[u]) => app'[u] \notin {"none", "owned"}
        /\ \A op : op # AppOp /\ Holds(u, op) => Holds(u, op)'
    <3>1. CASE joins /\ app'[u] \notin {"none", "owned"}
      <4>1. AppOp \notin ToSet(guard[u])
        BY <2>2, <3>1
      <4> QED
        BY <2>1, <3>1, <4>1, GuardJoined DEF Holds
    <3>2. CASE guard'[u] = guard[u] /\ app'[u] \notin {"none", "owned"}
      BY <2>1, <3>2 DEF Holds
    <3>3. CASE leaves
      <4>1. guard[u] \in Seq(Ops) /\ IsInjective(guard[u])
        BY <2>1
      <4>2. /\ guard'[u] \in Seq(Ops) /\ IsInjective(guard'[u])
            /\ ToSet(guard'[u]) = ToSet(guard[u]) \ {AppOp}
            /\ guard[u] # <<>> /\ Head(guard[u]) # AppOp =>
                 guard'[u] # <<>> /\ Head(guard'[u]) = Head(guard[u])
        BY <3>3, <4>1, RemoveQueue
      <4> QED
        BY <4>2 DEF Holds
    <3> QED
      BY <2>3, <3>1, <3>2, <3>3
  <2>5. ASSUME NEW op, op # AppOp, LastOfCalls(guard[u], op) PROVE LastOfCalls(guard'[u], op)
    <3>1. CASE guard'[u] = Append(guard[u], AppOp)
      <4> SUFFICES ASSUME NEW j \in 1 .. Len(guard[u]) + 1, NEW k \in 1 .. Len(guard[u]) + 1,
                          Append(guard[u], AppOp)[j] = op, j < k
                   PROVE  Append(guard[u], AppOp)[k] = AppOp
        BY <2>1, <3>1 DEF LastOfCalls
      <4>1. k = Len(guard[u]) + 1 => Append(guard[u], AppOp)[k] = AppOp
        BY <2>1
      <4>2. j \in 1 .. Len(guard[u]) /\ guard[u][j] = op
        BY <2>1
      <4>3. k \in 1 .. Len(guard[u]) => Append(guard[u], AppOp)[k] = guard[u][k] /\ guard[u][k] = AppOp
        BY <2>1, <2>5, <4>2 DEF LastOfCalls
      <4> QED
        BY <2>1, <4>1, <4>3
    <3>2. CASE guard'[u] = guard[u]
      BY <2>5, <3>2
    <3>3. CASE leaves
      BY <2>1, <2>5, <3>3, LastRemove
    <3> QED
      BY <2>3, <3>1, <3>2, <3>3
  <2>6. \A j \in OnTopic(u) :
          /\ task'[j] = task[j] /\ (j \in toRestore' => j \in toRestore)
          /\ refcount'[j] = refcount[j] /\ pc'[j] = pc[j]
    BY <1>3
  <2> HIDE DEF joins, leaves
  <2>7. TopicInv(u) /\ alive' /\ UNCHANGED <<bound, exiting, topics>> /\ topics[u] \in OnTopic(u) \union {None}
    BY <1>1, <1>2, <1>3, <1>6
  <2>8. TopicInv(u)'
    BY <1>2, <1>3, <2>3, <2>4, <2>5, <2>6, <2>7, TopicOfApp
  <2> QED
    BY <1>6, <2>8
<1> QED
  BY <1>5, <1>6

\* cancel_pending() on a live connection.
LEMMA CancelLive ==
  ASSUME CallsInv, InterestInv, ObserverInv, alive, CancelPending, NEW t \in Topics
  PROVE  TopicInv(t)'
<1>1. topics[t] \in OnTopic(t) \union {None} /\ (topics[t] # None => pc[topics[t]] \notin Early)
  BY InterestOnTopic
<1>2. /\ task \in [Requests -> {"none", "queued", "suback", "ok", "failed", "rejected", "cancelled"}]
      /\ TopicInv(t) /\ observers \subseteq Topics
  BY DEF ObserverInv, ObserverTyped
<1> DEFINE stopped == {i \in Requests : topics[TopicOf[i]] = i /\ Running(i)}
<1>3. /\ alive' /\ exiting' /\ ~bound' /\ topics'[t] = None
      /\ app' = app /\ broker' = broker /\ toRestore' = toRestore
      /\ guard'[t] = IF topics[t] \in stopped THEN RemoveFirst(guard[t], AddOp(topics[t])) ELSE guard[t]
      /\ observers' = observers \ {TopicOf[i] : i \in {j \in stopped : task[j] = "suback"}}
      /\ task' = [i \in Requests |-> IF i \in stopped THEN "cancelled" ELSE task[i]]
  BY DEF CancelPending, AddOp
<1>4. \A j \in OnTopic(t) : j \in Requests /\ Calm(j)
  BY WokenWaited, CallCalm DEF OnTopic
<1>5. \A j \in OnTopic(t) : j \in stopped <=> topics[t] = j /\ Running(j)
  BY DEF OnTopic
<1>6. topics[t] \in stopped => topics[t] \in OnTopic(t) /\ topics[t] # None
  BY <1>1, RequestAssumption
<1> HIDE DEF stopped
<1>7. CASE topics[t] \in stopped
  <2>1. /\ guard'[t] = RemoveFirst(guard[t], AddOp(topics[t])) /\ topics[t] \in OnTopic(t)
        /\ Running(topics[t]) /\ task'[topics[t]] = "cancelled" /\ pc[topics[t]] \notin Early
        /\ \A j \in OnTopic(t) \ {topics[t]} : task'[j] = task[j]
    BY <1>1, <1>3, <1>4, <1>5, <1>6, <1>7
  <2>2. t \in observers /\ t \notin observers' => task[topics[t]] = "suback"
    <3>1. \A i \in stopped : TopicOf[i] = t => i = topics[t]
      BY DEF stopped
    <3> QED
      BY <1>3, <3>1
  <2>3. t \in observers' => t \in observers
    BY <1>3
  <2> QED
    BY <1>1, <1>2, <1>3, <1>4, <2>1, <2>2, <2>3, TopicCancelled
<1>8. CASE topics[t] \notin stopped
  <2>1. guard'[t] = guard[t] /\ \A j \in OnTopic(t) : task'[j] = task[j]
    BY <1>3, <1>4, <1>5, <1>8
  <2>2. t \in observers' <=> t \in observers
    <3>1. \A i \in stopped : TopicOf[i] # t
      BY <1>8 DEF stopped
    <3> QED
      BY <1>3, <3>1
  <2> QED
    BY <1>1, <1>2, <1>3, <1>4, <2>1, <2>2, TopicCancelled
<1> QED
  BY <1>7, <1>8

\* The steps of restore(), and a new connection.
LEMMA RestoreLive ==
  ASSUME CallsInv, InterestInv, ObserverInv, alive', NEW t \in Topics,
         RestoreTopics \/ Connect \/ \E i \in Requests : RestoreTopic(i)
  PROVE  TopicInv(t)'
<1>1. topics[t] \in OnTopic(t) \union {None} /\ (topics[t] # None => pc[topics[t]] \notin Early)
  BY InterestOnTopic
<1>2. /\ task \in [Requests -> {"none", "queued", "suback", "ok", "failed", "rejected", "cancelled"}]
      /\ guard \in [Topics -> Seq(Ops)] /\ toRestore \subseteq Requests
      /\ bound \in BOOLEAN /\ exiting \in BOOLEAN /\ alive \in BOOLEAN /\ \A v \in Topics : TopicInv(v)
  BY DEF ObserverInv, ObserverTyped
<1>3. CASE RestoreTopics
  <2>1. /\ alive /\ UNCHANGED <<pc, topics, refcount, task, guard, observers, app, broker>>
        /\ UNCHANGED <<bound, alive, exiting>>
        /\ toRestore' = {topics[u] : u \in Topics} \ {None}
    BY <1>3 DEF RestoreTopics, caller, interests, proto
  <2>2. \A j \in OnTopic(t) : j \in toRestore' => topics[t] = j /\ pc[j] \notin Early
    <3>1. \A u \in Topics : topics[u] # None => TopicOf[topics[u]] = u /\ pc[topics[u]] \notin Early
      BY DEF InterestInv
    <3> QED
      BY <2>1, <3>1 DEF OnTopic
  <2>3. GuardFits(t)' /\ DeadTopic(t)' /\ SubackHolds(t)' /\ UnsubackHolds(t)' /\ BrokerHas(t)'
    BY <1>2, <2>1 DEF TopicInv, GuardFits, MayHold, DeadTopic, SubackHolds, UnsubackHolds, BrokerHas,
                      Holds, HasEntry, Running, Removing
  <2>4. Fresh(t)' /\ RestoreFits(t)'
    BY <1>2, <2>1, <2>2 DEF TopicInv, Fresh, RestoreFits
  <2>5. Ordered(t)' /\ Supported(t)' /\ Forgotten(t)'
    BY <1>2, <2>1 DEF TopicInv, Ordered, Supported, Forgotten, Interrupted, Running
  <2> QED
    BY <2>3, <2>4, <2>5 DEF TopicInv
<1>4. CASE Connect
  <2>1. /\ ~alive /\ \A j \in OnTopic(t) : j \in Requests /\ pc[j] # "unsubscribing"
    BY <1>4 DEF Connect, Settled, OnTopic
  <2>2. /\ guard'[t] = IF app[t] = "owned" THEN <<AppOp>> ELSE <<>>
        /\ app'[t] = IF app[t] = "owned" THEN "requeued" ELSE app[t]
        /\ UNCHANGED <<observers, topics, toRestore, pc>>
        /\ \A j \in Requests : task'[j] = "none"
    BY <1>4 DEF Connect, AppOp, caller
  <2> QED
    BY <1>1, <1>2, <2>1, <2>2, TopicConnected
<1>5. ASSUME NEW i \in Requests, RestoreTopic(i) PROVE TopicInv(t)'
  <2> DEFINE u == TopicOf[i]
  <2>1. u \in Topics /\ i \in OnTopic(u) /\ i # None /\ (topics[u] # None => pc[topics[u]] \notin Early)
    BY InterestOnTopic
  <2>2. /\ alive /\ i \in toRestore
        /\ UNCHANGED <<pc, topics, refcount, observers, app, broker, bound, alive, exiting>>
        /\ toRestore' \subseteq toRestore
        /\ \/ UNCHANGED <<task, guard>>
           \/ refcount[i] > 0 /\ EnsureTopicReady(u, i) /\ (task[i] # "none" \/ bound)
    BY <1>5 DEF RestoreTopic, Down, caller
  <2>3. \/ UNCHANGED <<task, guard>>
        \/ /\ refcount[i] > 0 /\ bound /\ task[i] = "none"
           /\ task' = [task EXCEPT ![i] = "queued"]
           /\ guard' = [guard EXCEPT ![u] = Append(@, AddOp(i))]
    BY <2>2 DEF EnsureTopicReady, Queued, AddOp
  <2>4. \A j \in Requests : Calm(j)
    BY <2>2, CallCalm
  <2>5. CASE UNCHANGED <<task, guard>>
    BY <2>2, <2>4, <2>5, CallElsewhere
  <2>6. CASE /\ refcount[i] > 0 /\ bound /\ task[i] = "none"
             /\ task' = [task EXCEPT ![i] = "queued"]
             /\ guard' = [guard EXCEPT ![u] = Append(@, AddOp(i))]
    <3> HIDE DEF u
    <3>1. CASE t # u
      <4>1. guard'[t] = guard[t] /\ \A j \in Requests : TopicOf[j] = t => task'[j] = task[j]
        BY <1>2, <2>6, <3>1 DEF u
      <4> QED
        BY <2>2, <3>1, <4>1, TopicElsewhere DEF u
    <3>2. CASE t = u
      <4>1. topics[u] = i
        BY <1>2, <2>1, <2>2, <2>6 DEF TopicInv, RestoreFits
      <4>2. /\ guard'[u] = Append(guard[u], AddOp(i)) /\ task'[i] = "queued" /\ TopicInv(u)
            /\ topics'[u] = i /\ pc'[i] \notin Early
        BY <1>2, <2>1, <2>2, <2>6, <4>1
      <4>3. \A j \in OnTopic(u) :
              /\ (j # i => task'[j] = task[j]) /\ (j \in toRestore' => j \in toRestore)
              /\ refcount'[j] > 0 => refcount[j] > 0 \/ j = i
              /\ Calm(j)
        BY <1>2, <2>2, <2>4, <2>6 DEF OnTopic
      <4>4. TopicInv(u)'
        BY <1>2, <2>1, <2>2, <2>6, <4>1, <4>2, <4>3, TopicAsked
      <4> QED
        BY <3>2, <4>4
    <3> QED
      BY <3>1, <3>2
  <2> QED
    BY <2>3, <2>5, <2>6
<1> QED
  BY <1>3, <1>4, <1>5

\* Every step on a live connection.
LEMMA LiveStep ==
  CallsInv /\ InterestInv /\ ObserverInv /\ [Next]_vars /\ alive' => \A t \in Topics : TopicInv(t)'
<1> SUFFICES ASSUME CallsInv, InterestInv, ObserverInv, [Next]_vars, alive', NEW t \in Topics
             PROVE  TopicInv(t)'
  OBVIOUS
<1>1. /\ pc \in [Requests -> Places] /\ alive \in BOOLEAN /\ "done" \in Over
      /\ refcount \in [Requests -> Nat]
  BY DEF CallsInv, CallsTyped, ObserverInv, ObserverTyped, InterestInv, InterestTyped, Over
<1> DEFINE still == UNCHANGED <<alive, bound, exiting, guard, app, topics, observers, broker, task,
                                toRestore, refcount>>
<1>2. ASSUME still, NEW r \in Requests, Calm(r),
             \A s \in Requests \ {r} : pc'[s] = pc[s] \/ (pc[s] = "acquire" /\ pc'[s] = "granted")
      PROVE  TopicInv(t)'
  BY <1>2, CallElsewhere
<1>3. ASSUME still, NEW r \in Requests, NEW where, pc' = [pc EXCEPT ![r] = where],
             pc[r] \notin InCleanup \union Over, where \notin InCleanup,
             where \in Early => pc[r] \in Early
      PROVE  TopicInv(t)'
  <2>1. pc'[r] = where /\ \A s \in Requests \ {r} : pc'[s] = pc[s]
    BY <1>1, <1>3
  <2>2. Calm(r)
    BY <1>3, <2>1 DEF Calm, Removing, InCleanup, Over
  <2> QED
    BY <1>2, <1>3, <2>1, <2>2
<1>4. ASSUME still, NEW r \in Requests, Release(r, "done"), pc[r] = "granted"
      PROVE  TopicInv(t)'
  <2>1. /\ pc'[r] = "done"
        /\ \A s \in Requests \ {r} : pc'[s] = pc[s] \/ (pc[s] = "acquire" /\ pc'[s] = "granted")
    BY <1>1, <1>4, ReleaseMoves
  <2>2. Calm(r)
    BY <1>4, <2>1 DEF Calm, Removing, Early
  <2> QED
    BY <1>2, <1>4, <2>1, <2>2
<1>5. ASSUME still, pc' = pc PROVE TopicInv(t)'
  <2>1. PICK r \in Requests : TopicOf[r] = t
    BY DEF Topics
  <2>2. Calm(r) /\ \A s \in Requests \ {r} : pc'[s] = pc[s]
    BY <1>5, CallCalm
  <2> QED
    BY <1>2, <1>5, <2>2
<1> HIDE DEF still
<1>6. ASSUME NEW r \in Requests, Request(r) PROVE TopicInv(t)'
  <2>1. still /\ pc[r] = "idle" /\ \E where \in {"acquire", "granted"} : pc' = [pc EXCEPT ![r] = where]
    BY <1>6 DEF Request, still, proto, life, interests
  <2> QED
    BY <1>3, <2>1 DEF InCleanup, Over, Early
<1>7. ASSUME NEW r \in Requests, RegisterFails(r) PROVE TopicInv(t)'
  BY <1>4, <1>7 DEF RegisterFails, still, proto, life, interests
<1>8. ASSUME NEW r \in Requests, Register(r) PROVE TopicInv(t)'
  <2>1. alive
    BY <1>8 DEF Register, life
  <2> QED
    BY <1>8, <2>1, RegisterLive
<1>9. ASSUME NEW r \in Requests, TopicReady(r) PROVE TopicInv(t)'
  <2>1. still /\ pc[r] = "subscribing" /\ pc' = [pc EXCEPT ![r] = "publishing"]
    BY <1>9 DEF TopicReady, still, proto, life, interests
  <2> QED
    BY <1>3, <2>1 DEF InCleanup, Over, Early
<1>10. ASSUME NEW r \in Requests,
              TopicNotReady(r) \/ Publish(r) \/ Reply(r) \/ Timeout(r) \/ Cancel(r)
       PROVE  TopicInv(t)'
  <2>1. pc[r] \in Registered
    BY <1>10 DEF TopicNotReady, Publish, Reply, Timeout, Cancel, Registered
  <2>2. Ends(r) \/ (still /\ pc' = [pc EXCEPT ![r] = "reply"])
    BY <1>10 DEF TopicNotReady, Publish, Reply, Timeout, Cancel, still, proto, life, interests
  <2>3. CASE Ends(r)
    <3>1. alive
      BY <2>3 DEF Ends, life
    <3> QED
      BY <2>1, <2>3, <3>1, EndsLive
  <2>4. CASE still /\ pc' = [pc EXCEPT ![r] = "reply"]
    BY <1>3, <2>1, <2>4 DEF InCleanup, Over, Early, Registered
  <2> QED
    BY <2>2, <2>3, <2>4
<1>11. ASSUME NEW r \in Requests, UnregisterResumes(r) PROVE TopicInv(t)'
  <2>1. alive
    BY <1>11 DEF UnregisterResumes, life
  <2> QED
    BY <1>11, <2>1, ResumesLive
<1>12. ASSUME NEW r \in Requests, RemoveObserver(r) \/ ObserverRemoved(r) \/ CancelCleanup(r)
       PROVE  TopicInv(t)'
  <2>1. alive /\ (Removing(r) \/ (CancelCleanup(r) /\ pc[r] = "unready"))
    BY <1>12 DEF RemoveObserver, ObserverRemoved, CancelCleanup, life, Removing
  <2> QED
    BY <1>12, <2>1, RemovalLive, InterruptLive
<1>13. ASSUME NEW r \in Requests, CancelBeforeRegistering(r) PROVE TopicInv(t)'
  <2>1. /\ still
        /\ \/ pc[r] = "acquire" /\ pc' = [pc EXCEPT ![r] = "done"]
           \/ pc[r] = "granted" /\ Release(r, "done")
    BY <1>13 DEF CancelBeforeRegistering, still, proto, life, interests
  <2> QED
    BY <1>3, <1>4, <2>1 DEF InCleanup, Over, Early
<1>14. ASSUME NEW r \in Requests, Claim(r) PROVE TopicInv(t)'
  BY <1>5, <1>14 DEF Claim, still, caller, proto, life, interests
<1>15. ASSUME NEW c \in claims, Complete(c[1], c[2]) PROVE TopicInv(t)'
  BY <1>5, <1>15 DEF Complete, still, caller, proto, life, interests
<1>16. ASSUME NEW i \in Requests, AddObserver(i) \/ ObserverAnswered(i) PROVE TopicInv(t)'
  <2>1. alive
    BY <1>16 DEF AddObserver, ObserverAnswered
  <2> QED
    BY <1>16, <2>1, ObserverLive
<1>17. ASSUME NEW i \in Requests, ObserverFails(i) PROVE TopicInv(t)'
  BY <1>17 DEF ObserverFails, life
<1>18. ASSUME NEW u \in Topics,
              \/ AppSubscribe(u) \/ AppUnsubscribe(u) \/ AppSends(u) \/ AppLeaves(u) \/ AppAnswered(u)
       PROVE  TopicInv(t)'
  <2>1. alive
    BY <1>18 DEF AppSubscribe, AppUnsubscribe, AppSends, AppLeaves, AppAnswered
  <2> QED
    BY <1>18, <2>1, AppLive
<1>19. CASE ConnectionLost \/ Disconnect
  BY <1>19 DEF ConnectionLost, Disconnect, Down
<1>20. CASE Connect \/ RestoreTopics \/ \E i \in Requests : RestoreTopic(i)
  BY <1>20, RestoreLive
<1>21. CASE TopicRestored
  <2>1. still /\ pc' = pc
    BY <1>21 DEF TopicRestored, Down, still, caller, interests
  <2> QED
    BY <1>5, <2>1
<1>22. CASE RestoreEnds \/ UNCHANGED vars
  BY <1>5, <1>22 DEF RestoreEnds, still, vars, caller, proto, life, interests
<1>23. CASE CancelPending
  <2>1. alive
    BY <1>23 DEF CancelPending
  <2> QED
    BY <1>23, <2>1, CancelLive
<1> QED
  BY <1>6, <1>7, <1>8, <1>9, <1>10, <1>11, <1>12, <1>13, <1>14, <1>15, <1>16, <1>17, <1>18, <1>19,
     <1>20, <1>21, <1>22, <1>23 DEF Next

\* The guards and the observers keep their types.
LEMMA ObserverTypedStep ==
  CallsInv /\ InterestInv /\ ObserverInv /\ [Next]_vars
    => ObserverTyped' /\ (~bound' => exiting' \/ ~alive')
<1> SUFFICES ASSUME CallsInv, InterestInv, ObserverInv, [Next]_vars
             PROVE  ObserverTyped' /\ (~bound' => exiting' \/ ~alive')
  OBVIOUS
<1> DEFINE good == ObserverTyped' /\ (~bound' => exiting' \/ ~alive')
           Tasks == {"none", "queued", "suback", "ok", "failed", "rejected", "cancelled"}
           Apps == {"none", "queued", "requeued", "subscribing", "resubscribing", "owned",
                    "leaving", "unsubscribing"}
<1>1. /\ guard \in [Topics -> Seq(Ops)] /\ task \in [Requests -> Tasks] /\ app \in [Topics -> Apps]
      /\ observers \subseteq Topics /\ toRestore \subseteq Requests
      /\ alive \in BOOLEAN /\ bound \in BOOLEAN /\ exiting \in BOOLEAN /\ (~bound => exiting \/ ~alive)
  BY DEF ObserverInv, ObserverTyped
<1>2. ASSUME guard' \in [Topics -> Seq(Ops)], task' \in [Requests -> Tasks], app' \in [Topics -> Apps],
             observers' \subseteq Topics, toRestore' \subseteq Requests,
             alive' \in BOOLEAN, bound' \in BOOLEAN, exiting' \in BOOLEAN, ~bound' => exiting' \/ ~alive'
      PROVE  good
  BY <1>2 DEF ObserverTyped
<1>3. \A r \in Requests : /\ TopicOf[r] \in Topics /\ AddOp(r) \in Ops /\ RemoveOp(r) \in Ops
                          /\ AppOp \in Ops
  BY DEF Topics, Ops
<1>4. /\ topics \in [Topics -> Requests \union {None}]
      /\ \A t \in Topics : topics[t] # None => TopicOf[topics[t]] = t
  BY DEF InterestInv, InterestTyped
<1>5. ASSUME NEW t \in Topics, NEW op \in Ops
      PROVE  /\ Queued(t, op) \in [Topics -> Seq(Ops)]
             /\ LeftBy(t, op) \in [Topics -> Seq(Ops)]
  <2>1. Append(guard[t], op) \in Seq(Ops)
    BY <1>1
  <2>2. IsInjective(guard[t]) /\ guard[t] \in Seq(Ops)
    BY <1>1 DEF ObserverInv, TopicInv, GuardFits
  <2>3. RemoveFirst(guard[t], op) \in Seq(Ops)
    BY <2>2, RemoveQueue
  <2> QED
    BY <1>1, <2>1, <2>3 DEF Queued, LeftBy
<1> HIDE DEF good, Tasks, Apps
<1>6. ASSUME UNCHANGED <<proto, life>> PROVE good
  BY <1>1, <1>2, <1>6 DEF proto, life
<1>7. ASSUME NEW r \in Requests,
              \/ Request(r) \/ RegisterFails(r) \/ TopicReady(r) \/ Claim(r)
              \/ CancelBeforeRegistering(r)
       PROVE  good
  BY <1>6, <1>7 DEF Request, RegisterFails, TopicReady, Claim, CancelBeforeRegistering
<1>8. ASSUME guard' \in [Topics -> Seq(Ops)], task' \in [Requests -> Tasks],
             observers' \subseteq Topics, UNCHANGED <<app, life>>
      PROVE  good
  BY <1>1, <1>2, <1>8 DEF life
<1>9. ASSUME NEW r \in Requests, Register(r) PROVE good
  <2> DEFINE i == IF topics[TopicOf[r]] = None THEN r ELSE topics[TopicOf[r]]
  <2>1. i \in Requests /\ AddOp(i) \in Ops /\ TopicOf[r] \in Topics
    BY <1>3, <1>4
  <2>2. Queued(TopicOf[r], AddOp(i)) \in [Topics -> Seq(Ops)]
    BY <1>5, <2>1
  <2>3. guard' \in [Topics -> Seq(Ops)]
    BY <1>1, <1>9, <2>2 DEF Register, EnsureTopicReady, AddOp
  <2>4. task' \in [Requests -> Tasks]
    <3>1. task' = task \/ task' = [task EXCEPT ![i] = "queued"]
      BY <1>9 DEF Register, EnsureTopicReady
    <3> QED
      BY <1>1, <3>1 DEF Tasks
  <2> QED
    BY <1>1, <1>8, <1>9, <2>3, <2>4 DEF Register
<1>10. ASSUME NEW r \in Requests,
              \/ TopicNotReady(r) \/ Publish(r) \/ Reply(r) \/ Timeout(r) \/ Cancel(r)
       PROVE  good
  <2>1. Ends(r) \/ UNCHANGED <<proto, life>>
    BY <1>10 DEF TopicNotReady, Publish, Reply, Timeout, Cancel
  <2>2. CASE Ends(r)
    <3>1. guard' = guard \/ guard' = Queued(TopicOf[r], RemoveOp(r))
      BY <2>2 DEF Ends, Unregister, LetGo, RemoveOp
    <3>2. guard' \in [Topics -> Seq(Ops)]
      BY <1>1, <1>3, <1>5, <3>1
    <3> QED
      BY <1>1, <1>8, <2>2, <3>2 DEF Ends
  <2> QED
    BY <1>6, <2>1, <2>2
<1>11. ASSUME NEW r \in Requests,
              UnregisterResumes(r) \/ RemoveObserver(r) \/ ObserverRemoved(r) \/ CancelCleanup(r)
       PROVE  good
  <2>1. \/ guard' = guard \/ guard' = Queued(TopicOf[r], RemoveOp(r))
        \/ guard' = LeftBy(TopicOf[r], RemoveOp(r))
    BY <1>11 DEF UnregisterResumes, RemoveObserver, ObserverRemoved, CancelCleanup, LetGo, RemoveOp
  <2>2. guard' \in [Topics -> Seq(Ops)]
    BY <1>1, <1>3, <1>5, <2>1
  <2>3. task' = task /\ observers' \subseteq Topics /\ UNCHANGED <<app, life>>
    BY <1>1, <1>11 DEF UnregisterResumes, RemoveObserver, ObserverRemoved, CancelCleanup
  <2> QED
    BY <1>1, <1>8, <2>2, <2>3
<1>12. ASSUME NEW c \in claims, Complete(c[1], c[2]) PROVE good
  BY <1>6, <1>12 DEF Complete
<1>13. ASSUME NEW i \in Requests, AddObserver(i) \/ ObserverAnswered(i) \/ ObserverFails(i) PROVE good
  <2>1. guard' = guard \/ guard' = LeftBy(TopicOf[i], AddOp(i))
    BY <1>13 DEF AddObserver, ObserverAnswered, ObserverFails, AddOp
  <2>2. guard' \in [Topics -> Seq(Ops)]
    BY <1>1, <1>3, <1>5, <2>1
  <2>3. observers' \subseteq Topics /\ UNCHANGED <<app, life>>
    BY <1>1, <1>3, <1>13 DEF AddObserver, ObserverAnswered, ObserverFails
  <2>4. \E v \in Tasks : task' = [task EXCEPT ![i] = v]
    BY <1>13 DEF AddObserver, ObserverAnswered, ObserverFails, Tasks
  <2>5. task' \in [Requests -> Tasks]
    BY <1>1, <2>4
  <2> QED
    BY <1>8, <2>2, <2>3, <2>5
<1>14. ASSUME NEW u \in Topics,
              \/ AppSubscribe(u) \/ AppUnsubscribe(u) \/ AppSends(u) \/ AppLeaves(u) \/ AppAnswered(u)
       PROVE  good
  <2>1. guard' = guard \/ guard' = Queued(u, AppOp) \/ guard' = LeftBy(u, AppOp)
    BY <1>14 DEF AppSubscribe, AppUnsubscribe, AppSends, AppLeaves, AppAnswered, AppOp
  <2>2. guard' \in [Topics -> Seq(Ops)]
    <3>1. AppOp \in Ops
      BY DEF Ops
    <3> QED
      BY <1>1, <1>5, <2>1, <3>1
  <2>3. UNCHANGED <<task, observers, life>>
    BY <1>14 DEF AppSubscribe, AppUnsubscribe, AppSends, AppLeaves, AppAnswered
  <2>4. \E v \in Apps : app' = [app EXCEPT ![u] = v]
    BY <1>14 DEF AppSubscribe, AppUnsubscribe, AppSends, AppLeaves, AppAnswered, Apps
  <2>5. app' \in [Topics -> Apps]
    BY <1>1, <2>4
  <2> QED
    BY <1>1, <1>2, <2>2, <2>3, <2>5 DEF life
<1>15. ASSUME NEW where, Down(where), UNCHANGED <<task, bound, exiting>> PROVE good
  <2>1. guard' \in [Topics -> Seq(Ops)] /\ app' \in [Topics -> Apps]
    BY <1>15 DEF Down, Apps
  <2> QED
    BY <1>1, <1>2, <1>15, <2>1 DEF Down
<1>16. ASSUME ConnectionLost PROVE good
  BY <1>15, <1>16 DEF ConnectionLost
<1>17. ASSUME Connect PROVE good
  <2>1. guard' \in [Topics -> Seq(Ops)]
    <3>1. AppOp \in Ops
      BY DEF Ops
    <3>2. <<AppOp>> \in Seq(Ops) /\ <<>> \in Seq(Ops)
      BY <3>1
    <3> QED
      BY <1>17, <3>2 DEF Connect, AppOp
  <2>2. app' \in [Topics -> Apps] /\ task' \in [Requests -> Tasks]
    BY <1>1, <1>17 DEF Connect, Apps, Tasks
  <2> QED
    BY <1>1, <1>2, <1>17, <2>1, <2>2 DEF Connect
<1>18. ASSUME RestoreTopics PROVE good
  <2>1. toRestore' \subseteq Requests
    BY <1>4, <1>18 DEF RestoreTopics
  <2> QED
    BY <1>1, <1>2, <1>18, <2>1 DEF RestoreTopics, proto
<1>19. ASSUME NEW i \in Requests, RestoreTopic(i) PROVE good
  <2>1. CASE Down("down") /\ UNCHANGED <<task, bound, exiting>>
    BY <1>15, <2>1
  <2>2. CASE ~(Down("down") /\ UNCHANGED <<task, bound, exiting>>)
    <3>1. /\ UNCHANGED <<observers, app, alive, bound, exiting>> /\ toRestore' \subseteq toRestore
          /\ guard' = guard \/ guard' = Queued(TopicOf[i], AddOp(i))
          /\ task' = task \/ task' = [task EXCEPT ![i] = "queued"]
      BY <1>19, <2>2 DEF RestoreTopic, EnsureTopicReady, AddOp
    <3>2. guard' \in [Topics -> Seq(Ops)]
      BY <1>1, <1>3, <1>5, <3>1
    <3>3. task' \in [Requests -> Tasks]
      BY <1>1, <3>1 DEF Tasks
    <3> QED
      BY <1>1, <1>2, <3>1, <3>2, <3>3
  <2> QED
    BY <2>1, <2>2
<1>20. ASSUME TopicRestored PROVE good
  <2>1. CASE \E where : Down(where)
    BY <1>15, <1>20, <2>1 DEF TopicRestored
  <2>2. CASE ~\E where : Down(where)
    <3>1. UNCHANGED <<observers, app, alive, bound, exiting, guard, task, toRestore>>
      BY <1>20, <2>2 DEF TopicRestored
    <3> QED
      BY <1>1, <1>2, <3>1
  <2> QED
    BY <2>1, <2>2
<1>21. ASSUME RestoreEnds PROVE good
  BY <1>1, <1>2, <1>21 DEF RestoreEnds, proto
<1>22. ASSUME CancelPending PROVE good
  <2>1. \A t \in Topics : topics[t] \in Requests => RemoveFirst(guard[t], AddOp(topics[t])) \in Seq(Ops)
    <3> SUFFICES ASSUME NEW t \in Topics PROVE RemoveFirst(guard[t], AddOp(topics[t])) \in Seq(Ops)
      OBVIOUS
    <3>1. IsInjective(guard[t]) /\ guard[t] \in Seq(Ops)
      BY <1>1 DEF ObserverInv, TopicInv, GuardFits
    <3> QED
      BY <3>1, RemoveQueue
  <2>2. guard' \in [Topics -> Seq(Ops)]
    BY <1>1, <1>22, <2>1 DEF CancelPending, AddOp
  <2>3. task' \in [Requests -> Tasks]
    BY <1>1, <1>22 DEF CancelPending, Tasks
  <2>4. /\ observers' \subseteq observers /\ toRestore' = toRestore /\ app' = app
        /\ alive' = alive /\ bound' = FALSE /\ exiting' = TRUE
    BY <1>22 DEF CancelPending
  <2> QED
    BY <1>1, <1>2, <2>2, <2>3, <2>4
<1>23. ASSUME Disconnect PROVE good
  <2>1. guard' \in [Topics -> Seq(Ops)] /\ app' \in [Topics -> Apps]
    BY <1>23 DEF Disconnect, Apps
  <2> QED
    BY <1>1, <1>2, <1>23, <2>1 DEF Disconnect
<1>24. ASSUME UNCHANGED vars PROVE good
  BY <1>6, <1>24 DEF vars
<1>25. good
  BY <1>7, <1>9, <1>10, <1>11, <1>12, <1>13, <1>14, <1>16, <1>17, <1>18, <1>19, <1>20, <1>21, <1>22,
     <1>23, <1>24 DEF Next
<1> QED
  BY <1>25 DEF good

\* Every step keeps the guards, the observers and the broker in order.
LEMMA ObserverStep == CallsInv /\ InterestInv /\ ObserverInv /\ [Next]_vars => ObserverInv'
<1> SUFFICES ASSUME CallsInv, InterestInv, ObserverInv, [Next]_vars PROVE ObserverInv'
  OBVIOUS
<1>1. ObserverTyped' /\ (~bound' => exiting' \/ ~alive')
  BY ObserverTypedStep
<1>2. \A t \in Topics : TopicInv(t)'
  BY DeadStep, LiveStep
<1> QED
  BY <1>1, <1>2 DEF ObserverInv

\* At the beginning every guard is free.
LEMMA ObserverInit == Init => ObserverInv
<1> SUFFICES ASSUME Init PROVE ObserverInv
  OBVIOUS
<1>1. ObserverTyped /\ bound
  <2>1. guard \in [Topics -> Seq(Ops)]
    BY DEF Init
  <2>2. /\ task \in [Requests -> {"none", "queued", "suback", "ok", "failed", "rejected", "cancelled"}]
        /\ app \in [Topics -> {"none", "queued", "requeued", "subscribing", "resubscribing", "owned",
                               "leaving", "unsubscribing"}]
        /\ observers = {} /\ toRestore = {}
    BY DEF Init
  <2>3. alive = TRUE /\ bound = TRUE /\ exiting = FALSE
    BY DEF Init
  <2> QED
    BY <2>1, <2>2, <2>3 DEF ObserverTyped
<1>2. ASSUME NEW t \in Topics PROVE TopicInv(t)
  <2>1. guard[t] \in Seq(Ops) /\ IsInjective(guard[t]) /\ ToSet(guard[t]) = {}
    BY DEF Init, IsInjective, ToSet
  <2>2. /\ topics[t] = None /\ app[t] = "none" /\ observers = {} /\ toRestore = {} /\ alive
        /\ \A j \in OnTopic(t) : pc[j] = "idle" /\ task[j] = "none"
    BY DEF Init, OnTopic
  <2> QED
    BY <2>1, <2>2 DEF TopicInv, GuardFits, DeadTopic, Fresh, RestoreFits, SubackHolds, UnsubackHolds,
                      BrokerHas, Ordered, Supported, Forgotten, HasEntry, Running
<1> QED
  BY <1>1, <1>2 DEF ObserverInv

\* The guards, the observers and the broker are in order in every reachable state.
LEMMA ObserverAlways == Spec => []ObserverInv
<1>1. Init => CallsInv /\ InterestInv /\ ObserverInv
  BY CallsInit, InterestInit, ObserverInit
<1>2. CallsInv /\ InterestInv /\ ObserverInv /\ [Next]_vars => (CallsInv /\ InterestInv /\ ObserverInv)'
  BY CallsStep, InterestStep, ObserverStep
<1> QED
  BY <1>1, <1>2, PTL DEF Spec

\* A response topic that counts as ready on the live connection has an observer and is
\* subscribed at the broker: whatever order add_response_observer(),
\* remove_response_observer() and the application's subscribe and unsubscribe take the
\* guard in, and whatever the broker answers.
THEOREM ResponseTopicHeldHolds == Spec => []ResponseTopicHeld
<1>1. ObserverInv => ResponseTopicHeld
  <2> SUFFICES ASSUME ObserverInv, NEW t \in Topics, alive, topics[t] # None, task[topics[t]] = "ok"
               PROVE  t \in observers /\ t \in broker
    BY DEF ResponseTopicHeld
  <2> QED
    BY DEF ObserverInv, TopicInv, Ordered, BrokerHas
<1> QED
  BY <1>1, ObserverAlways, PTL

\* An observer has an interest, an operation at work on it, an interrupted cleanup or
\* a disconnect() under way: unregister() leaves none behind.
THEOREM ObserverReleasedHolds == Spec => []ObserverReleased
<1>1. ObserverInv => ObserverReleased
  <2> SUFFICES ASSUME ObserverInv, NEW t \in observers
               PROVE  \/ topics[t] # None
                      \/ exiting
                      \/ \E j \in 1 .. Len(guard[t]) : guard[t][j][1] \in {"add", "remove"}
                      \/ \E r \in Requests : TopicOf[r] = t /\ pc[r] = "interrupted"
    BY DEF ObserverReleased
  <2>1. t \in Topics /\ guard[t] \in Seq(Ops) /\ Supported(t)
    BY DEF ObserverInv, ObserverTyped, TopicInv
  <2>2. DOMAIN guard[t] = 1 .. Len(guard[t])
    BY <2>1
  <2>3. Interrupted(t) => \E r \in Requests : TopicOf[r] = t /\ pc[r] = "interrupted"
    BY DEF Interrupted, OnTopic
  <2>4. ASSUME NEW i \in Requests, AddOp(i) \in ToSet(guard[t]) \/ RemoveOp(i) \in ToSet(guard[t])
        PROVE  \E j \in 1 .. Len(guard[t]) : guard[t][j][1] \in {"add", "remove"}
    <3>1. PICK j \in 1 .. Len(guard[t]) : guard[t][j] = AddOp(i) \/ guard[t][j] = RemoveOp(i)
      BY <2>2, <2>4 DEF ToSet
    <3>2. AddOp(i)[1] = "add" /\ RemoveOp(i)[1] = "remove"
      BY DEF AddOp, RemoveOp
    <3> QED
      BY <3>1, <3>2
  <2> QED
    BY <2>1, <2>3, <2>4 DEF Supported
<1> QED
  BY <1>1, ObserverAlways, PTL

=============================================================================
