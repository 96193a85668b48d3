---------------------------- MODULE OutboundProofs ----------------------------
(***************************************************************************)
(* Theorems about Outbound, for every set of calls and every MaxId.        *)
(***************************************************************************)
EXTENDS Outbound, FiniteSetTheorems, WellFoundedInduction, TLAPS

-----------------------------------------------------------------------------
(* The allocator of packet identifiers.                                    *)

\* A nonempty set of identifiers has a least element, which Min returns.
LEMMA MinIsLeast ==
  ASSUME NEW S \in SUBSET PacketId, S # {}
  PROVE  Min(S) \in S /\ \A j \in S : Min(S) <= j
<1>1. S \subseteq Nat
  BY MaxIdAssumption DEF PacketId
<1>2. \E x \in S : \A y \in S : <<y, x>> \notin OpToRel(<, Nat)
  BY <1>1, WFMin, NatLessThanWellFounded, Zenon
<1>3. PICK x \in S : \A y \in S : <<y, x>> \notin OpToRel(<, Nat)
  BY <1>2
<1>4. \A y \in S : ~(y < x)
  <2>1. ASSUME NEW y \in S, y < x PROVE <<y, x>> \in {ss \in Nat \X Nat : ss[1] < ss[2]}
    BY <1>1, <2>1
  <2> QED
    BY <1>3, <2>1 DEF OpToRel
<1>5. \A y \in S : x =< y
  BY <1>1, <1>4
<1> QED
  BY <1>5 DEF Min

\* acquire() finds no free identifier only when it raises: a pool that is not
\* exhausted has one.
LEMMA FreeWhenNotExhausted ==
  ASSUME NEW P \in Pool, ~Exhausted(P)
  PROVE  FreeIds(P) # {}
<1>1. IsFiniteSet(PacketId) /\ Cardinality(PacketId) = MaxId
  BY FS_Interval, MaxIdAssumption DEF PacketId
<1>2. P.inUse \subseteq PacketId
  BY DEF Pool
<1>3. CASE FreeIds(P) = {}
  <2>1. P.inUse = PacketId
    BY <1>2, <1>3 DEF FreeIds
  <2> QED
    BY <1>1, <2>1, MaxIdAssumption DEF Exhausted
<1> QED
  BY <1>3

\* The search of acquire() ends on an identifier that nobody holds.
LEMMA NextFreeIsFree ==
  ASSUME NEW P \in Pool, ~Exhausted(P)
  PROVE  NextFree(P) \in PacketId \ P.inUse
<1>1. FreeIds(P) # {}
  BY FreeWhenNotExhausted
<1>2. FreeIds(P) \in SUBSET PacketId
  BY DEF FreeIds
<1> DEFINE ahead == {i \in FreeIds(P) : i >= P.next}
<1>3. ahead \in SUBSET PacketId
  BY <1>2
<1>4. NextFree(P) \in FreeIds(P)
  BY <1>1, <1>2, <1>3, MinIsLeast DEF NextFree
<1> QED
  BY <1>4 DEF FreeIds

\* acquire() keeps the pool well formed and adds exactly the identifier it found.
LEMMA AcquireType ==
  ASSUME NEW P \in Pool, ~Exhausted(P)
  PROVE  /\ Acquire(P) \in Pool
         /\ Acquire(P).inUse = P.inUse \cup {NextFree(P)}
<1>1. NextFree(P) \in PacketId
  BY NextFreeIsFree
<1>2. Succ(NextFree(P)) \in PacketId
  BY <1>1, MaxIdAssumption DEF Succ, PacketId
<1> QED
  BY <1>1, <1>2 DEF Acquire, Pool

\* release() keeps the pool well formed and takes exactly one identifier back.
LEMMA ReleaseType ==
  ASSUME NEW P \in Pool, NEW id \in PacketId
  PROVE  /\ Release(P, id) \in Pool
         /\ Release(P, id).inUse = P.inUse \ {id}
BY DEF Release, Pool

\* No free identifier lies below the place where the search starts.
Compact(P) == \A i \in FreeIds(P) : i >= P.next

\* In a compact pool acquire() hands out the lowest free identifier and leaves a
\* compact pool behind, also when it wraps from MaxId to 1.
LEMMA AcquireCompact ==
  ASSUME NEW P \in Pool, ~Exhausted(P), Compact(P)
  PROVE  /\ \A i \in FreeIds(P) : NextFree(P) <= i
         /\ Compact(Acquire(P))
<1>1. FreeIds(P) # {} /\ FreeIds(P) \in SUBSET PacketId
  BY FreeWhenNotExhausted DEF FreeIds
<1>2. {i \in FreeIds(P) : i >= P.next} = FreeIds(P)
  BY DEF Compact
<1>3. NextFree(P) = Min(FreeIds(P))
  BY <1>2 DEF NextFree
<1>4. \A i \in FreeIds(P) : NextFree(P) <= i
  BY <1>1, <1>3, MinIsLeast
<1>5. NextFree(P) \in PacketId \ P.inUse
  BY NextFreeIsFree
<1>6. ASSUME NEW i \in FreeIds(Acquire(P))
      PROVE  i >= Acquire(P).next
  <2>1. i \in FreeIds(P) /\ i # NextFree(P) /\ i \in PacketId
    BY <1>6, AcquireType DEF FreeIds
  <2>2. NextFree(P) < i
    BY <1>4, <1>5, <2>1 DEF PacketId
  <2>3. Succ(NextFree(P)) = NextFree(P) + 1
    BY <1>5, <2>1, <2>2, MaxIdAssumption DEF Succ, PacketId
  <2> QED
    BY <1>5, <2>1, <2>2, <2>3 DEF Acquire, PacketId
<1> QED
  BY <1>4, <1>6 DEF Compact

\* release() leaves a compact pool compact.
LEMMA ReleaseCompact ==
  ASSUME NEW P \in Pool, NEW id \in PacketId, Compact(P)
  PROVE  Compact(Release(P, id))
BY DEF Compact, Release, FreeIds, Pool, PacketId

-----------------------------------------------------------------------------
(* Type correctness.                                                       *)

\* A call that registers itself (Begin) assigns values of the declared types.
LEMMA BeginType ==
  ASSUME TypeOK, NEW o \in Ops, NEW k \in Kinds, NEW id \in PacketId,
         NEW type \in ClientPackets, Begin(o, k, type, id)
  PROVE  /\ kind' \in [Ops -> Kinds \cup {"none"}]
         /\ pc' \in [Ops -> {"idle", "sending", "awaiting", "finished"}]
         /\ pid' \in [Ops -> PacketId \cup {0}]
         /\ fut' \in [Ops -> {"none", "pending", "ok", "rejected", "lost", "cancelled"}]
         /\ outcome' \in [Ops -> Outcomes]
         /\ net' \in SUBSET Packet
<1>1. Pkt(type, id, o, TRUE) \in Packet
  BY DEF Pkt, Packet, ClientPackets
<1>2. net' \in SUBSET Packet
  BY <1>1 DEF TypeOK, Begin
<1>3. /\ pc' \in [Ops -> {"idle", "sending", "awaiting", "finished"}]
      /\ outcome' \in [Ops -> Outcomes]
  BY DEF TypeOK, Begin, Finish, Outcomes
<1>4. /\ kind' \in [Ops -> Kinds \cup {"none"}]
      /\ pid' \in [Ops -> PacketId \cup {0}]
      /\ fut' \in [Ops -> {"none", "pending", "ok", "rejected", "lost", "cancelled"}]
  BY DEF TypeOK, Begin
<1> QED
  BY <1>2, <1>3, <1>4

\* Completing a future with an answer keeps futures and resolvers typed.
LEMMA ResolveType ==
  ASSUME TypeOK, NEW o \in Ops, NEW p \in Packet, Resolve(o, p)
  PROVE  /\ fut' \in [Ops -> {"none", "pending", "ok", "rejected", "lost", "cancelled"}]
         /\ resolver' \in [Ops -> Ops \cup {NoOp}]
BY DEF TypeOK, Resolve, Packet

\* Ending a call keeps its place and its outcome typed.
LEMMA FinishType ==
  ASSUME TypeOK, NEW o \in Ops, NEW result \in Outcomes, Finish(o, result)
  PROVE  /\ pc' \in [Ops -> {"idle", "sending", "awaiting", "finished"}]
         /\ outcome' \in [Ops -> Outcomes]
BY DEF TypeOK, Finish

\* Calls that wait have an identifier when they have an entry in a table to
\* give back.
HasId ==
  \A o \in Ops : Active(o) /\ kind[o] \in SubscribeKinds => pid[o] \in PacketId

\* The finally blocks give back an identifier of the pool and a table entry, never
\* anything else: pool and tables stay typed.
LEMMA LeaveType ==
  ASSUME TypeOK, HasId, NEW o \in Ops, Active(o), LeaveExchange(o)
  PROVE  /\ pool' \in Pool
         /\ inflight1' \in Table /\ inflight2' \in Table
         /\ q2state' \in [PacketId -> {"pending_pubrec", "pending_pubcomp"}]
         /\ pendingSubs' \in Table /\ pendingUnsubs' \in Table
<1>1. kind[o] \in SubscribeKinds => Release(pool, pid[o]) \in Pool
  BY ReleaseType DEF TypeOK, HasId
<1> QED
  BY <1>1 DEF TypeOK, LeaveExchange, Table

\* The type invariant in inductive form.
Typed == TypeOK /\ HasId

\* A new SessionState is well typed.
LEMMA TypedInit == Init => Typed
<1> SUFFICES ASSUME Init PROVE Typed
  OBVIOUS
<1>1. EmptyPool \in Pool
  BY MaxIdAssumption DEF EmptyPool, Pool, PacketId
<1>2. TypeOK
  BY <1>1 DEF Init, TypeOK, EmptyTable, Table, Outcomes
<1>3. HasId
  BY DEF Init, HasId, Active
<1> QED
  BY <1>2, <1>3 DEF Typed

\* Every step of a call, of the read loop, of run() and of the broker keeps the
\* types: the handlers only see packets of the declared types.
LEMMA TypedStep == Typed /\ [Next]_vars => Typed'
<1> SUFFICES ASSUME Typed, [Next]_vars PROVE Typed'
  OBVIOUS
<1> USE DEF Typed
<1>1. ASSUME NEW o \in Ops, NEW k \in Kinds,
             StartOnDead(o, k) \/ StartRefused(o, k) \/ StartExhausted(o, k)
      PROVE  Typed'
  BY <1>1 DEF TypeOK, HasId, Active, StartOnDead, StartRefused, StartExhausted, Finish,
              Outcomes, connVars, tables
<1>2. ASSUME NEW o \in Ops, "qos0" \in Kinds, StartQoS0(o)
      PROVE  Typed'
  BY <1>2 DEF TypeOK, HasId, Active, StartQoS0, Finish, Outcomes, SubscribeKinds,
              connVars, tables
<1>3. ASSUME NEW o \in Ops, NEW k \in Kinds, MayAcquire(o, k)
      PROVE  /\ NextFree(pool) \in PacketId
             /\ Acquire(pool) \in Pool
             /\ Release(Acquire(pool), NextFree(pool)) \in Pool
  BY <1>3, NextFreeIsFree, AcquireType, ReleaseType DEF MayAcquire, TypeOK
<1>4. ASSUME NEW o \in Ops, NEW k \in Kinds, NEW type \in ClientPackets,
             NEW id \in PacketId, Begin(o, k, type, id)
      PROVE  HasId'
  BY <1>4 DEF TypeOK, HasId, Active, Begin, Finish
<1>5. ASSUME NEW o \in Ops, "qos1" \in Kinds, StartQoS1(o)
      PROVE  Typed'
  <2>1. Begin(o, "qos1", "PUBLISH1", NextFree(pool)) /\ NextFree(pool) \in PacketId
    BY <1>3, <1>5 DEF StartQoS1
  <2> QED
    BY <1>3, <1>4, <1>5, <2>1, BeginType DEF TypeOK, StartQoS1, Table, ClientPackets, connVars
<1>6. ASSUME NEW o \in Ops, "qos2" \in Kinds, StartQoS2(o)
      PROVE  Typed'
  <2>1. Begin(o, "qos2", "PUBLISH2", NextFree(pool)) /\ NextFree(pool) \in PacketId
    BY <1>3, <1>6 DEF StartQoS2
  <2> QED
    BY <1>3, <1>4, <1>6, <2>1, BeginType DEF TypeOK, StartQoS2, Table, ClientPackets, connVars
<1>7. ASSUME NEW o \in Ops, "subscribe" \in Kinds, StartSubscribe(o)
      PROVE  Typed'
  <2>1. Begin(o, "subscribe", "SUBSCRIBE", NextFree(pool)) /\ NextFree(pool) \in PacketId
    BY <1>3, <1>7 DEF StartSubscribe
  <2> QED
    BY <1>3, <1>4, <1>7, <2>1, BeginType DEF TypeOK, StartSubscribe, Table, ClientPackets, connVars
<1>8. ASSUME NEW o \in Ops, "unsubscribe" \in Kinds, StartUnsubscribe(o)
      PROVE  Typed'
  <2>1. Begin(o, "unsubscribe", "UNSUBSCRIBE", NextFree(pool)) /\ NextFree(pool) \in PacketId
    BY <1>3, <1>8 DEF StartUnsubscribe
  <2> QED
    BY <1>3, <1>4, <1>8, <2>1, BeginType DEF TypeOK, StartUnsubscribe, Table, ClientPackets, connVars
<1>9. ASSUME NEW o \in Ops, SendDone(o)
      PROVE  Typed'
  BY <1>9 DEF TypeOK, HasId, Active, SendDone, Finish, Outcomes, connVars, tables
<1>10. ASSUME NEW o \in Ops, SendFails(o) \/ CancelSend(o)
       PROVE  Typed'
  <2>1. Active(o) /\ LeaveExchange(o)
    BY <1>10 DEF SendFails, CancelSend, Active
  <2>2. HasId'
    BY <1>10 DEF TypeOK, HasId, Active, SendFails, CancelSend, Finish
  <2>3. UNCHANGED connVars /\ UNCHANGED <<kind, pid, fut, resolver, net>>
    BY <1>10 DEF SendFails, CancelSend
  <2>4. cancelled' \in [Ops -> BOOLEAN]
    BY <1>10 DEF TypeOK, SendFails, CancelSend
  <2>5. \/ Finish(o, "disconnected")
        \/ Finish(o, "cancelled")
    BY <1>10 DEF SendFails, CancelSend
  <2> QED
    BY <2>1, <2>2, <2>3, <2>4, <2>5, LeaveType, FinishType DEF TypeOK, connVars, Outcomes
<1>11. ASSUME NEW o \in Ops, Wake(o)
       PROVE  Typed'
  <2>1. Active(o) /\ LeaveExchange(o)
    BY <1>11 DEF Wake, Active
  <2>2. HasId'
    BY <1>11 DEF TypeOK, HasId, Active, Wake, Finish
  <2>3. fut[o] \in {"none", "ok", "rejected", "lost", "cancelled"}
    BY <1>11 DEF TypeOK, Wake
  <2>4. PICK r \in Outcomes : Finish(o, r)
    BY <1>11, <2>3 DEF Wake, Outcomes
  <2> QED
    BY <1>11, <2>1, <2>2, <2>4, LeaveType, FinishType DEF TypeOK, Wake, connVars
<1>12. ASSUME NEW o \in Ops, CancelAwait(o)
       PROVE  Typed'
  BY <1>12 DEF TypeOK, HasId, Active, CancelAwait, connVars, tables
<1>13. ASSUME NEW p \in net, UnknownId(p)
       PROVE  Typed'
  BY <1>13 DEF TypeOK, HasId, Active, UnknownId, Die, tables, callVars
<1>14. ASSUME NEW p \in net, NEW o \in Ops, Resolve(o, p),
              UNCHANGED <<kind, pc, pid, cancelled, outcome>>
       PROVE  /\ HasId'
              /\ fut' \in [Ops -> {"none", "pending", "ok", "rejected", "lost", "cancelled"}]
              /\ resolver' \in [Ops -> Ops \cup {NoOp}]
  BY <1>14, ResolveType DEF TypeOK, HasId, Active
<1>15. ASSUME NEW p \in net, HandlePuback(p)
       PROVE  Typed'
  <2>1. CASE inflight1[p.id] = NoOp
    BY <1>13, <1>15, <2>1 DEF HandlePuback
  <2>2. CASE inflight1[p.id] # NoOp
    <3>1. p.id \in PacketId /\ inflight1[p.id] \in Ops
      BY <2>2 DEF TypeOK, Packet, Table
    <3>2. Release(pool, p.id) \in Pool
      BY <3>1, ReleaseType DEF TypeOK
    <3> QED
      BY <1>14, <1>15, <2>2, <3>1, <3>2 DEF HandlePuback, TypeOK, Table, connVars
  <2> QED
    BY <2>1, <2>2
<1>16. ASSUME NEW p \in net, HandlePubcomp(p)
       PROVE  Typed'
  <2>1. CASE inflight2[p.id] = NoOp
    BY <1>13, <1>16, <2>1 DEF HandlePubcomp
  <2>2. CASE inflight2[p.id] # NoOp
    <3>1. p.id \in PacketId /\ inflight2[p.id] \in Ops
      BY <2>2 DEF TypeOK, Packet, Table
    <3>2. Release(pool, p.id) \in Pool
      BY <3>1, ReleaseType DEF TypeOK
    <3> QED
      BY <1>14, <1>16, <2>2, <3>1, <3>2 DEF HandlePubcomp, TypeOK, Table, connVars
  <2> QED
    BY <2>1, <2>2
<1>17. ASSUME NEW p \in net, HandlePubrec(p)
       PROVE  Typed'
  <2>1. p.id \in PacketId /\ p.op \in Ops
    BY DEF TypeOK, Packet
  <2>2. CASE PubrecUnexpected(p)
    BY <1>13, <2>2 DEF PubrecUnexpected
  <2>3. CASE PubrecRejected(p)
    <3>1. inflight2[p.id] \in Ops
      BY <2>1, <2>3 DEF PubrecRejected, AwaitsPubrec, TypeOK, Table
    <3>2. Release(pool, p.id) \in Pool
      BY <2>1, ReleaseType DEF TypeOK
    <3> QED
      BY <1>14, <2>1, <2>3, <3>1, <3>2 DEF PubrecRejected, TypeOK, Table, connVars
  <2>4. CASE PubrecAccepted(p)
    <3>1. Pkt("PUBREL", p.id, p.op, TRUE) \in Packet
      BY <2>1 DEF Pkt, Packet, ClientPackets
    <3> QED
      BY <2>1, <2>4, <3>1 DEF PubrecAccepted, TypeOK, HasId, Active, callVars
  <2> QED
    BY <1>17, <2>2, <2>3, <2>4 DEF HandlePubrec
<1>18. ASSUME NEW p \in net, NEW o \in Ops, ResolveOrFail(o, p)
       PROVE  Typed'
  BY <1>14, <1>18 DEF ResolveOrFail, Die, TypeOK, tables
<1>19. ASSUME NEW p \in net, HandleSuback(p) \/ HandleUnsuback(p)
       PROVE  Typed'
  <2>1. p.id \in PacketId
    BY DEF TypeOK, Packet
  <2> QED
    BY <1>13, <1>18, <1>19, <2>1 DEF HandleSuback, HandleUnsuback, TypeOK, Table
<1>20. CASE PubrelSent \/ ConnectionLost
  BY <1>20 DEF TypeOK, HasId, Active, PubrelSent, ConnectionLost, Die, tables, callVars
<1>21. CASE RunExits
  BY <1>21 DEF TypeOK, HasId, Active, RunExits, tables
<1>22. ASSUME NEW p \in net, BrokerAnswers(p)
       PROVE  Typed'
  <2>1. PICK ok \in BOOLEAN : net' = (net \ {p}) \cup {Pkt(Answer(p.type), p.id, p.op, ok)}
    BY <1>22 DEF BrokerAnswers
  <2>2. Answer(p.type) \in BrokerPackets
    BY <1>22 DEF BrokerAnswers, Answer, ClientPackets, BrokerPackets
  <2>3. Pkt(Answer(p.type), p.id, p.op, ok) \in Packet
    BY <2>2 DEF TypeOK, Pkt, Packet
  <2> QED
    BY <1>22, <2>1, <2>3 DEF BrokerAnswers, TypeOK, HasId, Active, connVars, tables, callVars
<1>23. CASE UNCHANGED vars
  BY <1>23 DEF vars, connVars, tables, callVars, TypeOK, HasId, Active
<1> QED
  BY <1>1, <1>2, <1>5, <1>6, <1>7, <1>8, <1>9, <1>10, <1>11, <1>12, <1>15, <1>16, <1>17,
     <1>19, <1>20, <1>21, <1>22, <1>23
     DEF Next, Start, CallStep, Cancel, ReadLoop

\* Every state of every behaviour is well typed, for every set of calls and every
\* MaxId: in particular the identifiers handed out stay in 1 .. MaxId when the
\* search of acquire() wraps, and no handler is reached with a table entry or a
\* packet outside its declared set.
THEOREM TypeCorrect == Spec => []TypeOK
<1>1. Typed => TypeOK
  BY DEF Typed
<1> QED
  BY <1>1, TypedInit, TypedStep, PTL DEF Spec

-----------------------------------------------------------------------------
(* Ownership of identifiers.                                               *)

\* Which calls stand in the tables.  A flight of publish() may outlive its call; an
\* entry of pending_subs or pending_unsubs is there exactly while its call runs.
Registration ==
  \A i \in PacketId, o \in Ops :
    /\ inflight1[i] = o => kind[o] = "qos1" /\ pc[o] # "idle"
    /\ inflight2[i] = o => kind[o] = "qos2" /\ pc[o] # "idle"
    /\ pendingSubs[i] = o <=> kind[o] = "subscribe" /\ Active(o) /\ pid[o] = i
    /\ pendingUnsubs[i] = o <=> kind[o] = "unsubscribe" /\ Active(o) /\ pid[o] = i

\* A step that leaves tables and calls' identity alone.
LEMMA RegistrationStable ==
  ASSUME Registration, UNCHANGED tables, UNCHANGED <<kind, pc, pid>>
  PROVE  Registration'
BY DEF Registration, Active, tables

\* An identifier that nobody holds has no entry.
LEMMA FreshId ==
  ASSUME Typed, IdOwnership, NEW o \in Ops, NEW k \in Kinds, MayAcquire(o, k)
  PROVE  /\ NextFree(pool) \in PacketId \ pool.inUse
         /\ inflight1[NextFree(pool)] = NoOp
         /\ inflight2[NextFree(pool)] = NoOp
         /\ pendingSubs[NextFree(pool)] = NoOp
         /\ pendingUnsubs[NextFree(pool)] = NoOp
         /\ Acquire(pool).inUse = pool.inUse \cup {NextFree(pool)}
         /\ Acquire(pool) \in Pool
<1>1. /\ NextFree(pool) \in PacketId \ pool.inUse
      /\ Acquire(pool).inUse = pool.inUse \cup {NextFree(pool)}
      /\ Acquire(pool) \in Pool
  BY NextFreeIsFree, AcquireType DEF MayAcquire, Typed, TypeOK
<1>2. \A t \in TableNames : Owner(t, NextFree(pool)) = NoOp
  BY <1>1 DEF IdOwnership
<1>3. /\ Owner("inflight1", NextFree(pool)) = NoOp
      /\ Owner("inflight2", NextFree(pool)) = NoOp
      /\ Owner("pendingSubs", NextFree(pool)) = NoOp
      /\ Owner("pendingUnsubs", NextFree(pool)) = NoOp
  BY <1>2 DEF TableNames
<1> QED
  BY <1>1, <1>3 DEF Owner

\* The same as IdOwnership with the four tables written out.
OwnedBy(i) ==
  /\ i \in pool.inUse <=> \/ inflight1[i] # NoOp \/ inflight2[i] # NoOp
                           \/ pendingSubs[i] # NoOp \/ pendingUnsubs[i] # NoOp
  /\ inflight1[i] # NoOp => /\ inflight2[i] = NoOp
                            /\ pendingSubs[i] = NoOp /\ pendingUnsubs[i] = NoOp
  /\ inflight2[i] # NoOp => pendingSubs[i] = NoOp /\ pendingUnsubs[i] = NoOp
  /\ pendingSubs[i] # NoOp => pendingUnsubs[i] = NoOp

\* The two forms of IdOwnership are equivalent.
LEMMA OwnedByEquiv == IdOwnership <=> \A i \in PacketId : OwnedBy(i)
<1>1. ASSUME NEW i \in PacketId, IdOwnership PROVE OwnedBy(i)
  BY <1>1 DEF OwnedBy, IdOwnership, TableNames, Owner
<1>2. ASSUME NEW i \in PacketId, OwnedBy(i)
      PROVE  /\ i \in pool.inUse <=> \E t \in TableNames : Owner(t, i) # NoOp
             /\ \A t, u \in TableNames :
                  Owner(t, i) # NoOp /\ Owner(u, i) # NoOp => t = u
  BY <1>2 DEF OwnedBy, TableNames, Owner
<1> QED
  BY <1>1, <1>2 DEF IdOwnership

\* The inductive invariant behind IdOwnership and LowestFree.
Core == Typed /\ Registration /\ IdOwnership /\ LowestFree

\* A new SessionState owns no identifier.
LEMMA CoreInit == Init => Core
<1> SUFFICES ASSUME Init PROVE Core
  OBVIOUS
<1>1. Registration
  BY OutboundAssumption DEF Init, Registration, EmptyTable, Active
<1>2. \A i \in PacketId : OwnedBy(i)
  BY DEF Init, OwnedBy, EmptyTable, EmptyPool
<1>3. LowestFree
  BY DEF Init, LowestFree, EmptyPool, FreeIds, PacketId
<1> QED
  BY <1>1, <1>2, <1>3, TypedInit, OwnedByEquiv DEF Core

\* Every step keeps Core: acquire() and release() always come with the table entry
\* of the same identifier.
LEMMA CoreStep == Core /\ [Next]_vars => Core'
<1> SUFFICES ASSUME Core, [Next]_vars PROVE Core'
  OBVIOUS
<1>1. Typed /\ Typed' /\ Registration /\ IdOwnership /\ Compact(pool)
  BY TypedStep DEF Core, LowestFree, Compact
<1>2. \A i \in PacketId : OwnedBy(i)
  BY <1>1, OwnedByEquiv
<1>3. ASSUME Registration', \A i \in PacketId : OwnedBy(i)', Compact(pool')
      PROVE  Core'
  <2>1. (IdOwnership <=> \A i \in PacketId : OwnedBy(i))'
    BY OwnedByEquiv, PTL
  <2> QED
    BY <1>1, <1>3, <2>1 DEF Core, LowestFree, Compact
<1> HIDE DEF Core
<1> USE <1>1, <1>2
<1>4. ASSUME Registration', UNCHANGED <<pool, inflight1, inflight2, pendingSubs, pendingUnsubs>>
      PROVE  Core'
  <2>1. \A i \in PacketId : OwnedBy(i)'
    BY <1>4 DEF OwnedBy
  <2> QED
    BY <1>3, <1>4, <2>1
<1>5. ASSUME NEW o \in Ops, NEW k \in Kinds,
             StartOnDead(o, k) \/ StartRefused(o, k) \/ StartExhausted(o, k)
      PROVE  Core'
  <2>1. Registration'
    BY <1>5 DEF StartOnDead, StartRefused, StartExhausted, Finish, Registration, Active,
                tables, Typed, TypeOK
  <2> QED
    BY <1>4, <1>5, <2>1 DEF StartOnDead, StartRefused, StartExhausted, tables
<1>6. ASSUME NEW o \in Ops, "qos0" \in Kinds, StartQoS0(o)
      PROVE  Core'
  <2>1. Registration'
    BY <1>6 DEF StartQoS0, Finish, Registration, Active, tables, Typed, TypeOK
  <2> QED
    BY <1>4, <1>6, <2>1 DEF StartQoS0, tables
<1>7. ASSUME NEW o \in Ops, "qos1" \in Kinds, StartQoS1(o)
      PROVE  Core'
  <2> DEFINE id == NextFree(pool)
  <2>1. MayAcquire(o, "qos1")
    BY <1>7 DEF StartQoS1
  <2>2. /\ id \in PacketId \ pool.inUse /\ Acquire(pool).inUse = pool.inUse \cup {id}
        /\ inflight1[id] = NoOp /\ inflight2[id] = NoOp
        /\ pendingSubs[id] = NoOp /\ pendingUnsubs[id] = NoOp
    BY <1>7, <2>1, FreshId
  <2>3. ~Exhausted(pool)
    BY <2>1 DEF MayAcquire
  <2>4. Registration'
    <3>1. CASE o \in Unencodable
      BY <1>7, <2>1, <2>2, <3>1 DEF StartQoS1, Begin, MayAcquire, Finish, Registration, Active,
                                 Typed, TypeOK, Table
    <3>2. CASE o \notin Unencodable
      BY <1>7, <2>1, <2>2, <3>2 DEF StartQoS1, Begin, MayAcquire, Finish, Registration, Active,
                                 Typed, TypeOK, Table
    <3> QED
      BY <3>1, <3>2
  <2>5. \A i \in PacketId : OwnedBy(i)'
    BY <1>7, <2>2, OutboundAssumption DEF StartQoS1, OwnedBy, Typed, TypeOK, Table
  <2>6. Compact(pool')
    BY <1>7, <2>3, AcquireCompact DEF StartQoS1, Typed, TypeOK
  <2> QED
    BY <2>4, <2>5, <2>6, <1>3
<1>8. ASSUME NEW o \in Ops, "qos2" \in Kinds, StartQoS2(o)
      PROVE  Core'
  <2> DEFINE id == NextFree(pool)
  <2>1. MayAcquire(o, "qos2")
    BY <1>8 DEF StartQoS2
  <2>2. /\ id \in PacketId \ pool.inUse /\ Acquire(pool).inUse = pool.inUse \cup {id}
        /\ inflight1[id] = NoOp /\ inflight2[id] = NoOp
        /\ pendingSubs[id] = NoOp /\ pendingUnsubs[id] = NoOp
    BY <1>8, <2>1, FreshId
  <2>3. ~Exhausted(pool)
    BY <2>1 DEF MayAcquire
  <2>4. Registration'
    <3>1. CASE o \in Unencodable
      BY <1>8, <2>1, <2>2, <3>1 DEF StartQoS2, Begin, MayAcquire, Finish, Registration, Active,
                                 Typed, TypeOK, Table
    <3>2. CASE o \notin Unencodable
      BY <1>8, <2>1, <2>2, <3>2 DEF StartQoS2, Begin, MayAcquire, Finish, Registration, Active,
                                 Typed, TypeOK, Table
    <3> QED
      BY <3>1, <3>2
  <2>5. \A i \in PacketId : OwnedBy(i)'
    BY <1>8, <2>2, OutboundAssumption DEF StartQoS2, OwnedBy, Typed, TypeOK, Table
  <2>6. Compact(pool')
    BY <1>8, <2>3, AcquireCompact DEF StartQoS2, Typed, TypeOK
  <2> QED
    BY <2>4, <2>5, <2>6, <1>3
<1>9. ASSUME NEW o \in Ops, "subscribe" \in Kinds, StartSubscribe(o)
      PROVE  Core'
  <2> DEFINE id == NextFree(pool)
  <2>1. MayAcquire(o, "subscribe")
    BY <1>9 DEF StartSubscribe
  <2>2. /\ id \in PacketId \ pool.inUse /\ Acquire(pool).inUse = pool.inUse \cup {id}
        /\ inflight1[id] = NoOp /\ inflight2[id] = NoOp
        /\ pendingSubs[id] = NoOp /\ pendingUnsubs[id] = NoOp
    BY <1>9, <2>1, FreshId
  <2>3. ~Exhausted(pool)
    BY <2>1 DEF MayAcquire
  <2>4. Registration'
    <3>1. CASE o \in Unencodable
      BY <1>9, <2>1, <2>2, <3>1 DEF StartSubscribe, Begin, MayAcquire, Finish, Registration, Active,
                                 Typed, TypeOK, Table
    <3>2. CASE o \notin Unencodable
      BY <1>9, <2>1, <2>2, <3>2 DEF StartSubscribe, Begin, MayAcquire, Finish, Registration, Active,
                                 Typed, TypeOK, Table
    <3> QED
      BY <3>1, <3>2
  <2>5. /\ Acquire(pool) \in Pool
        /\ Release(Acquire(pool), id).inUse = pool.inUse
        /\ Compact(Acquire(pool))
        /\ Compact(Release(Acquire(pool), id))
    <3>1. pool \in Pool
      BY DEF Typed, TypeOK
    <3>2. Acquire(pool) \in Pool
      BY <2>3, <3>1, AcquireType
    <3>3. Compact(Acquire(pool))
      BY <2>3, <3>1, AcquireCompact
    <3>4. /\ Release(Acquire(pool), id).inUse = pool.inUse
          /\ Compact(Release(Acquire(pool), id))
      <4>1. Release(Acquire(pool), id).inUse = (pool.inUse \cup {id}) \ {id}
        BY <2>2, <3>2, ReleaseType
      <4>2. Compact(Release(Acquire(pool), id))
        BY <2>2, <3>2, <3>3, ReleaseCompact
      <4> QED
        BY <2>2, <4>1, <4>2
    <3> QED
      BY <3>2, <3>3, <3>4
  <2>6. \A i \in PacketId : OwnedBy(i)'
    <3>1. CASE o \in Unencodable
      BY <1>9, <2>2, <2>5, <3>1 DEF StartSubscribe, OwnedBy, Typed, TypeOK, Table
    <3>2. CASE o \notin Unencodable
      BY <1>9, <2>2, <2>5, <3>2, OutboundAssumption DEF StartSubscribe, OwnedBy, Typed, TypeOK, Table
    <3> QED
      BY <3>1, <3>2
  <2>7. Compact(pool')
    BY <1>9, <2>5 DEF StartSubscribe
  <2> QED
    BY <2>4, <2>6, <2>7, <1>3
<1>10. ASSUME NEW o \in Ops, "unsubscribe" \in Kinds, StartUnsubscribe(o)
      PROVE  Core'
  <2> DEFINE id == NextFree(pool)
  <2>1. MayAcquire(o, "unsubscribe")
    BY <1>10 DEF StartUnsubscribe
  <2>2. /\ id \in PacketId \ pool.inUse /\ Acquire(pool).inUse = pool.inUse \cup {id}
        /\ inflight1[id] = NoOp /\ inflight2[id] = NoOp
        /\ pendingSubs[id] = NoOp /\ pendingUnsubs[id] = NoOp
    BY <1>10, <2>1, FreshId
  <2>3. ~Exhausted(pool)
    BY <2>1 DEF MayAcquire
  <2>4. Registration'
    <3>1. CASE o \in Unencodable
      BY <1>10, <2>1, <2>2, <3>1 DEF StartUnsubscribe, Begin, MayAcquire, Finish, Registration, Active,
                                 Typed, TypeOK, Table
    <3>2. CASE o \notin Unencodable
      BY <1>10, <2>1, <2>2, <3>2 DEF StartUnsubscribe, Begin, MayAcquire, Finish, Registration, Active,
                                 Typed, TypeOK, Table
    <3> QED
      BY <3>1, <3>2
  <2>5. /\ Acquire(pool) \in Pool
        /\ Release(Acquire(pool), id).inUse = pool.inUse
        /\ Compact(Acquire(pool))
        /\ Compact(Release(Acquire(pool), id))
    <3>1. pool \in Pool
      BY DEF Typed, TypeOK
    <3>2. Acquire(pool) \in Pool
      BY <2>3, <3>1, AcquireType
    <3>3. Compact(Acquire(pool))
      BY <2>3, <3>1, AcquireCompact
    <3>4. /\ Release(Acquire(pool), id).inUse = pool.inUse
          /\ Compact(Release(Acquire(pool), id))
      <4>1. Release(Acquire(pool), id).inUse = (pool.inUse \cup {id}) \ {id}
        BY <2>2, <3>2, ReleaseType
      <4>2. Compact(Release(Acquire(pool), id))
        BY <2>2, <3>2, <3>3, ReleaseCompact
      <4> QED
        BY <2>2, <4>1, <4>2
    <3> QED
      BY <3>2, <3>3, <3>4
  <2>6. \A i \in PacketId : OwnedBy(i)'
    <3>1. CASE o \in Unencodable
      BY <1>10, <2>2, <2>5, <3>1 DEF StartUnsubscribe, OwnedBy, Typed, TypeOK, Table
    <3>2. CASE o \notin Unencodable
      BY <1>10, <2>2, <2>5, <3>2, OutboundAssumption DEF StartUnsubscribe, OwnedBy, Typed, TypeOK, Table
    <3> QED
      BY <3>1, <3>2
  <2>7. Compact(pool')
    BY <1>10, <2>5 DEF StartUnsubscribe
  <2> QED
    BY <2>4, <2>6, <2>7, <1>3
<1>11. ASSUME NEW o \in Ops, SendDone(o)
       PROVE  Core'
  <2>1. Registration'
    BY <1>11 DEF SendDone, Finish, Registration, Active, tables, Typed, TypeOK
  <2> QED
    BY <1>4, <1>11, <2>1 DEF SendDone, tables
<1>12. ASSUME NEW o \in Ops, Active(o), LeaveExchange(o), UNCHANGED <<kind, pid>>,
              pc' = [pc EXCEPT ![o] = "finished"]
       PROVE  Core'
  <2>1. Registration'
    <3>1. CASE kind[o] \notin SubscribeKinds
      BY <1>12, <3>1 DEF LeaveExchange, Registration, Active, Typed, TypeOK, SubscribeKinds
    <3>2. CASE kind[o] \in SubscribeKinds
      <4>1. pid[o] \in PacketId
        BY <1>12, <3>2 DEF Typed, HasId
      <4>2. CASE kind[o] = "subscribe"
        BY <1>12, <4>1, <4>2, OutboundAssumption
           DEF LeaveExchange, Registration, Active, Typed, TypeOK, Table
      <4>3. CASE kind[o] = "unsubscribe"
        BY <1>12, <4>1, <4>3, OutboundAssumption
           DEF LeaveExchange, Registration, Active, Typed, TypeOK, Table
      <4> QED
        BY <3>2, <4>2, <4>3 DEF SubscribeKinds
    <3> QED
      BY <3>1, <3>2
  <2>2. CASE kind[o] \notin SubscribeKinds
    BY <1>4, <1>12, <2>1, <2>2 DEF LeaveExchange, SubscribeKinds
  <2>3. CASE kind[o] \in SubscribeKinds
    <3>1. pid[o] \in PacketId
      BY <1>12, <2>3 DEF Typed, HasId
    <3>2. /\ kind[o] = "subscribe" => pendingSubs[pid[o]] = o
          /\ kind[o] = "unsubscribe" => pendingUnsubs[pid[o]] = o
      BY <1>12, <3>1 DEF Registration
    <3>3. pool'.inUse = pool.inUse \ {pid[o]} /\ Compact(pool')
      BY <1>12, <2>3, <3>1, ReleaseType, ReleaseCompact DEF LeaveExchange, Typed, TypeOK
    <3>4. \A i \in PacketId : OwnedBy(i)'
      BY <1>12, <2>3, <3>1, <3>2, <3>3, OutboundAssumption
         DEF LeaveExchange, OwnedBy, Typed, TypeOK, Table, SubscribeKinds
    <3> QED
      BY <1>3, <2>1, <3>3, <3>4
  <2> QED
    BY <2>2, <2>3
<1>13. ASSUME NEW o \in Ops, SendFails(o) \/ CancelSend(o) \/ Wake(o)
       PROVE  Core'
  BY <1>12, <1>13 DEF SendFails, CancelSend, Wake, Finish, Active
<1>14. ASSUME UNCHANGED <<pool, tables, kind, pc, pid>>
       PROVE  Core'
  BY <1>4, <1>14, RegistrationStable DEF tables
<1>15. ASSUME NEW o \in Ops, CancelAwait(o)
       PROVE  Core'
  BY <1>14, <1>15 DEF CancelAwait
<1>16. ASSUME NEW p \in net, UnknownId(p)
       PROVE  Core'
  BY <1>14, <1>16 DEF UnknownId, callVars
<1>17. ASSUME NEW p \in net, HandlePuback(p)
       PROVE  Core'
  <2>1. CASE inflight1[p.id] = NoOp
    BY <1>16, <1>17, <2>1 DEF HandlePuback
  <2>2. CASE inflight1[p.id] # NoOp
    <3>1. p.id \in PacketId
      BY DEF Typed, TypeOK, Packet
    <3>2. Registration'
      BY <1>17, <2>2, <3>1, OutboundAssumption
         DEF HandlePuback, Registration, Active, Typed, TypeOK, Table
    <3>3. pool'.inUse = pool.inUse \ {p.id} /\ Compact(pool')
      BY <1>17, <2>2, <3>1, ReleaseType, ReleaseCompact DEF HandlePuback, Typed, TypeOK
    <3>4. \A i \in PacketId : OwnedBy(i)'
      BY <1>17, <2>2, <3>1, <3>3 DEF HandlePuback, OwnedBy, Typed, TypeOK, Table
    <3> QED
      BY <1>3, <3>2, <3>3, <3>4
  <2> QED
    BY <2>1, <2>2
<1>18. ASSUME NEW p \in net, inflight2[p.id] # NoOp,
              inflight2' = [inflight2 EXCEPT ![p.id] = NoOp], pool' = Release(pool, p.id),
              UNCHANGED <<inflight1, pendingSubs, pendingUnsubs, kind, pc, pid>>
       PROVE  Core'
  <2>1. p.id \in PacketId
    BY DEF Typed, TypeOK, Packet
  <2>2. Registration'
    BY <1>18, <2>1, OutboundAssumption DEF Registration, Active, Typed, TypeOK, Table
  <2>3. pool'.inUse = pool.inUse \ {p.id} /\ Compact(pool')
    BY <1>18, <2>1, ReleaseType, ReleaseCompact DEF Typed, TypeOK
  <2>4. \A i \in PacketId : OwnedBy(i)'
    BY <1>18, <2>1, <2>3 DEF OwnedBy, Typed, TypeOK, Table
  <2> QED
    BY <1>3, <2>2, <2>3, <2>4
<1>19. ASSUME NEW p \in net, HandlePubcomp(p)
       PROVE  Core'
  BY <1>16, <1>18, <1>19 DEF HandlePubcomp
<1>20. ASSUME NEW p \in net, HandlePubrec(p)
       PROVE  Core'
  <2>1. CASE PubrecUnexpected(p)
    BY <1>16, <2>1 DEF PubrecUnexpected
  <2>2. CASE PubrecRejected(p)
    BY <1>18, <2>2 DEF PubrecRejected, AwaitsPubrec
  <2>3. CASE PubrecAccepted(p)
    <3>1. Registration'
      BY <2>3 DEF PubrecAccepted, Registration, Active, callVars
    <3> QED
      BY <1>4, <2>3, <3>1 DEF PubrecAccepted
  <2> QED
    BY <1>20, <2>1, <2>2, <2>3 DEF HandlePubrec
<1>21. ASSUME NEW p \in net, HandleSuback(p) \/ HandleUnsuback(p)
       PROVE  Core'
  BY <1>14, <1>16, <1>21 DEF HandleSuback, HandleUnsuback, ResolveOrFail
<1>22. CASE PubrelSent \/ ConnectionLost \/ RunExits \/ UNCHANGED vars
  BY <1>14, <1>22 DEF PubrelSent, ConnectionLost, RunExits, vars, tables, callVars
<1>23. ASSUME NEW p \in net, BrokerAnswers(p)
       PROVE  Core'
  BY <1>14, <1>23 DEF BrokerAnswers, callVars
<1> QED
  BY <1>5, <1>6, <1>7, <1>8, <1>9, <1>10, <1>11, <1>13, <1>15, <1>17, <1>19, <1>20, <1>21,
     <1>22, <1>23
     DEF Next, Start, CallStep, Cancel, ReadLoop

\* On every connection, whatever the application cancels and whichever writes fail,
\* an identifier is allocated exactly while one exchange owns it.
THEOREM IdOwnershipHolds == Spec => []IdOwnership
<1>1. Core => IdOwnership
  BY DEF Core
<1> QED
  BY <1>1, CoreInit, CoreStep, PTL DEF Spec

\* The allocator of every connection hands out the lowest free identifier.
THEOREM LowestFreeHolds == Spec => []LowestFree
<1>1. Core => LowestFree
  BY DEF Core
<1> QED
  BY <1>1, CoreInit, CoreStep, PTL DEF Spec

-----------------------------------------------------------------------------
(* Packets on the wire and the answers callers get, when the application   *)
(* cancels no subscribe() or unsubscribe() and none of their writes fails  *)
(* before the read loop notices.                                           *)

Fresh == \A o \in Ops : pc[o] = "idle" => outcome[o] = "none"

\* The inductive invariant behind the theorems about packets on the wire.
Wire == ExchangeOnWire /\ OwnAnswer /\ NoLocalDeath /\ Fresh

\* A packet on the wire carries an identifier that is allocated.
LEMMA WireIds ==
  ASSUME Core, ExchangeOnWire, conn = "up", NEW p \in net
  PROVE  p \in Packet /\ Expected(p) /\ p.id \in pool.inUse /\ p.op # NoOp
<1>1. p \in Packet /\ Expected(p) /\ p.op # NoOp /\ p.id \in PacketId
  BY OutboundAssumption DEF Core, Typed, TypeOK, ExchangeOnWire, Packet
<1>2. \/ inflight1[p.id] = p.op \/ inflight2[p.id] = p.op
      \/ pendingSubs[p.id] = p.op \/ pendingUnsubs[p.id] = p.op
  BY <1>1 DEF Expected, Packet, ClientPackets, BrokerPackets
<1>3. OwnedBy(p.id)
  BY <1>1, OwnedByEquiv DEF Core
<1> QED
  BY <1>1, <1>2, <1>3 DEF OwnedBy

\* A packet stays expected while its entry stays and, for SUBSCRIBE and UNSUBSCRIBE,
\* the future of its call stays pending.
LEMMA ExpectedKept ==
  ASSUME NEW p \in Packet, Expected(p),
         inflight1'[p.id] = inflight1[p.id], inflight2'[p.id] = inflight2[p.id],
         q2state'[p.id] = q2state[p.id],
         pendingSubs'[p.id] = pendingSubs[p.id], pendingUnsubs'[p.id] = pendingUnsubs[p.id],
         \/ fut'[p.op] = fut[p.op]
         \/ fut'[p.op] = "pending"
         \/ pendingSubs[p.id] # p.op /\ pendingUnsubs[p.id] # p.op
  PROVE  Expected(p)'
<1>1. CASE p.type \in {"PUBLISH1", "PUBACK"}
  BY <1>1 DEF Expected
<1>2. CASE p.type \in {"PUBLISH2", "PUBREC"}
  BY <1>2 DEF Expected
<1>3. CASE p.type \in {"PUBREL", "PUBCOMP"}
  BY <1>3 DEF Expected
<1>4. CASE p.type \in {"SUBSCRIBE", "SUBACK"}
  BY <1>4 DEF Expected
<1>5. CASE p.type \in {"UNSUBSCRIBE", "UNSUBACK"}
  BY <1>5 DEF Expected
<1> QED
  BY <1>1, <1>2, <1>3, <1>4, <1>5 DEF Packet, ClientPackets, BrokerPackets

\* A call that registers under the identifier it acquired and writes its packet.
LEMMA WireBegin ==
  ASSUME Core, ExchangeOnWire, NEW o \in Ops, NEW k \in Kinds, NEW type \in ClientPackets,
         MayAcquire(o, k), Begin(o, k, type, NextFree(pool)), UNCHANGED conn,
         \A i \in PacketId \ {NextFree(pool)} :
           /\ inflight1'[i] = inflight1[i] /\ inflight2'[i] = inflight2[i]
           /\ q2state'[i] = q2state[i]
           /\ pendingSubs'[i] = pendingSubs[i] /\ pendingUnsubs'[i] = pendingUnsubs[i],
         \A p \in Packet : /\ o \notin Unencodable
                           /\ p.type = type /\ p.id = NextFree(pool) /\ p.op = o
                           => Expected(p)'
  PROVE  ExchangeOnWire'
<1> SUFFICES ASSUME conn = "up" PROVE ExchangeOnWire'
  BY DEF ExchangeOnWire
<1>1. NextFree(pool) \in PacketId \ pool.inUse
  BY FreshId DEF Core
<1>2. fut' = [fut EXCEPT ![o] = "pending"]
  BY DEF Begin
<1>3. ASSUME NEW p \in net PROVE p.id # NextFree(pool) /\ Expected(p)'
  <2>1. p \in Packet /\ Expected(p) /\ p.id # NextFree(pool)
    BY <1>1, <1>3, WireIds
  <2>2. p.id \in PacketId /\ p.op \in Ops
    BY <2>1 DEF Packet
  <2>3. fut'[p.op] = fut[p.op] \/ fut'[p.op] = "pending"
    BY <1>2, <2>2 DEF Core, Typed, TypeOK
  <2> QED
    BY <2>1, <2>2, <2>3, ExpectedKept
<1>4. PICK new : new = Pkt(type, NextFree(pool), o, TRUE)
  OBVIOUS
<1>5. new \in Packet /\ new.id = NextFree(pool) /\ new.type = type /\ new.op = o
  BY <1>1, <1>4 DEF Pkt, Packet
<1>6. CASE o \in Unencodable
  BY <1>3, <1>6 DEF Begin, ExchangeOnWire
<1>7. CASE o \notin Unencodable
  <2>1. net' = net \cup {new} /\ Expected(new)'
    BY <1>4, <1>5, <1>7 DEF Begin
  <2> QED
    BY <1>3, <1>5, <2>1 DEF ExchangeOnWire
<1> QED
  BY <1>6, <1>7

\* Handling one packet disturbs no other: it touches only the entries of its own
\* identifier and the future of its own call.
LEMMA WireOthers ==
  ASSUME Core, ExchangeOnWire, conn = "up", NEW p \in net, NEW q \in net \ {p},
         \A i \in PacketId \ {p.id} :
           /\ inflight1'[i] = inflight1[i] /\ inflight2'[i] = inflight2[i]
           /\ q2state'[i] = q2state[i]
           /\ pendingSubs'[i] = pendingSubs[i] /\ pendingUnsubs'[i] = pendingUnsubs[i],
         \A x \in Ops \ {p.op} : fut'[x] = fut[x]
  PROVE  q.id # p.id /\ Expected(q)'
<1>1. /\ p \in Packet /\ Expected(p) /\ p.id \in PacketId /\ p.op \in Ops
      /\ q \in Packet /\ Expected(q) /\ q.id \in PacketId /\ q.op \in Ops
  BY WireIds DEF Packet
<1>2. q.id # p.id
  BY DEF ExchangeOnWire
<1>3. \/ inflight1[p.id] = p.op \/ inflight2[p.id] = p.op
      \/ pendingSubs[p.id] = p.op \/ pendingUnsubs[p.id] = p.op
  BY <1>1 DEF Expected, Packet, ClientPackets, BrokerPackets
<1>4. pendingSubs[q.id] # p.op /\ pendingUnsubs[q.id] # p.op
  BY <1>1, <1>2, <1>3 DEF Core, Registration
<1>5. \/ fut'[q.op] = fut[q.op]
      \/ pendingSubs[q.id] # q.op /\ pendingUnsubs[q.id] # q.op
  BY <1>1, <1>4
<1> QED
  BY <1>1, <1>2, <1>5, ExpectedKept

\* Nothing is on the wire of a new connection.
LEMMA WireInit == Init => Wire
BY DEF Init, Wire, ExchangeOnWire, OwnAnswer, NoLocalDeath, Fresh

\* Every step keeps Wire when no subscribe() or unsubscribe() is interrupted.
LEMMA WireStep ==
  ASSUME Interruptible \cap SubscribeKinds = {}
  PROVE  Core /\ Wire /\ [Next]_vars => Wire'
<1> SUFFICES ASSUME Core, Wire, [Next]_vars PROVE Wire'
  OBVIOUS
<1>1. Typed /\ Typed' /\ Registration /\ IdOwnership
  BY TypedStep DEF Core
<1>2. ExchangeOnWire /\ OwnAnswer /\ NoLocalDeath /\ Fresh
  BY DEF Wire
<1> USE <1>1, <1>2 DEF Wire
<1>3. ASSUME NEW o \in Ops, NEW k \in Kinds,
             StartOnDead(o, k) \/ StartRefused(o, k) \/ StartExhausted(o, k)
      PROVE  Wire'
  <2>1. UNCHANGED <<conn, net, inflight1, inflight2, q2state, pendingSubs, pendingUnsubs, fut>>
    BY <1>3 DEF StartOnDead, StartRefused, StartExhausted, connVars, tables
  <2>2. ExchangeOnWire'
    BY <2>1 DEF ExchangeOnWire, Expected
  <2>3. OwnAnswer' /\ NoLocalDeath' /\ Fresh'
    BY <1>3 DEF StartOnDead, StartRefused, StartExhausted, Finish, OwnAnswer, NoLocalDeath,
                Fresh, connVars, Typed, TypeOK
  <2> QED
    BY <2>2, <2>3
<1>4. ASSUME NEW o \in Ops, "qos0" \in Kinds, StartQoS0(o)
      PROVE  Wire'
  <2>1. UNCHANGED <<conn, net, inflight1, inflight2, q2state, pendingSubs, pendingUnsubs, fut>>
    BY <1>4 DEF StartQoS0, connVars, tables
  <2>2. ExchangeOnWire'
    BY <2>1 DEF ExchangeOnWire, Expected
  <2>3. OwnAnswer' /\ NoLocalDeath' /\ Fresh'
    BY <1>4 DEF StartQoS0, Finish, OwnAnswer, NoLocalDeath, Fresh, connVars, Typed, TypeOK
  <2> QED
    BY <2>2, <2>3
<1>5. ASSUME NEW o \in Ops, NEW k \in Kinds, NEW type \in ClientPackets,
             MayAcquire(o, k), Begin(o, k, type, NextFree(pool)),
             UNCHANGED connVars, UNCHANGED <<cancelled, resolver>>
      PROVE  OwnAnswer' /\ NoLocalDeath' /\ Fresh'
  <2>1. outcome[o] = "none"
    BY <1>5 DEF MayAcquire, Fresh
  <2>2. /\ outcome'[o] \in {"none", "unencodable"} /\ pc'[o] # "idle"
        /\ \A x \in Ops \ {o} : outcome'[x] = outcome[x] /\ pc'[x] = pc[x]
    <3>1. CASE o \in Unencodable
      BY <1>5, <3>1 DEF Begin, Finish, Typed, TypeOK
    <3>2. CASE o \notin Unencodable
      BY <1>5, <2>1, <3>2 DEF Begin, Typed, TypeOK
    <3> QED
      BY <3>1, <3>2
  <2>3. /\ fut'[o] = "pending"
        /\ \A x \in Ops \ {o} : fut'[x] = fut[x] /\ kind'[x] = kind[x]
    BY <1>5 DEF Begin, Typed, TypeOK
  <2> QED
    BY <1>5, <2>2, <2>3 DEF OwnAnswer, NoLocalDeath, Fresh, connVars, Typed, TypeOK
<1>6. ASSUME NEW o \in Ops, "qos1" \in Kinds, StartQoS1(o)
      PROVE  Wire'
  <2>1. /\ MayAcquire(o, "qos1") /\ Begin(o, "qos1", "PUBLISH1", NextFree(pool))
        /\ "PUBLISH1" \in ClientPackets /\ UNCHANGED connVars
    BY <1>6 DEF StartQoS1, ClientPackets
  <2>2. OwnAnswer' /\ NoLocalDeath' /\ Fresh'
    BY <1>5, <1>6, <2>1 DEF StartQoS1
  <2>3. NextFree(pool) \in PacketId /\ fut'[o] = "pending"
    BY <2>1, FreshId DEF Begin, Typed, TypeOK
  <2>4. \A i \in PacketId \ {NextFree(pool)} :
          /\ inflight1'[i] = inflight1[i] /\ inflight2'[i] = inflight2[i]
          /\ q2state'[i] = q2state[i]
          /\ pendingSubs'[i] = pendingSubs[i] /\ pendingUnsubs'[i] = pendingUnsubs[i]
    BY <1>6, <2>3 DEF StartQoS1, Typed, TypeOK, Table
  <2>5. ASSUME NEW p \in Packet, o \notin Unencodable,
               p.type = "PUBLISH1", p.id = NextFree(pool), p.op = o
        PROVE  Expected(p)'
    BY <1>6, <2>3, <2>5 DEF StartQoS1, Expected, Typed, TypeOK, Table
  <2>6. ExchangeOnWire'
    <3>1. UNCHANGED conn
      BY <2>1 DEF connVars
    <3>2. \A p \in Packet : /\ o \notin Unencodable
                            /\ p.type = "PUBLISH1" /\ p.id = NextFree(pool) /\ p.op = o
                            => Expected(p)'
      BY <2>5
    <3> QED
      BY <1>6, <2>1, <2>4, <3>1, <3>2, WireBegin
  <2> QED
    BY <2>2, <2>6
<1>7. ASSUME NEW o \in Ops, "qos2" \in Kinds, StartQoS2(o)
      PROVE  Wire'
  <2>1. /\ MayAcquire(o, "qos2") /\ Begin(o, "qos2", "PUBLISH2", NextFree(pool))
        /\ "PUBLISH2" \in ClientPackets /\ UNCHANGED connVars
    BY <1>7 DEF StartQoS2, ClientPackets
  <2>2. OwnAnswer' /\ NoLocalDeath' /\ Fresh'
    BY <1>5, <1>7, <2>1 DEF StartQoS2
  <2>3. NextFree(pool) \in PacketId /\ fut'[o] = "pending"
    BY <2>1, FreshId DEF Begin, Typed, TypeOK
  <2>4. \A i \in PacketId \ {NextFree(pool)} :
          /\ inflight1'[i] = inflight1[i] /\ inflight2'[i] = inflight2[i]
          /\ q2state'[i] = q2state[i]
          /\ pendingSubs'[i] = pendingSubs[i] /\ pendingUnsubs'[i] = pendingUnsubs[i]
    BY <1>7, <2>3 DEF StartQoS2, Typed, TypeOK, Table
  <2>5. ASSUME NEW p \in Packet, o \notin Unencodable,
               p.type = "PUBLISH2", p.id = NextFree(pool), p.op = o
        PROVE  Expected(p)'
    BY <1>7, <2>3, <2>5 DEF StartQoS2, Expected, Typed, TypeOK, Table
  <2>6. ExchangeOnWire'
    <3>1. UNCHANGED conn
      BY <2>1 DEF connVars
    <3>2. \A p \in Packet : /\ o \notin Unencodable
                            /\ p.type = "PUBLISH2" /\ p.id = NextFree(pool) /\ p.op = o
                            => Expected(p)'
      BY <2>5
    <3> QED
      BY <1>7, <2>1, <2>4, <3>1, <3>2, WireBegin
  <2> QED
    BY <2>2, <2>6
<1>8. ASSUME NEW o \in Ops, "subscribe" \in Kinds, StartSubscribe(o)
      PROVE  Wire'
  <2>1. /\ MayAcquire(o, "subscribe") /\ Begin(o, "subscribe", "SUBSCRIBE", NextFree(pool))
        /\ "SUBSCRIBE" \in ClientPackets /\ UNCHANGED connVars
    BY <1>8 DEF StartSubscribe, ClientPackets
  <2>2. OwnAnswer' /\ NoLocalDeath' /\ Fresh'
    BY <1>5, <1>8, <2>1 DEF StartSubscribe
  <2>3. NextFree(pool) \in PacketId /\ fut'[o] = "pending"
    BY <2>1, FreshId DEF Begin, Typed, TypeOK
  <2>4. \A i \in PacketId \ {NextFree(pool)} :
          /\ inflight1'[i] = inflight1[i] /\ inflight2'[i] = inflight2[i]
          /\ q2state'[i] = q2state[i]
          /\ pendingSubs'[i] = pendingSubs[i] /\ pendingUnsubs'[i] = pendingUnsubs[i]
    BY <1>8, <2>3 DEF StartSubscribe, Typed, TypeOK, Table
  <2>5. ASSUME NEW p \in Packet, o \notin Unencodable,
               p.type = "SUBSCRIBE", p.id = NextFree(pool), p.op = o
        PROVE  Expected(p)'
    BY <1>8, <2>3, <2>5 DEF StartSubscribe, Expected, Typed, TypeOK, Table
  <2>6. ExchangeOnWire'
    <3>1. UNCHANGED conn
      BY <2>1 DEF connVars
    <3>2. \A p \in Packet : /\ o \notin Unencodable
                            /\ p.type = "SUBSCRIBE" /\ p.id = NextFree(pool) /\ p.op = o
                            => Expected(p)'
      BY <2>5
    <3> QED
      BY <1>8, <2>1, <2>4, <3>1, <3>2, WireBegin
  <2> QED
    BY <2>2, <2>6
<1>9. ASSUME NEW o \in Ops, "unsubscribe" \in Kinds, StartUnsubscribe(o)
      PROVE  Wire'
  <2>1. /\ MayAcquire(o, "unsubscribe") /\ Begin(o, "unsubscribe", "UNSUBSCRIBE", NextFree(pool))
        /\ "UNSUBSCRIBE" \in ClientPackets /\ UNCHANGED connVars
    BY <1>9 DEF StartUnsubscribe, ClientPackets
  <2>2. OwnAnswer' /\ NoLocalDeath' /\ Fresh'
    BY <1>5, <1>9, <2>1 DEF StartUnsubscribe
  <2>3. NextFree(pool) \in PacketId /\ fut'[o] = "pending"
    BY <2>1, FreshId DEF Begin, Typed, TypeOK
  <2>4. \A i \in PacketId \ {NextFree(pool)} :
          /\ inflight1'[i] = inflight1[i] /\ inflight2'[i] = inflight2[i]
          /\ q2state'[i] = q2state[i]
          /\ pendingSubs'[i] = pendingSubs[i] /\ pendingUnsubs'[i] = pendingUnsubs[i]
    BY <1>9, <2>3 DEF StartUnsubscribe, Typed, TypeOK, Table
  <2>5. ASSUME NEW p \in Packet, o \notin Unencodable,
               p.type = "UNSUBSCRIBE", p.id = NextFree(pool), p.op = o
        PROVE  Expected(p)'
    BY <1>9, <2>3, <2>5 DEF StartUnsubscribe, Expected, Typed, TypeOK, Table
  <2>6. ExchangeOnWire'
    <3>1. UNCHANGED conn
      BY <2>1 DEF connVars
    <3>2. \A p \in Packet : /\ o \notin Unencodable
                            /\ p.type = "UNSUBSCRIBE" /\ p.id = NextFree(pool) /\ p.op = o
                            => Expected(p)'
      BY <2>5
    <3> QED
      BY <1>9, <2>1, <2>4, <3>1, <3>2, WireBegin
  <2> QED
    BY <2>2, <2>6
<1>10. ASSUME NEW o \in Ops, SendDone(o)
       PROVE  Wire'
  <2>1. UNCHANGED <<conn, net, inflight1, inflight2, q2state, pendingSubs, pendingUnsubs, fut>>
    BY <1>10 DEF SendDone, connVars, tables
  <2>2. ExchangeOnWire'
    BY <2>1 DEF ExchangeOnWire, Expected
  <2>3. OwnAnswer' /\ NoLocalDeath' /\ Fresh'
    BY <1>10 DEF SendDone, Finish, OwnAnswer, NoLocalDeath, Fresh, connVars, Typed, TypeOK
  <2> QED
    BY <2>2, <2>3
<1>11. ASSUME NEW o \in Ops, SendFails(o) \/ CancelSend(o)
       PROVE  Wire'
  <2>1. /\ UNCHANGED <<conn, net, fut>> /\ LeaveExchange(o)
        /\ conn # "up" \/ kind[o] \notin SubscribeKinds
    BY <1>11 DEF SendFails, CancelSend, connVars
  <2>2. ExchangeOnWire'
    <3>1. CASE conn # "up"
      BY <2>1, <3>1 DEF ExchangeOnWire
    <3>2. CASE kind[o] \notin SubscribeKinds
      <4>1. UNCHANGED <<inflight1, inflight2, q2state, pendingSubs, pendingUnsubs>>
        BY <2>1, <3>2 DEF LeaveExchange, SubscribeKinds
      <4> QED
        BY <2>1, <4>1 DEF ExchangeOnWire, Expected
    <3> QED
      BY <2>1, <3>1, <3>2
  <2>3. OwnAnswer' /\ NoLocalDeath' /\ Fresh'
    BY <1>11 DEF SendFails, CancelSend, Finish, OwnAnswer, NoLocalDeath, Fresh, connVars,
                 Typed, TypeOK
  <2> QED
    BY <2>2, <2>3
<1>12. ASSUME NEW o \in Ops, Wake(o)
       PROVE  Wire'
  <2>1. UNCHANGED <<conn, net, fut>> /\ LeaveExchange(o) /\ fut[o] # "pending" /\ Active(o)
    BY <1>12 DEF Wake, connVars, Active
  <2>2. ASSUME conn = "up", NEW p \in net PROVE Expected(p)'
    <3>1. p \in Packet /\ Expected(p) /\ p.id \in PacketId /\ p.op \in Ops
      BY <2>2, WireIds DEF Packet
    <3>2. CASE p.type \in {"SUBSCRIBE", "SUBACK"}
      <4>1. pendingSubs[p.id] = p.op /\ fut[p.op] = "pending" /\ kind[p.op] = "subscribe"
            /\ pid[p.op] = p.id /\ p.op # o
        <5>1. pendingSubs[p.id] = p.op /\ fut[p.op] = "pending"
          BY <3>1, <3>2 DEF Expected
        <5> QED
          BY <2>1, <3>1, <5>1 DEF Registration
      <4>2. kind[o] = "subscribe" => pid[o] \in PacketId /\ pendingSubs[pid[o]] = o
        BY <2>1 DEF Registration, Typed, HasId, SubscribeKinds
      <4>3. pendingSubs'[p.id] = p.op
        <5>1. CASE kind[o] = "subscribe"
          <6>1. pid[o] # p.id /\ pendingSubs' = [pendingSubs EXCEPT ![pid[o]] = NoOp]
            BY <2>1, <4>1, <4>2, <5>1 DEF LeaveExchange
          <6> QED
            BY <3>1, <4>1, <6>1 DEF Typed, TypeOK, Table
        <5>2. CASE kind[o] # "subscribe"
          BY <2>1, <4>1, <5>2 DEF LeaveExchange
        <5> QED
          BY <5>1, <5>2
      <4> QED
        BY <2>1, <3>2, <4>1, <4>3 DEF Expected
    <3>3. CASE p.type \in {"UNSUBSCRIBE", "UNSUBACK"}
      <4>1. pendingUnsubs[p.id] = p.op /\ fut[p.op] = "pending" /\ kind[p.op] = "unsubscribe"
            /\ pid[p.op] = p.id /\ p.op # o
        <5>1. pendingUnsubs[p.id] = p.op /\ fut[p.op] = "pending"
          BY <3>1, <3>3 DEF Expected
        <5> QED
          BY <2>1, <3>1, <5>1 DEF Registration
      <4>2. kind[o] = "unsubscribe" => pid[o] \in PacketId /\ pendingUnsubs[pid[o]] = o
        BY <2>1 DEF Registration, Typed, HasId, SubscribeKinds
      <4>3. pendingUnsubs'[p.id] = p.op
        <5>1. CASE kind[o] = "unsubscribe"
          <6>1. pid[o] # p.id /\ pendingUnsubs' = [pendingUnsubs EXCEPT ![pid[o]] = NoOp]
            BY <2>1, <4>1, <4>2, <5>1 DEF LeaveExchange
          <6> QED
            BY <3>1, <4>1, <6>1 DEF Typed, TypeOK, Table
        <5>2. CASE kind[o] # "unsubscribe"
          BY <2>1, <4>1, <5>2 DEF LeaveExchange
        <5> QED
          BY <5>1, <5>2
      <4> QED
        BY <2>1, <3>3, <4>1, <4>3 DEF Expected
    <3>4. CASE p.type \in {"PUBLISH1", "PUBACK", "PUBLISH2", "PUBREC", "PUBREL", "PUBCOMP"}
      <4>1. UNCHANGED <<inflight1, inflight2, q2state>>
        BY <2>1 DEF LeaveExchange
      <4> QED
        BY <3>1, <3>4, <4>1 DEF Expected
    <3> QED
      BY <3>1, <3>2, <3>3, <3>4 DEF Packet, ClientPackets, BrokerPackets
  <2>3. ExchangeOnWire'
    BY <2>1, <2>2 DEF ExchangeOnWire
  <2>4. OwnAnswer' /\ NoLocalDeath' /\ Fresh'
    BY <1>12 DEF Wake, Finish, OwnAnswer, NoLocalDeath, Fresh, connVars, Typed, TypeOK
  <2> QED
    BY <2>3, <2>4
<1>13. ASSUME NEW o \in Ops, CancelAwait(o)
       PROVE  Wire'
  <2>1. /\ UNCHANGED <<conn, net, inflight1, inflight2, q2state, pendingSubs, pendingUnsubs>>
        /\ kind[o] \notin SubscribeKinds /\ \A x \in Ops \ {o} : fut'[x] = fut[x]
    BY <1>13 DEF CancelAwait, connVars, tables, Typed, TypeOK
  <2>2. ASSUME conn = "up", NEW p \in net PROVE Expected(p)'
    <3>1. p \in Packet /\ Expected(p) /\ p.id \in PacketId /\ p.op \in Ops
      BY <2>2, WireIds DEF Packet
    <3>2. pendingSubs[p.id] # o /\ pendingUnsubs[p.id] # o
      BY <2>1, <3>1 DEF Registration, SubscribeKinds
    <3> QED
      BY <2>1, <3>1, <3>2, ExpectedKept
  <2>3. ExchangeOnWire'
    BY <2>1, <2>2 DEF ExchangeOnWire
  <2>4. OwnAnswer' /\ NoLocalDeath' /\ Fresh'
    BY <1>13 DEF CancelAwait, OwnAnswer, NoLocalDeath, Fresh, connVars, Typed, TypeOK
  <2> QED
    BY <2>3, <2>4
<1>14. CASE PubrelSent
  BY <1>14 DEF PubrelSent, ExchangeOnWire, Expected, OwnAnswer, NoLocalDeath, Fresh, tables,
               callVars
<1>15. CASE ConnectionLost
  BY <1>15 DEF ConnectionLost, Die, ExchangeOnWire, OwnAnswer, NoLocalDeath, Fresh, callVars
<1>16. CASE RunExits
  BY <1>16 DEF RunExits, ExchangeOnWire, OwnAnswer, NoLocalDeath, Fresh, Typed, TypeOK
<1>17. ASSUME NEW p \in net, conn = "up"
       PROVE  p \in Packet /\ Expected(p) /\ p.op # NoOp
  BY <1>17, WireIds
<1>18. ASSUME NEW p \in net, conn = "up", p \in Packet, Resolve(p.op, p),
              net' = net \ {p}, UNCHANGED connVars, UNCHANGED <<kind, pc, outcome>>,
              \A i \in PacketId \ {p.id} :
                /\ inflight1'[i] = inflight1[i] /\ inflight2'[i] = inflight2[i]
                /\ q2state'[i] = q2state[i]
                /\ pendingSubs'[i] = pendingSubs[i] /\ pendingUnsubs'[i] = pendingUnsubs[i]
       PROVE  Wire'
  <2>1. p.op \in Ops
    BY <1>18 DEF Packet
  <2>2. /\ \A x \in Ops \ {p.op} : fut'[x] = fut[x] /\ resolver'[x] = resolver[x]
        /\ fut'[p.op] # fut[p.op] => resolver'[p.op] = p.op
        /\ fut'[p.op] = fut[p.op] => resolver'[p.op] = resolver[p.op]
    BY <1>18, <2>1 DEF Resolve, Typed, TypeOK
  <2>3. ExchangeOnWire'
    BY <1>18, <2>2, WireOthers DEF ExchangeOnWire
  <2>4. OwnAnswer' /\ NoLocalDeath' /\ Fresh'
    BY <1>18, <2>1, <2>2 DEF OwnAnswer, NoLocalDeath, Fresh, connVars
  <2> QED
    BY <2>3, <2>4
<1>19. ASSUME NEW p \in net, HandlePuback(p)
       PROVE  Wire'
  <2>1. /\ conn = "up" /\ p \in Packet /\ p.id \in PacketId /\ p.op \in Ops
        /\ inflight1[p.id] = p.op /\ p.op # NoOp
    BY <1>17, <1>19 DEF HandlePuback, Receives, Expected, Packet
  <2>2. /\ Resolve(p.op, p) /\ inflight1' = [inflight1 EXCEPT ![p.id] = NoOp]
        /\ net' = net \ {p} /\ UNCHANGED connVars /\ UNCHANGED <<kind, pc, outcome>>
        /\ UNCHANGED <<inflight2, q2state, pendingSubs, pendingUnsubs>>
    BY <1>19, <2>1 DEF HandlePuback
  <2> QED
    BY <1>18, <2>1, <2>2 DEF Typed, TypeOK, Table
<1>20. ASSUME NEW p \in net, HandlePubcomp(p)
       PROVE  Wire'
  <2>1. /\ conn = "up" /\ p \in Packet /\ p.id \in PacketId /\ p.op \in Ops
        /\ inflight2[p.id] = p.op /\ p.op # NoOp
    BY <1>17, <1>20 DEF HandlePubcomp, Receives, Expected, Packet
  <2>2. /\ Resolve(p.op, p) /\ inflight2' = [inflight2 EXCEPT ![p.id] = NoOp]
        /\ net' = net \ {p} /\ UNCHANGED connVars /\ UNCHANGED <<kind, pc, outcome>>
        /\ UNCHANGED <<inflight1, q2state, pendingSubs, pendingUnsubs>>
    BY <1>20, <2>1 DEF HandlePubcomp
  <2> QED
    BY <1>18, <2>1, <2>2 DEF Typed, TypeOK, Table
<1>21. ASSUME NEW p \in net, HandlePubrec(p)
       PROVE  Wire'
  <2>1. /\ conn = "up" /\ p \in Packet /\ p.id \in PacketId /\ p.op \in Ops
        /\ inflight2[p.id] = p.op /\ p.op # NoOp /\ q2state[p.id] = "pending_pubrec"
    BY <1>17, <1>21 DEF HandlePubrec, Receives, Expected, Packet
  <2>2. CASE PubrecUnexpected(p)
    BY <2>1, <2>2 DEF PubrecUnexpected, AwaitsPubrec
  <2>3. CASE PubrecRejected(p)
    <3>1. /\ Resolve(p.op, p) /\ inflight2' = [inflight2 EXCEPT ![p.id] = NoOp]
          /\ net' = net \ {p} /\ UNCHANGED connVars /\ UNCHANGED <<kind, pc, outcome>>
          /\ UNCHANGED <<inflight1, q2state, pendingSubs, pendingUnsubs>>
      BY <2>1, <2>3 DEF PubrecRejected
    <3> QED
      BY <1>18, <2>1, <3>1 DEF Typed, TypeOK, Table
  <2>4. CASE PubrecAccepted(p)
    <3>1. PICK new : new = Pkt("PUBREL", p.id, p.op, TRUE)
      OBVIOUS
    <3>2. new.type = "PUBREL" /\ new.id = p.id /\ new.op = p.op
      BY <3>1 DEF Pkt
    <3>3. /\ q2state' = [q2state EXCEPT ![p.id] = "pending_pubcomp"]
          /\ net' = (net \ {p}) \cup {new} /\ UNCHANGED <<conn, cause>>
          /\ UNCHANGED <<inflight1, inflight2, pendingSubs, pendingUnsubs>>
          /\ UNCHANGED <<kind, pc, outcome, fut, resolver>>
      BY <2>4, <3>1 DEF PubrecAccepted, callVars
    <3>4. \A q \in net \ {p} : q.id # p.id /\ Expected(q)'
      BY <2>1, <3>3, WireOthers DEF Typed, TypeOK
    <3>5. Expected(new)'
      BY <2>1, <3>2, <3>3 DEF Expected, Typed, TypeOK
    <3>6. ExchangeOnWire'
      BY <3>2, <3>3, <3>4, <3>5 DEF ExchangeOnWire
    <3>7. OwnAnswer' /\ NoLocalDeath' /\ Fresh'
      BY <3>3 DEF OwnAnswer, NoLocalDeath, Fresh
    <3> QED
      BY <3>6, <3>7
  <2> QED
    BY <1>21, <2>2, <2>3, <2>4 DEF HandlePubrec
<1>22. ASSUME NEW p \in net, HandleSuback(p)
       PROVE  Wire'
  <2>1. /\ conn = "up" /\ p \in Packet /\ pendingSubs[p.id] = p.op /\ p.op # NoOp
        /\ fut[p.op] = "pending"
    BY <1>17, <1>22 DEF HandleSuback, Receives, Expected
  <2>2. ResolveOrFail(p.op, p)
    BY <1>22, <2>1 DEF HandleSuback
  <2>3. /\ Resolve(p.op, p) /\ net' = net \ {p}
        /\ UNCHANGED connVars /\ UNCHANGED <<kind, pc, outcome>>
        /\ UNCHANGED <<inflight1, inflight2, q2state, pendingSubs, pendingUnsubs>>
    BY <2>1, <2>2 DEF ResolveOrFail, connVars, tables
  <2> QED
    BY <1>18, <2>1, <2>3
<1>23. ASSUME NEW p \in net, HandleUnsuback(p)
       PROVE  Wire'
  <2>1. /\ conn = "up" /\ p \in Packet /\ pendingUnsubs[p.id] = p.op /\ p.op # NoOp
        /\ fut[p.op] = "pending"
    BY <1>17, <1>23 DEF HandleUnsuback, Receives, Expected
  <2>2. ResolveOrFail(p.op, p)
    BY <1>23, <2>1 DEF HandleUnsuback
  <2>3. /\ Resolve(p.op, p) /\ net' = net \ {p}
        /\ UNCHANGED connVars /\ UNCHANGED <<kind, pc, outcome>>
        /\ UNCHANGED <<inflight1, inflight2, q2state, pendingSubs, pendingUnsubs>>
    BY <2>1, <2>2 DEF ResolveOrFail, connVars, tables
  <2> QED
    BY <1>18, <2>1, <2>3
<1>24. ASSUME NEW p \in net, BrokerAnswers(p)
       PROVE  Wire'
  <2>1. /\ conn = "up" /\ p \in Packet /\ Expected(p) /\ p.type \in ClientPackets
        /\ UNCHANGED <<conn, cause, inflight1, inflight2, q2state, pendingSubs, pendingUnsubs>>
        /\ UNCHANGED <<kind, pc, outcome, fut, resolver>>
    BY <1>17, <1>24 DEF BrokerAnswers, connVars, tables, callVars
  <2>2. PICK ok \in BOOLEAN : net' = (net \ {p}) \cup {Pkt(Answer(p.type), p.id, p.op, ok)}
    BY <1>24 DEF BrokerAnswers
  <2> PICK new : new = Pkt(Answer(p.type), p.id, p.op, ok)
    OBVIOUS
  <2>3. /\ new.type = Answer(p.type) /\ new.id = p.id /\ new.op = p.op
        /\ net' = (net \ {p}) \cup {new}
    BY <2>2 DEF Pkt
  <2>4. \A q \in net \ {p} : q.id # p.id /\ Expected(q)'
    BY <2>1, WireOthers
  <2>5. Expected(new)
    <3>1. CASE p.type = "PUBLISH1"
      BY <2>1, <2>3, <3>1 DEF Expected, Answer
    <3>2. CASE p.type = "PUBLISH2"
      BY <2>1, <2>3, <3>2 DEF Expected, Answer
    <3>3. CASE p.type = "PUBREL"
      BY <2>1, <2>3, <3>3 DEF Expected, Answer
    <3>4. CASE p.type = "SUBSCRIBE"
      BY <2>1, <2>3, <3>4 DEF Expected, Answer
    <3>5. CASE p.type = "UNSUBSCRIBE"
      BY <2>1, <2>3, <3>5 DEF Expected, Answer
    <3> QED
      BY <2>1, <3>1, <3>2, <3>3, <3>4, <3>5 DEF ClientPackets
  <2>6. Expected(new)'
    BY <2>1, <2>5 DEF Expected
  <2>7. ExchangeOnWire'
    BY <2>1, <2>3, <2>4, <2>6 DEF ExchangeOnWire
  <2>8. OwnAnswer' /\ NoLocalDeath' /\ Fresh'
    BY <2>1 DEF OwnAnswer, NoLocalDeath, Fresh
  <2> QED
    BY <2>7, <2>8
<1>25. CASE UNCHANGED vars
  BY <1>25 DEF vars, connVars, tables, callVars, ExchangeOnWire, Expected, OwnAnswer,
               NoLocalDeath, Fresh
<1> QED
  BY <1>3, <1>4, <1>6, <1>7, <1>8, <1>9, <1>10, <1>11, <1>12, <1>13, <1>14, <1>15, <1>16,
     <1>19, <1>20, <1>21, <1>22, <1>23, <1>24, <1>25
     DEF Next, Start, CallStep, Cancel, ReadLoop

\* As long as the application cancels no subscribe() or unsubscribe() and their
\* writes fail only with the connection, every packet on the wire belongs to a
\* registered exchange that expects it.
THEOREM ExchangeOnWireHolds ==
  ASSUME Interruptible \cap SubscribeKinds = {}
  PROVE  Spec => []ExchangeOnWire
<1>1. Core /\ Wire => ExchangeOnWire
  BY DEF Wire
<1> QED
  BY <1>1, CoreInit, CoreStep, WireInit, WireStep, PTL DEF Spec

\* Under the same assumption every caller gets the answer to its own packet.
THEOREM OwnAnswerHolds ==
  ASSUME Interruptible \cap SubscribeKinds = {}
  PROVE  Spec => []OwnAnswer
<1>1. Core /\ Wire => OwnAnswer
  BY DEF Wire
<1> QED
  BY <1>1, CoreInit, CoreStep, WireInit, WireStep, PTL DEF Spec

\* Under the same assumption a conforming broker never makes an acknowledgement
\* handler raise, so run() ends only with the connection.
THEOREM NoLocalDeathHolds ==
  ASSUME Interruptible \cap SubscribeKinds = {}
  PROVE  Spec => []NoLocalDeath
<1>1. Core /\ Wire => NoLocalDeath
  BY DEF Wire
<1> QED
  BY <1>1, CoreInit, CoreStep, WireInit, WireStep, PTL DEF Spec

\* Under the same assumption no identifier is handed out while a packet that
\* carries it is on the wire.
THEOREM NoReuseInFlightHolds ==
  ASSUME Interruptible \cap SubscribeKinds = {}
  PROVE  Spec => NoReuseInFlight
<1>1. Core /\ Wire =>
        (conn = "up" => \A i \in pool'.inUse \ pool.inUse : \A p \in net : p.id # i)
  BY WireIds DEF Wire
<1> QED
  BY <1>1, CoreInit, CoreStep, WireInit, WireStep, PTL DEF Spec, NoReuseInFlight

-----------------------------------------------------------------------------
(* Identifiers given back, however calls are cancelled or fail.            *)

Carried(types, i) == \E p \in net : p.type \in types /\ p.id = i

\* The call of this flight met an exception of encode() under this identifier.
Stuck(o, i) == o \in Unencodable /\ pid[o] = i

FlightTypes2 == {"PUBLISH2", "PUBREC", "PUBREL", "PUBCOMP"}

FlightAt(i) ==
  /\ inflight1[i] # NoOp => Carried({"PUBLISH1", "PUBACK"}, i) \/ Stuck(inflight1[i], i)
  /\ inflight2[i] # NoOp => Carried(FlightTypes2, i) \/ Stuck(inflight2[i], i)

\* While the connection is up, a flight of publish() is either carried forward by a
\* packet on the wire or the flight of a call whose packet was never written.
FlightCarried == conn = "up" => \A i \in PacketId : FlightAt(i)

\* A step that touches neither the flight of an identifier nor the packets that
\* carry it.
LEMMA FlightKept ==
  ASSUME NEW i \in PacketId, FlightAt(i),
         inflight1'[i] = inflight1[i], inflight2'[i] = inflight2[i],
         \A p \in net : p.id = i => p \in net',
         \/ UNCHANGED pid
         \/ /\ inflight1[i] # NoOp => pid'[inflight1[i]] = pid[inflight1[i]]
            /\ inflight2[i] # NoOp => pid'[inflight2[i]] = pid[inflight2[i]]
  PROVE  FlightAt(i)'
<1>1. \A types : Carried(types, i) => Carried(types, i)'
  BY DEF Carried
<1>2. inflight1[i] # NoOp /\ Stuck(inflight1[i], i) => Stuck(inflight1[i], i)'
  BY DEF Stuck
<1>3. inflight2[i] # NoOp /\ Stuck(inflight2[i], i) => Stuck(inflight2[i], i)'
  BY DEF Stuck
<1> QED
  BY <1>1, <1>2, <1>3 DEF FlightAt

\* A step that leaves flights, identifiers and the wire alone.
LEMMA FlightStable ==
  ASSUME FlightCarried, conn' = "up" => conn = "up",
         UNCHANGED <<inflight1, inflight2, pid, net>>
  PROVE  FlightCarried'
BY DEF FlightCarried, FlightAt, Carried, Stuck

\* A call that acquires an identifier and begins: the flights of the others stay, and
\* its own one, if it is a publish, travels with its packet or is stuck.
LEMMA FlightBegin ==
  ASSUME Core, FlightCarried, NEW o \in Ops, NEW k \in Kinds, NEW type \in ClientPackets,
         MayAcquire(o, k), Begin(o, k, type, NextFree(pool)), UNCHANGED conn,
         \A i \in PacketId \ {NextFree(pool)} :
           inflight1'[i] = inflight1[i] /\ inflight2'[i] = inflight2[i],
         inflight1'[NextFree(pool)] # NoOp =>
           inflight1'[NextFree(pool)] = o /\ type = "PUBLISH1",
         inflight2'[NextFree(pool)] # NoOp =>
           inflight2'[NextFree(pool)] = o /\ type = "PUBLISH2"
  PROVE  FlightCarried'
<1> SUFFICES ASSUME conn = "up", NEW i \in PacketId PROVE FlightAt(i)'
  BY DEF FlightCarried
<1>1. NextFree(pool) \in PacketId /\ pc[o] = "idle" /\ pid \in [Ops -> PacketId \cup {0}]
  BY FreshId DEF Core, MayAcquire, Typed, TypeOK
<1>2. pid' = [pid EXCEPT ![o] = NextFree(pool)] /\ \A p \in net : p \in net'
  BY DEF Begin
<1>3. CASE i # NextFree(pool)
  <2>1. inflight1[i] # o /\ inflight2[i] # o
    BY <1>1 DEF Core, Registration
  <2>2. inflight1[i] \in Ops \cup {NoOp} /\ inflight2[i] \in Ops \cup {NoOp}
    BY DEF Core, Typed, TypeOK, Table
  <2>3. /\ inflight1[i] # NoOp => pid'[inflight1[i]] = pid[inflight1[i]]
        /\ inflight2[i] # NoOp => pid'[inflight2[i]] = pid[inflight2[i]]
    BY <1>1, <1>2, <2>1, <2>2
  <2>4. FlightAt(i) /\ inflight1'[i] = inflight1[i] /\ inflight2'[i] = inflight2[i]
    BY <1>3 DEF FlightCarried
  <2> QED
    BY <1>2, <2>3, <2>4, FlightKept
<1>4. CASE i = NextFree(pool) /\ o \in Unencodable
  <2>1. Stuck(o, i)'
    BY <1>1, <1>2, <1>4 DEF Stuck
  <2> QED
    BY <1>4, <2>1 DEF FlightAt, Stuck
<1>5. CASE i = NextFree(pool) /\ o \notin Unencodable
  <2>1. PICK new : new = Pkt(type, i, o, TRUE)
    OBVIOUS
  <2>2. new \in net' /\ new.type = type /\ new.id = i
    BY <1>5, <2>1 DEF Begin, Pkt
  <2>3. \A types : type \in types => Carried(types, i)'
    BY <2>2 DEF Carried
  <2> QED
    BY <1>5, <2>3 DEF FlightAt, FlightTypes2
<1> QED
  BY <1>3, <1>4, <1>5

\* An acknowledgement that ends the flights of its identifier: those of the others
\* keep the packets that carry them.
LEMMA FlightEnds ==
  ASSUME FlightCarried, conn = "up", NEW p \in net, p.id \in PacketId,
         UNCHANGED pid, net \ {p} \subseteq net',
         \A i \in PacketId \ {p.id} :
           inflight1'[i] = inflight1[i] /\ inflight2'[i] = inflight2[i],
         FlightAt(p.id)'
  PROVE  FlightCarried'
<1> SUFFICES ASSUME NEW i \in PacketId \ {p.id} PROVE FlightAt(i)'
  BY DEF FlightCarried
<1>1. FlightAt(i) /\ \A q \in net : q.id = i => q \in net'
  BY DEF FlightCarried
<1> QED
  BY <1>1, FlightKept

\* No flight is registered on a new connection.
LEMMA FlightInit == Init => FlightCarried
BY DEF Init, FlightCarried, FlightAt, EmptyTable

\* Every step keeps FlightCarried: an acknowledgement takes the flight it answers out
\* of its table, is followed by the next packet of the flow, or ends run().
LEMMA FlightStep == Core /\ FlightCarried /\ [Next]_vars => FlightCarried'
<1> SUFFICES ASSUME Core, FlightCarried, [Next]_vars PROVE FlightCarried'
  OBVIOUS
<1> USE DEF connVars, tables, callVars
<1>t. /\ inflight1 \in Table /\ inflight2 \in Table
      /\ \A p \in net : p \in Packet /\ p.id \in PacketId /\ p.op \in Ops
  BY DEF Core, Typed, TypeOK, Packet
<1>1. ASSUME NEW o \in Ops, NEW k \in Kinds,
             StartOnDead(o, k) \/ StartRefused(o, k) \/ StartExhausted(o, k)
      PROVE  FlightCarried'
  BY <1>1, FlightStable DEF StartOnDead, StartRefused, StartExhausted
<1>2. ASSUME NEW o \in Ops, StartQoS0(o) PROVE FlightCarried'
  BY <1>2, FlightStable DEF StartQoS0
<1>3. ASSUME NEW o \in Ops, "qos1" \in Kinds, StartQoS1(o) PROVE FlightCarried'
  <2>1. MayAcquire(o, "qos1") /\ Begin(o, "qos1", "PUBLISH1", NextFree(pool))
    BY <1>3 DEF StartQoS1
  <2>2. /\ NextFree(pool) \in PacketId /\ inflight2[NextFree(pool)] = NoOp
    BY <1>3, <2>1, FreshId DEF Core
  <2>3. /\ inflight1' = [inflight1 EXCEPT ![NextFree(pool)] = o]
        /\ UNCHANGED <<conn, inflight2>>
    BY <1>3 DEF StartQoS1
  <2> QED
    BY <1>t, <1>3, <2>1, <2>2, <2>3, FlightBegin DEF Table, ClientPackets
<1>4. ASSUME NEW o \in Ops, "qos2" \in Kinds, StartQoS2(o) PROVE FlightCarried'
  <2>1. MayAcquire(o, "qos2") /\ Begin(o, "qos2", "PUBLISH2", NextFree(pool))
    BY <1>4 DEF StartQoS2
  <2>2. /\ NextFree(pool) \in PacketId /\ inflight1[NextFree(pool)] = NoOp
    BY <1>4, <2>1, FreshId DEF Core
  <2>3. /\ inflight2' = [inflight2 EXCEPT ![NextFree(pool)] = o]
        /\ UNCHANGED <<conn, inflight1>>
    BY <1>4 DEF StartQoS2
  <2> QED
    BY <1>t, <1>4, <2>1, <2>2, <2>3, FlightBegin DEF Table, ClientPackets
<1>5. ASSUME NEW o \in Ops, "subscribe" \in Kinds, StartSubscribe(o) PROVE FlightCarried'
  <2>1. MayAcquire(o, "subscribe") /\ Begin(o, "subscribe", "SUBSCRIBE", NextFree(pool))
    BY <1>5 DEF StartSubscribe
  <2>2. /\ inflight1[NextFree(pool)] = NoOp /\ inflight2[NextFree(pool)] = NoOp
    BY <1>5, <2>1, FreshId DEF Core
  <2>3. UNCHANGED <<conn, inflight1, inflight2>>
    BY <1>5 DEF StartSubscribe
  <2> QED
    BY <1>5, <2>1, <2>2, <2>3, FlightBegin DEF ClientPackets
<1>6. ASSUME NEW o \in Ops, "unsubscribe" \in Kinds, StartUnsubscribe(o) PROVE FlightCarried'
  <2>1. /\ MayAcquire(o, "unsubscribe")
        /\ Begin(o, "unsubscribe", "UNSUBSCRIBE", NextFree(pool))
    BY <1>6 DEF StartUnsubscribe
  <2>2. /\ inflight1[NextFree(pool)] = NoOp /\ inflight2[NextFree(pool)] = NoOp
    BY <1>6, <2>1, FreshId DEF Core
  <2>3. UNCHANGED <<conn, inflight1, inflight2>>
    BY <1>6 DEF StartUnsubscribe
  <2> QED
    BY <1>6, <2>1, <2>2, <2>3, FlightBegin DEF ClientPackets
<1>7. ASSUME NEW o \in Ops, CallStep(o) \/ Cancel(o) PROVE FlightCarried'
  BY <1>7, FlightStable DEF CallStep, Cancel, SendDone, SendFails, Wake, CancelSend,
                            CancelAwait, LeaveExchange
<1>8. CASE PubrelSent \/ ConnectionLost \/ RunExits \/ UNCHANGED vars
  BY <1>8, FlightStable DEF PubrelSent, ConnectionLost, RunExits, Die, vars
<1>9. ASSUME NEW p \in net, UnknownId(p) PROVE FlightCarried'
  BY <1>9 DEF UnknownId, Die, FlightCarried
<1>10. ASSUME NEW p \in net, HandlePuback(p) PROVE FlightCarried'
  <2>1. CASE inflight1[p.id] = NoOp
    BY <1>9, <1>10, <2>1 DEF HandlePuback
  <2>2. CASE inflight1[p.id] # NoOp
    <3>1. /\ conn = "up" /\ p.type = "PUBACK" /\ net' = net \ {p} /\ UNCHANGED <<pid, inflight2>>
          /\ inflight1' = [inflight1 EXCEPT ![p.id] = NoOp]
      BY <1>10, <2>2 DEF HandlePuback, Receives
    <3>2. FlightAt(p.id)'
      <4>1. OwnedBy(p.id)
        BY <1>t, OwnedByEquiv DEF Core
      <4>2. inflight2'[p.id] = NoOp /\ inflight1'[p.id] = NoOp
        BY <1>t, <2>2, <3>1, <4>1 DEF OwnedBy, Table
      <4> QED
        BY <4>2 DEF FlightAt
    <3>3. \A i \in PacketId \ {p.id} :
            inflight1'[i] = inflight1[i] /\ inflight2'[i] = inflight2[i]
      BY <1>t, <3>1 DEF Table
    <3> QED
      BY <1>t, <3>1, <3>2, <3>3, FlightEnds
  <2> QED
    BY <2>1, <2>2
<1>11. ASSUME NEW p \in net, conn = "up", inflight2[p.id] # NoOp, net' = net \ {p},
              UNCHANGED <<pid, inflight1>>, inflight2' = [inflight2 EXCEPT ![p.id] = NoOp]
       PROVE  FlightCarried'
  <2>1. OwnedBy(p.id)
    BY <1>t, OwnedByEquiv DEF Core
  <2>2. inflight2'[p.id] = NoOp /\ inflight1'[p.id] = NoOp
    BY <1>t, <1>11, <2>1 DEF OwnedBy, Table
  <2>3. FlightAt(p.id)'
    BY <2>2 DEF FlightAt
  <2>4. \A i \in PacketId \ {p.id} :
          inflight1'[i] = inflight1[i] /\ inflight2'[i] = inflight2[i]
    BY <1>t, <1>11 DEF Table
  <2> QED
    BY <1>t, <1>11, <2>3, <2>4, FlightEnds
<1>12. ASSUME NEW p \in net, HandlePubrec(p) PROVE FlightCarried'
  <2>0. conn = "up"
    BY <1>12 DEF HandlePubrec, Receives
  <2>1. CASE PubrecUnexpected(p)
    BY <1>9, <2>1 DEF PubrecUnexpected
  <2>2. CASE PubrecRejected(p)
    BY <1>11, <2>0, <2>2 DEF PubrecRejected, AwaitsPubrec
  <2>3. CASE PubrecAccepted(p)
    <3>1. /\ net' = (net \ {p}) \cup {Pkt("PUBREL", p.id, p.op, TRUE)}
          /\ UNCHANGED <<pid, inflight1, inflight2>> /\ inflight2[p.id] # NoOp
      BY <2>3 DEF PubrecAccepted, AwaitsPubrec
    <3>2. PICK new : new = Pkt("PUBREL", p.id, p.op, TRUE)
      OBVIOUS
    <3>3. new \in net' /\ new.type \in FlightTypes2 /\ new.id = p.id
      BY <3>1, <3>2 DEF Pkt, FlightTypes2
    <3>4. Carried(FlightTypes2, p.id)'
      BY <3>3 DEF Carried, FlightTypes2
    <3>5. OwnedBy(p.id)
      BY <1>t, OwnedByEquiv DEF Core
    <3>6. FlightAt(p.id)'
      BY <3>1, <3>4, <3>5 DEF FlightAt, OwnedBy
    <3> QED
      BY <1>t, <2>0, <3>1, <3>6, FlightEnds
  <2> QED
    BY <1>12, <2>1, <2>2, <2>3 DEF HandlePubrec
<1>13. ASSUME NEW p \in net, HandlePubcomp(p) PROVE FlightCarried'
  <2>1. CASE inflight2[p.id] = NoOp
    BY <1>9, <1>13, <2>1 DEF HandlePubcomp
  <2>2. CASE inflight2[p.id] # NoOp
    BY <1>11, <1>13, <2>2 DEF HandlePubcomp, Receives
  <2> QED
    BY <2>1, <2>2
<1>14. ASSUME NEW p \in net, conn = "up", p.type \in {"SUBACK", "UNSUBACK"}, net' = net \ {p},
              UNCHANGED <<pid, inflight1, inflight2>>
       PROVE  FlightCarried'
  <2>1. FlightAt(p.id)
    BY <1>t, <1>14 DEF FlightCarried
  <2>2. \A types : p.type \notin types /\ Carried(types, p.id) => Carried(types, p.id)'
    BY <1>14 DEF Carried
  <2>3. FlightAt(p.id)'
    BY <1>14, <2>1, <2>2 DEF FlightAt, FlightTypes2, Stuck
  <2> QED
    BY <1>t, <1>14, <2>3, FlightEnds
<1>15. ASSUME NEW p \in net, HandleSuback(p) \/ HandleUnsuback(p) PROVE FlightCarried'
  <2>1. CASE UnknownId(p)
    BY <1>9, <2>1
  <2>2. CASE ~UnknownId(p)
    BY <1>14, <1>15, <2>2 DEF HandleSuback, HandleUnsuback, ResolveOrFail, Receives
  <2> QED
    BY <2>1, <2>2
<1>16. ASSUME NEW p \in net, BrokerAnswers(p) PROVE FlightCarried'
  <2>1. PICK ok \in BOOLEAN : net' = (net \ {p}) \cup {Pkt(Answer(p.type), p.id, p.op, ok)}
    BY <1>16 DEF BrokerAnswers
  <2>2. PICK new : new = Pkt(Answer(p.type), p.id, p.op, ok)
    OBVIOUS
  <2>3. new \in net' /\ new.type = Answer(p.type) /\ new.id = p.id
    BY <2>1, <2>2 DEF Pkt
  <2>4. conn = "up" /\ p.type \in ClientPackets /\ UNCHANGED <<pid, inflight1, inflight2>>
    BY <1>16 DEF BrokerAnswers
  <2>5. /\ p.type \in {"PUBLISH1", "PUBACK"} => new.type \in {"PUBLISH1", "PUBACK"}
        /\ p.type \in FlightTypes2 => new.type \in FlightTypes2
    BY <2>3, <2>4 DEF FlightTypes2, ClientPackets, Answer
  <2>6. /\ Carried({"PUBLISH1", "PUBACK"}, p.id) => Carried({"PUBLISH1", "PUBACK"}, p.id)'
        /\ Carried(FlightTypes2, p.id) => Carried(FlightTypes2, p.id)'
    BY <2>1, <2>3, <2>5 DEF Carried, FlightTypes2
  <2>7. FlightAt(p.id)
    BY <1>t, <2>4 DEF FlightCarried
  <2>8. FlightAt(p.id)'
    BY <2>4, <2>6, <2>7 DEF FlightAt, Stuck
  <2> QED
    BY <1>t, <2>1, <2>4, <2>8, FlightEnds
<1> QED
  BY <1>1, <1>2, <1>3, <1>4, <1>5, <1>6, <1>7, <1>8, <1>10, <1>12, <1>13, <1>15, <1>16
     DEF Next, Start, ReadLoop

\* However calls are cancelled or fail, once the wire is empty and no call runs, only
\* publishes whose packet encode() rejected still hold an identifier.  Unlike the
\* theorems above this one needs no assumption on which calls are interrupted: the
\* finally blocks give back what subscribe() and unsubscribe() hold at once, and the
\* answer on its way does it for a publish.
THEOREM NoLeakHolds == Spec => []NoLeak
<1>1. Core /\ FlightCarried => NoLeak
  <2> SUFFICES ASSUME Core, FlightCarried, conn = "up", net = {}, \A o \in Ops : ~Active(o),
                      NEW i \in pool.inUse
               PROVE  \E o \in Unencodable : pid[o] = i /\ kind[o] \in {"qos1", "qos2"}
    BY DEF NoLeak
  <2>1. i \in PacketId
    BY DEF Core, Typed, TypeOK, Pool
  <2>2. OwnedBy(i) /\ FlightAt(i)
    BY <2>1, OwnedByEquiv DEF Core, FlightCarried
  <2>3. /\ inflight1[i] \in Ops \cup {NoOp} /\ inflight2[i] \in Ops \cup {NoOp}
        /\ pendingSubs[i] \in Ops \cup {NoOp} /\ pendingUnsubs[i] \in Ops \cup {NoOp}
    BY <2>1 DEF Core, Typed, TypeOK, Table
  <2>4. pendingSubs[i] = NoOp /\ pendingUnsubs[i] = NoOp
    BY <2>1, <2>3 DEF Core, Registration
  <2>5. CASE inflight1[i] # NoOp
    BY <2>1, <2>2, <2>3, <2>5 DEF Core, Registration, FlightAt, Carried, Stuck
  <2>6. CASE inflight2[i] # NoOp
    BY <2>1, <2>2, <2>3, <2>6 DEF Core, Registration, FlightAt, Carried, Stuck
  <2> QED
    BY <2>2, <2>4, <2>5, <2>6 DEF OwnedBy
<1> QED
  BY <1>1, CoreInit, CoreStep, FlightInit, FlightStep, PTL DEF Spec

=============================================================================
