----------------------------- MODULE Subscriptions -----------------------------
(***************************************************************************)
(* The calls that change which filters are subscribed: subscribe(),        *)
(* unsubscribe(), add_response_observer() and remove_response_observer()   *)
(* of MQTTProtocol, concurrent tasks that _SubscriptionGuards serialises   *)
(* filter by filter, on the SubscriptionIndex that routes the messages.    *)
(*                                                                         *)
(* A call runs from Begin to its first suspension in one step, and from    *)
(* each suspension to the next one in another.  It can be cancelled while  *)
(* it waits for a lock or for an answer, also when the answer has arrived  *)
(* and the event loop has not resumed it yet.  A _SubscriptionGuard is     *)
(* named by its filter and the call that created it.  The broker answers   *)
(* requests in the order sent, those of cancelled calls too, and packet    *)
(* identifiers alone tell whose answer it is.                              *)
(***************************************************************************)
EXTENDS SubscriptionIndex

CONSTANTS
  Calls,    \* the calls an application makes on one connection
  Requests, \* what they ask for: [kind, filters, identifier] records
  Order,    \* every filter, in the order of sorted()
  Rejected, \* the filters the broker refuses to subscribe
  Kept,     \* the filters it refuses to unsubscribe, and keeps delivering on (MQTT 5)
  Topics,   \* topics that messages are published to
  Decorated \* the filters the broker strips a prefix of, and what it matches instead

ASSUME CallsAssumption == IsFiniteSet(Calls)
ASSUME RequestsAssumption ==
  /\ Order \in Seq(ToSet(Order)) /\ IsInjective(Order)
  /\ \A r \in Requests :
       /\ r.filters # <<>> /\ r.filters \in Seq(ToSet(Order))
       /\ r.kind \in {"subscribe", "unsubscribe", "observe", "unobserve"}
       /\ r.kind \in {"observe", "unobserve"} => Len(r.filters) = 1
\* A filter has at least one level.  The broker strips $share/<group>/ and the prefixes
\* the client is configured with, where something is left behind them.
ASSUME FiltersAssumption ==
  \A f \in ToSet(Order) :
    LET stripped == IF f[1] = "$share" /\ Len(f) >= 3 THEN 2
                    ELSE IF f[1] \in StrippedPrefixes /\ Len(f) >= 2 THEN 1 ELSE 0
    IN /\ f # <<>> /\ f \in Seq(ToSet(f))
       /\ f \in DOMAIN Decorated <=> stripped # 0
       /\ f \in DOMAIN Decorated => /\ f = SubSeq(f, 1, stripped) \o Decorated[f]
                                    /\ Decorated[f] \in Seq(ToSet(f)) /\ Decorated[f] # <<"">>

VARIABLES
  guards,    \* _guards: filter |-> the call that created its guard
  users,     \* users of each guard
  lock,      \* its asyncio.Lock: the owner, then the waiters in their order
  call,      \* what each call does
  index,     \* _state.subscriptions
  observers, \* its _response_observers
  wire,      \* requests sent and not yet handled by the broker
  broker,    \* the filters the broker has for this client
  dead,      \* _dead, with the end of run() that sets it
  orphans    \* history: filters of a SUBSCRIBE whose call did not succeed, or of an
             \* UNSUBSCRIBE the broker refuses

hold == <<guards, users, lock>>
vars == <<guards, users, lock, call, index, observers, wire, broker, dead, orphans>>

Filters == ToSet(Order)
Objects == Filters \X Calls
Waiting == {"subscribing", "unsubscribing", "restoring", "observing", "unobserving"}
NotCalled == [phase |-> "idle"]
None == "none"

\* The table in which a call that waits has its future.
Table(c) == IF call[c].phase \in {"unsubscribing", "unobserving"} THEN "unsubscribe" ELSE "subscribe"
InBody(c) == call[c].phase \in Waiting

Init ==
  /\ guards = <<>>
  /\ users = [o \in Objects |-> 0]
  /\ lock = [o \in Objects |-> <<>>]
  /\ call = [c \in Calls |-> NotCalled]
  /\ index = EmptyIndex
  /\ observers = {}
  /\ wire = <<>>
  /\ broker = {}
  /\ dead = FALSE
  /\ orphans = {}

-----------------------------------------------------------------------------
(* _SubscriptionGuards.hold()                                              *)

\* The filters a caller names, each once, in the order of the first mention.  A mutant
\* takes the locks in this order.
UnsortedSet(fs) == Picked(fs, {i \in DOMAIN fs : \A j \in 1 .. i - 1 : fs[j] # fs[i]})

\* sorted(set(filters)): each of them once, in ascending order.
Before(f, g) == \E i, j \in DOMAIN Order : i < j /\ Order[i] = f /\ Order[j] = g

SortedSet(fs) ==
  CHOOSE s \in [1 .. Cardinality(ToSet(fs)) -> ToSet(fs)] :
    /\ ToSet(s) = ToSet(fs)
    /\ \A i, j \in DOMAIN s : i < j => Before(s[i], s[j])

\* setdefault() for every filter.
GuardsFor(c, fs) ==
  [f \in DOMAIN guards \cup ToSet(fs) |-> IF f \in DOMAIN guards THEN guards[f] ELSE c]

\* acquire() does not suspend on a free lock, which c then owns: c joins the queues of
\* the guards from position i on, up to the first one that is taken.
JoinedUpTo(objects, i, locks) ==
  LET taken == {j \in i .. Len(objects) : locks[objects[j]] # <<>>}
  IN  IF taken = {} THEN Len(objects) + 1 ELSE Min(taken)

\* Mutant: the guard goes with the first call that leaves it.
LeavePopsAlways(c, objects, gs, us, locks) ==
  /\ lock' = [o \in Objects |-> RemoveFirst(locks[o], c)]
  /\ users' = [o \in Objects |-> us[o] - (IF Contains(objects, o) THEN 1 ELSE 0)]
  /\ guards' = Restrict(gs, {f \in DOMAIN gs : \A o \in ToSet(objects) : o[1] # f})

\* Mutant: the guard of a call that is cancelled while it waits stays.
LeaveKeepsWaiter(c, objects, gs, us, locks) ==
  /\ lock' = [o \in Objects |-> RemoveFirst(locks[o], c)]
  /\ users' = [o \in Objects |->
                us[o] - (IF Contains(objects, o) /\ locks[o] # <<>> /\ Head(locks[o]) = c THEN 1 ELSE 0)]
  /\ guards' = Restrict(gs, {f \in DOMAIN gs : \A o \in ToSet(objects) : o[1] = f => users'[o] # 0})

\* The finally block: the locks are released or no longer waited for.
Leave(c, objects, gs, us, locks) ==
  /\ lock' = [o \in Objects |-> RemoveFirst(locks[o], c)]
  /\ users' = [o \in Objects |-> us[o] - (IF Contains(objects, o) THEN 1 ELSE 0)]
  /\ guards' = Restrict(gs, {f \in DOMAIN gs : \A o \in ToSet(objects) : o[1] = f => users'[o] # 0})

Stay(gs, us, locks) == guards' = gs /\ users' = us /\ lock' = locks

-----------------------------------------------------------------------------
(* The bodies, from the locks to the first answer they wait for.           *)

\* The lowest identifier that no other call uses, which is what acquire() returns.
NextId(c) ==
  Min((1 .. Cardinality(Calls)) \ {call[d].id : d \in {d \in Calls \ {c} : InBody(d)}})

Send(op, fs, c) ==
  wire' = Append(wire, [op |-> op, filters |-> fs, id |-> NextId(c), call |-> c])

Owned == DOMAIN index.entries \cup observers

\* The members of a list that are in a set, and those that are not.
Inside(s, S) == Picked(s, {i \in DOMAIN s : s[i] \in S})
Outside(s, S) == Picked(s, {i \in DOMAIN s : s[i] \notin S})

\* new_entries: the filters that have no entry, each once.
NewEntries(fs) == Outside(UnsortedSet(fs), DOMAIN index.entries)

\* What a body leaves behind when it returns or raises at once, ...
Returning ==
  [phase |-> "done", op |-> None, filters |-> <<>>, more |-> <<>>,
   index |-> index, observers |-> observers, orphans |-> orphans]

\* ... or sends a packet and suspends.
Sending(phase, op, fs, more) ==
  [Returning EXCEPT !.phase = phase, !.op = op, !.filters = fs, !.more = more]

\* _subscribe(); on a dead connection the entries are added and removed again.
SubscribeBody(r) ==
  LET added == NewEntries(r.filters)
      with == AddMany(index, added, [identifier |-> r.identifier])
  IN IF dead THEN [Returning EXCEPT !.index = RemoveMany(with, added)]
     ELSE [Sending("subscribing", "subscribe", r.filters, added) EXCEPT !.index = with]

\* _warn_on_rejected_unsubscribe(): the filters that a call is told the broker keeps.  It
\* logs them, and goes on as if they were gone.
Warned(fs) == ToSet(fs) \cap Kept

\* _unsubscribe(): a filter that has an observer stays at the broker.
UnsubscribeBody(r) ==
  LET observed == Inside(r.filters, observers)
      rest == Outside(r.filters, observers)
      next == IF rest # <<>> THEN Sending("unsubscribing", "unsubscribe", rest, observed)
              ELSE Sending("restoring", "subscribe", observed, observed)
  IN IF dead THEN Returning
     ELSE [next EXCEPT !.index = RemoveMany(@, r.filters),
                       !.orphans = (@ \ ToSet(rest)) \cup Warned(rest)]

\* _add_response_observer()
ObserveBody(r) ==
  LET topic == Head(r.filters) IN
  IF dead \/ topic \in observers THEN Returning
  ELSE [(IF topic \in DOMAIN index.entries THEN Returning
         ELSE Sending("observing", "subscribe", <<topic>>, <<>>))
          EXCEPT !.observers = @ \cup {topic}]

\* _remove_response_observer()
UnobserveBody(r) ==
  LET topic == Head(r.filters) IN
  IF topic \notin observers THEN Returning
  ELSE IF topic \in DOMAIN index.entries \/ dead THEN [Returning EXCEPT !.observers = @ \ {topic}]
  ELSE [Sending("unobserving", "unsubscribe", <<topic>>, <<>>)
          EXCEPT !.observers = @ \ {topic}, !.orphans = (@ \ {topic}) \cup Warned(<<topic>>)]

Body(r) ==
  CASE r.kind = "subscribe"   -> SubscribeBody(r)
    [] r.kind = "unsubscribe" -> UnsubscribeBody(r)
    [] r.kind = "observe"     -> ObserveBody(r)
    [] r.kind = "unobserve"   -> UnobserveBody(r)

\* From position i of the guards: wait for the first lock that is taken, or go through.
Proceed(c, r, objects, i, gs, us, locks) ==
  LET k == JoinedUpTo(objects, i, locks)
      joined == [o \in Objects |->
                  IF \E j \in i .. Len(objects) : j <= k /\ objects[j] = o
                  THEN Append(locks[o], c) ELSE locks[o]]
      waits == k <= Len(objects)
      body == IF waits THEN [Returning EXCEPT !.phase = "acquiring"] ELSE Body(r)
  IN /\ call' = [call EXCEPT ![c] = [phase |-> body.phase, request |-> r, objects |-> objects,
                                     at |-> k, more |-> body.more, id |-> NextId(c), answer |-> None]]
     /\ index' = body.index /\ observers' = body.observers /\ orphans' = body.orphans
     /\ IF body.phase = "done" THEN Leave(c, objects, gs, us, joined) ELSE Stay(gs, us, joined)
     /\ IF body.op = None THEN UNCHANGED wire ELSE Send(body.op, body.filters, c)
     /\ UNCHANGED <<broker, dead>>

Begin(c, r) ==
  /\ call[c].phase = "idle"
  /\ LET fs == SortedSet(r.filters)
         gs == GuardsFor(c, fs)
         objects == [i \in DOMAIN fs |-> <<fs[i], gs[fs[i]]>>]
         us == [o \in Objects |-> users[o] + (IF Contains(objects, o) THEN 1 ELSE 0)]
     IN  Proceed(c, r, objects, 1, gs, us, lock)

\* The lock that c waited for was released to it.
Acquired(c) ==
  /\ call[c].phase = "acquiring"
  /\ LET objects == call[c].objects
         i == call[c].at
     IN  /\ Head(lock[objects[i]]) = c
         /\ Proceed(c, call[c].request, objects, i + 1, guards, users, lock)

-----------------------------------------------------------------------------
(* The answers.                                                            *)

Finish(c) ==
  /\ call' = [call EXCEPT ![c].phase = "done"]
  /\ Leave(c, call[c].objects, guards, users, lock)

\* What the broker holds after a request.
Handled(filters, request) ==
  IF request.op = "subscribe" THEN filters \cup (ToSet(request.filters) \ Rejected)
  ELSE filters \ (ToSet(request.filters) \ Kept)

\* _raise_on_rejected_filters(): codes and filters are matched by position.
Refused(request, c) ==
  /\ request.op = "subscribe"
  /\ \E i \in DOMAIN request.filters :
       i <= Len(call[c].request.filters) /\ request.filters[i] \in Rejected

\* The call whose future is registered under the identifier of the answer to a request.
Registered(request) ==
  {c \in Calls : InBody(c) /\ Table(c) = request.op /\ call[c].id = request.id}

\* Mutant: a failed subscribe() leaves its entries in the index.
UndoKeepsEntries(c) ==
  /\ UNCHANGED index
  /\ observers' = IF call[c].phase = "observing"
                  THEN observers \ ToSet(call[c].request.filters) ELSE observers
  /\ orphans' = IF call[c].phase \in {"subscribing", "observing"}
                THEN orphans \cup ToSet(call[c].request.filters) ELSE orphans

\* The finally blocks of a call that did not get the answer it wants.
Undo(c) ==
  /\ index' = IF call[c].phase = "subscribing" THEN RemoveMany(index, call[c].more) ELSE index
  /\ observers' = IF call[c].phase = "observing"
                  THEN observers \ ToSet(call[c].request.filters) ELSE observers
  /\ orphans' = IF call[c].phase \in {"subscribing", "observing"}
                THEN orphans \cup ToSet(call[c].request.filters) ELSE orphans

\* The broker handles the oldest request, and the read loop the SUBACK or UNSUBACK.
Answer(c) ==
  /\ wire # <<>> /\ c \in Registered(Head(wire)) /\ call[c].answer = None
  /\ broker' = Handled(broker, Head(wire))
  /\ wire' = Tail(wire)
  /\ call' = [call EXCEPT ![c].answer = IF Refused(Head(wire), c) THEN "refused" ELSE "accepted"]
  /\ UNCHANGED <<hold, index, observers, dead, orphans>>

\* An answer to a call that was cancelled: an identifier nobody waits for, or a future that
\* is done, raises in the read loop and ends run().
AnswerNobody ==
  /\ wire # <<>> /\ \A c \in Registered(Head(wire)) : call[c].answer # None
  /\ dead' = TRUE
  /\ broker' = Handled(broker, Head(wire))
  /\ wire' = <<>>
  /\ UNCHANGED <<hold, call, index, observers, orphans>>

\* The call resumes with its answer.  unsubscribe() then subscribes the observed filters
\* again, and returns whatever becomes of that.
Resume(c) ==
  /\ InBody(c) /\ call[c].answer # None
  /\ UNCHANGED <<broker, dead>>
  /\ IF call[c].phase = "unsubscribing" /\ call[c].more # <<>> /\ ~dead
     THEN /\ call' = [call EXCEPT ![c].phase = "restoring", ![c].id = NextId(c), ![c].answer = None]
          /\ Send("subscribe", call[c].more, c)
          /\ UNCHANGED <<hold, index, observers, orphans>>
     ELSE /\ Finish(c)
          /\ UNCHANGED wire
          /\ IF call[c].answer = "refused" THEN Undo(c)
             ELSE /\ orphans' = IF call[c].phase \in {"subscribing", "observing"}
                                THEN orphans \ ToSet(call[c].request.filters) ELSE orphans
                  /\ UNCHANGED <<index, observers>>

Cancel(c) ==
  /\ call[c].phase \in Waiting \cup {"acquiring"}
  /\ Finish(c)
  /\ Undo(c)
  /\ UNCHANGED <<wire, broker, dead>>

\* The end of run(): every call that still waits for an answer fails.
Lose ==
  /\ ~dead
  /\ dead' = TRUE
  /\ wire' = <<>>
  /\ UNCHANGED <<hold, call, index, observers, broker, orphans>>

Fail(c) ==
  /\ dead
  /\ InBody(c) /\ call[c].answer = None
  /\ Finish(c)
  /\ Undo(c)
  /\ UNCHANGED <<wire, broker, dead>>

Next ==
  \/ \E c \in Calls : \/ \E r \in Requests : Begin(c, r)
                      \/ Acquired(c) \/ Answer(c) \/ Resume(c) \/ Cancel(c) \/ Fail(c)
  \/ AnswerNobody
  \/ Lose

Spec == Init /\ [][Next]_vars

-----------------------------------------------------------------------------
(* Properties.                                                             *)

Using(c) == IF InBody(c) \/ call[c].phase = "acquiring" THEN ToSet(call[c].objects) ELSE {}
FiltersOf(c) == ToSet(call[c].request.filters)

\* hold() serialises: two calls that are past their locks never share a filter, so what
\* subscribe() read of the index still holds when its answer arrives.
Exclusion ==
  \A c, d \in Calls : c # d /\ InBody(c) /\ InBody(d) => FiltersOf(c) \cap FiltersOf(d) = {}

\* _guards holds a guard exactly for the filters some call uses, all of whose users share
\* it, and `users' counts them: whichever call leaves, and however, nothing leaks.
GuardsCounted ==
  /\ \A o \in Objects : users[o] = Cardinality({c \in Calls : o \in Using(c)})
  /\ {<<f, guards[f]>> : f \in DOMAIN guards} = UNION {Using(c) : c \in Calls}

\* A request on the wire whose call has given up: the connection is bound to end.
Stray(request) ==
  LET c == request.call
  IN  ~(InBody(c) /\ call[c].answer = None /\ Table(c) = request.op)

\* Once the broker has handled what is on the wire, it holds every filter that has an
\* entry or an observer, and of the others only those of a SUBSCRIBE whose call failed and
\* those of an UNSUBSCRIBE it refused: calls on other filters, refusals of either packet
\* and cancellations undo nothing a call relies on.
BrokerAgrees ==
  LET held[n \in 0 .. Len(wire)] == IF n = 0 THEN broker ELSE Handled(held[n - 1], wire[n])
      finally == held[Len(wire)]
      settled == Filters \ UNION {FiltersOf(c) : c \in {d \in Calls : InBody(d)}}
  IN (~dead /\ \A i \in DOMAIN wire : ~Stray(wire[i]))
       => /\ Owned \cap settled \subseteq finally
          /\ finally \cap settled \subseteq Owned \cup orphans

BrokerFilter(f) == IF f \in DOMAIN Decorated THEN Decorated[f] ELSE f

\* The trie has a node for every level of every entry and no other, with exactly the
\* entries that belong there, and the table of identifiers exactly those that have one:
\* add() and remove() in any order leave nothing behind and prune nothing in use.
IndexExact ==
  LET entries == index.entries
      Holds(s, fs) == ToSet(s) = fs /\ Len(s) = Cardinality(fs)
      identifiers == {entries[f].identifier : f \in DOMAIN entries} \ {NoIdentifier}
  IN /\ DOMAIN index.root = {<<>>} \cup UNION {NodesOf(BrokerFilter(f)) : f \in DOMAIN entries}
     /\ \A p \in DOMAIN index.root :
          Holds(index.root[p], {f \in DOMAIN entries : BrokerFilter(f) = p})
     /\ DOMAIN index.byIdentifier = identifiers
     /\ \A i \in identifiers :
          Holds(index.byIdentifier[i], {f \in DOMAIN entries : entries[f].identifier = i})

Matched == [f \in Filters |-> {t \in Topics : Matches(BrokerFilter(f), t)}]
Identifiers == {r.identifier : r \in Requests} \cup {NoIdentifier}

\* A message goes to a subscription that the rules of MQTT let it match, if there is one,
\* and to none that matches strictly more than another candidate; of the subscriptions
\* that have the broker's identifier if there are any, a matching one first.
RecipientIsBest ==
  \A t \in Topics, i \in Identifiers :
    LET subscribed == DOMAIN index.entries
        matching == {f \in subscribed : t \in Matched[f]}
        named == {f \in subscribed : i # NoIdentifier /\ index.entries[f].identifier = i}
        candidates == IF named \cap matching # {} THEN named \cap matching
                      ELSE IF named # {} THEN named ELSE matching
        recipient == ToSet(SelectSubscription(index, t, i))
    IN /\ recipient = {} <=> candidates = {}
       /\ \A f \in recipient :
            /\ f \in candidates
            /\ \A g \in candidates : Matched[g] \subseteq Matched[f] => Matched[g] = Matched[f]

\* Calls never wait for each other in a circle, whatever filters they name in whatever
\* order: of any calls that wait for a lock, one was handed it or waits for another call.
NoWaitCycle ==
  LET waiting == {c \in Calls : call[c].phase = "acquiring"}
      Owner(c) == Head(lock[call[c].objects[call[c].at]])
  IN \A circle \in (SUBSET waiting) \ {{}} :
       \E c \in circle : Owner(c) = c \/ Owner(c) \notin circle

=============================================================================
