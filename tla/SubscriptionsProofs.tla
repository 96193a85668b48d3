-------------------------- MODULE SubscriptionsProofs --------------------------
(***************************************************************************)
(* What _SubscriptionGuards guarantees: calls that share a filter take     *)
(* turns, they never wait for each other in a circle, and no guard leaks.  *)
(* On that rest the other two results: the index routes by exactly the     *)
(* filters that have an entry, and the broker comes to have exactly the    *)
(* filters that this client relies on.                                     *)
(***************************************************************************)
EXTENDS Subscriptions, QueueLemmas

-----------------------------------------------------------------------------
(* sorted(set(filters))                                                    *)

Sorts(s, S) ==
  /\ s \in [1 .. Cardinality(S) -> S] /\ ToSet(s) = S
  /\ \A i, j \in DOMAIN s : i < j => Before(s[i], s[j])

First(n) == {Order[k] : k \in 1 .. n}
Sortable(n) == \A S \in SUBSET First(n) : IsFiniteSet(S) /\ \E s : Sorts(s, S)

\* One more filter at the end of the order goes to the end of the list.
LEMMA SortedGrows ==
  ASSUME NEW m \in 1 .. Len(Order), Sortable(m - 1)
  PROVE  Sortable(m)
<1> SUFFICES ASSUME NEW S \in SUBSET First(m)
             PROVE  IsFiniteSet(S) /\ \E s : Sorts(s, S)
  BY DEF Sortable
<1>0. Order \in Seq(Filters) /\ DOMAIN Order = 1 .. Len(Order) /\ Len(Order) \in Nat /\ m \in Nat
  BY RequestsAssumption DEF Filters
<1> DEFINE e == Order[m]
           T == S \ {e}
<1>1. T \in SUBSET First(m - 1)
  BY <1>0 DEF First
<1>2. IsFiniteSet(T) /\ \E s : Sorts(s, T)
  BY <1>1 DEF Sortable
<1>3. CASE e \notin S
  <2>1. S = T
    BY <1>3
  <2> QED
    BY <1>2, <2>1
<1>4. CASE e \in S
  <2>1. S = T \cup {e} /\ e \notin T
    BY <1>4
  <2>2. IsFiniteSet(S) /\ Cardinality(S) = Cardinality(T) + 1 /\ Cardinality(T) \in Nat
    BY <1>2, <2>1, FS_AddElement, FS_CardinalityType
  <2>3. PICK s : Sorts(s, T)
    BY <1>2
  <2> DEFINE n == Cardinality(T)
             u == [j \in 1 .. n + 1 |-> IF j <= n THEN s[j] ELSE e]
  <2>4. s \in [1 .. n -> T] /\ ToSet(s) = T /\ \A i, j \in 1 .. n : i < j => Before(s[i], s[j])
    BY <2>3 DEF Sorts
  <2> HIDE DEF T, e, n
  <2>5. n \in Nat /\ Cardinality(S) = n + 1
    BY <2>2 DEF n
  <2>6. u \in [1 .. n + 1 -> S] /\ DOMAIN u = 1 .. n + 1
    BY <2>1, <2>4, <2>5
  <2>7. ToSet(u) = S
    <3>1. \A x \in T : \E j \in 1 .. n : x = s[j]
      BY <2>4 DEF ToSet
    <3>2. \A x \in T : \E j \in 1 .. n + 1 : x = u[j]
      BY <2>5, <3>1
    <3>3. u[n + 1] = e /\ n + 1 \in 1 .. n + 1
      BY <2>5
    <3> QED
      BY <2>1, <2>6, <3>2, <3>3 DEF ToSet
  <2>8. \A x \in T : Before(x, e)
    BY <1>0, <1>1 DEF First, Before, e
  <2>9. \A i, j \in 1 .. n + 1 : i < j => Before(u[i], u[j])
    <3> SUFFICES ASSUME NEW i \in 1 .. n + 1, NEW j \in 1 .. n + 1, i < j
                 PROVE  Before(u[i], u[j])
      OBVIOUS
    <3>1. i \in 1 .. n /\ u[i] = s[i] /\ s[i] \in T
      BY <2>4, <2>5
    <3>2. CASE j = n + 1
      BY <2>5, <2>8, <3>1, <3>2
    <3>3. CASE j # n + 1
      <4>1. j \in 1 .. n /\ u[j] = s[j]
        BY <2>5, <3>3
      <4> QED
        BY <2>4, <3>1, <4>1
    <3> QED
      BY <3>2, <3>3
  <2>10. Sorts(u, S)
    BY <2>5, <2>6, <2>7, <2>9 DEF Sorts
  <2> QED
    BY <2>2, <2>10
<1> QED
  BY <1>3, <1>4

\* Every set of filters has a sorted list: the least length of the order for which one
\* had none would contradict the step above.
LEMMA EverySortable == \A n \in 0 .. Len(Order) : Sortable(n)
<1>1. Order \in Seq(Filters) /\ Len(Order) \in Nat
  BY RequestsAssumption DEF Filters
<1>2. Sortable(0)
  <2> SUFFICES ASSUME NEW S \in SUBSET First(0) PROVE IsFiniteSet(S) /\ \E s : Sorts(s, S)
    BY DEF Sortable
  <2>1. S = {} /\ IsFiniteSet(S) /\ Cardinality(S) = 0
    BY FS_EmptySet DEF First
  <2>2. Sorts(<<>>, S)
    BY <2>1 DEF Sorts, ToSet
  <2> QED
    BY <2>1, <2>2
<1> DEFINE Bad == {n \in 0 .. Len(Order) : ~Sortable(n)}
<1>3. CASE Bad = {}
  BY <1>3
<1>4. CASE Bad # {}
  <2>1. Bad \in SUBSET Nat
    BY <1>1
  <2>2. PICK m \in Bad : \A j \in Bad : m <= j
    BY <1>4, <2>1, LeastNatural
  <2>3. m \in 1 .. Len(Order) /\ m - 1 \in 0 .. Len(Order) /\ ~Sortable(m)
    BY <1>1, <1>2, <2>2
  <2>4. m - 1 \notin Bad
    BY <2>2, <2>3
  <2>5. Sortable(m - 1)
    BY <2>3, <2>4
  <2> QED
    BY <2>3, <2>5, SortedGrows
<1> QED
  BY <1>3, <1>4

\* What sorted(set(filters)) returns.
LEMMA SortedFacts ==
  ASSUME NEW fs \in Seq(Filters)
  PROVE  /\ SortedSet(fs) \in Seq(Filters) /\ ToSet(SortedSet(fs)) = ToSet(fs)
         /\ \A i, j \in 1 .. Len(SortedSet(fs)) : i < j => Before(SortedSet(fs)[i], SortedSet(fs)[j])
<1>1. Order \in Seq(Filters) /\ Len(Order) \in Nat /\ DOMAIN Order = 1 .. Len(Order)
  BY RequestsAssumption DEF Filters
<1>2. ToSet(fs) \in SUBSET Filters
  BY DEF ToSet
<1>3. First(Len(Order)) = Filters
  BY <1>1 DEF First, Filters, ToSet
<1>4. IsFiniteSet(ToSet(fs)) /\ \E s : Sorts(s, ToSet(fs))
  BY <1>1, <1>2, <1>3, EverySortable DEF Sortable
<1> DEFINE S == ToSet(fs)
           n == Cardinality(S)
           u == SortedSet(fs)
<1>5. Sorts(u, S)
  <2>1. \E s \in [1 .. n -> S] : /\ ToSet(s) = S
                                 /\ \A i, j \in DOMAIN s : i < j => Before(s[i], s[j])
    BY <1>4 DEF Sorts
  <2> QED
    BY <2>1 DEF SortedSet, Sorts
<1>6. n \in Nat
  BY <1>4, FS_CardinalityType
<1> HIDE DEF S, n, u
<1>7. u \in [1 .. n -> S] /\ ToSet(u) = S /\ \A i, j \in 1 .. n : i < j => Before(u[i], u[j])
  BY <1>5 DEF Sorts, n
<1>8. u \in Seq(Filters) /\ Len(u) = n
  BY <1>2, <1>6, <1>7 DEF S
<1> QED
  BY <1>7, <1>8 DEF S, u

\* No filter comes before itself, and a list in ascending order of filters has no
\* member twice.
LEMMA BeforeStrict ==
  \A f, g : Before(f, g) => f # g
BY RequestsAssumption DEF Before, IsInjective

-----------------------------------------------------------------------------
(* The queues of the locks.                                                *)

\* A call that is in the try block of hold(), and its guards.
Active(c) == InBody(c) \/ call[c].phase = "acquiring"
Objs == [c \in Calls |-> IF Active(c) THEN call[c].objects ELSE <<>>]

\* The position of the first guard that it does not own.
Pos == [c \in Calls |-> IF Active(c) THEN call[c].at ELSE 0]

\* The guards are in ascending order of their filters.
Ascending(s) == \A i, j \in 1 .. Len(s) : i < j => Before(s[i][1], s[j][1])

Fields == {"phase", "request", "objects", "at", "more", "id", "answer"}

\* A call that waits for a lock waits at the guard of its position; one that is past its
\* locks has passed every guard.
CallFits(c) ==
  /\ "phase" \in DOMAIN call[c]
  /\ call[c].phase \in Waiting \cup {"idle", "acquiring", "done"}
  /\ Active(c) =>
       /\ DOMAIN call[c] = Fields
       /\ call[c].request \in Requests
       /\ call[c].objects \in Seq(Objects) /\ Ascending(call[c].objects)
       /\ {o[1] : o \in ToSet(call[c].objects)} = FiltersOf(c)
       /\ call[c].at \in 1 .. Len(call[c].objects) + 1
       /\ call[c].at <= Len(call[c].objects) <=> call[c].phase = "acquiring"

\* A call stands in the queues of its guards up to its position, and is first in all of
\* them but the last.
Lined(locks, objs, pos) ==
  /\ locks \in [Objects -> Seq(Calls)]
  /\ \A o \in Objects : IsInjective(locks[o])
  /\ \A o \in Objects, c \in Calls :
       c \in ToSet(locks[o]) <=> \E j \in 1 .. Len(objs[c]) : j <= pos[c] /\ objs[c][j] = o
  /\ \A c \in Calls : \A j \in 1 .. Len(objs[c]) : j < pos[c] => Head(locks[objs[c][j]]) = c

UsersOf(o, objs) == {c \in Calls : o \in ToSet(objs[c])}
Counted(us, objs) == us \in [Objects -> Nat] /\ \A o \in Objects : us[o] = Cardinality(UsersOf(o, objs))
Pairs(gs) == {<<f, gs[f]>> : f \in DOMAIN gs}
Listed(gs, objs) == \A o : o \in Pairs(gs) <=> \E c \in Calls : o \in ToSet(objs[c])

HoldInv ==
  /\ DOMAIN call = Calls /\ \A c \in Calls : CallFits(c)
  /\ Lined(lock, Objs, Pos)
  /\ Counted(users, Objs) /\ Listed(guards, Objs)

\* The guards of a call are distinct.
LEMMA AscendingDistinct ==
  ASSUME NEW s \in Seq(Objects), Ascending(s)
  PROVE  \A i, j \in 1 .. Len(s) : s[i] = s[j] => i = j
<1> SUFFICES ASSUME NEW i \in 1 .. Len(s), NEW j \in 1 .. Len(s), s[i] = s[j], i # j PROVE FALSE
  OBVIOUS
<1>1. i < j \/ j < i
  OBVIOUS
<1> QED
  BY <1>1, BeforeStrict DEF Ascending

\* Where acquire() suspends first.
LEMMA JoinedFacts ==
  ASSUME NEW objects \in Seq(Objects), NEW i \in 1 .. Len(objects) + 1,
         NEW locks \in [Objects -> Seq(Calls)], NEW k, k = JoinedUpTo(objects, i, locks)
  PROVE  /\ k \in i .. Len(objects) + 1
         /\ \A j \in i .. Len(objects) : j < k => locks[objects[j]] = <<>>
         /\ k <= Len(objects) => locks[objects[k]] # <<>>
<1> DEFINE taken == {j \in i .. Len(objects) : locks[objects[j]] # <<>>}
<1>1. taken \in SUBSET Nat /\ Len(objects) \in Nat /\ i \in Nat /\ taken \subseteq i .. Len(objects)
  OBVIOUS
<1>2. /\ \A j \in i .. Len(objects) : j \notin taken => locks[objects[j]] = <<>>
      /\ \A j \in taken : locks[objects[j]] # <<>>
  OBVIOUS
<1>3. k = IF taken = {} THEN Len(objects) + 1 ELSE Min(taken)
  BY DEF JoinedUpTo
<1> HIDE DEF taken
<1>4. CASE taken = {}
  BY <1>1, <1>2, <1>3, <1>4
<1>5. CASE taken # {}
  <2>1. k \in taken /\ \A j \in taken : k <= j
    <3>1. taken \in SUBSET Nat /\ taken # {}
      BY <1>1, <1>5
    <3>2. Min(taken) \in taken /\ \A j \in taken : Min(taken) <= j
      BY <3>1, LeastNatural
    <3>3. k = Min(taken)
      BY <1>3, <1>5
    <3> QED
      BY <3>2, <3>3
  <2>2. k \in i .. Len(objects) + 1
    BY <1>1, <2>1
  <2>3. \A j \in i .. Len(objects) : j < k => j \notin taken
    BY <1>1, <2>1, <2>2
  <2> QED
    BY <1>2, <2>1, <2>2, <2>3
<1> QED
  BY <1>4, <1>5

\* The locks after a call has joined the queues of its guards from i to k.
JoinedLocks(c, objects, i, k, locks) ==
  [o \in Objects |-> IF \E j \in i .. Len(objects) : j <= k /\ objects[j] = o
                     THEN Append(locks[o], c) ELSE locks[o]]

\* A call that owns its guards up to i takes the free ones behind and queues for the next.
LEMMA LinedJoins ==
  ASSUME NEW locks, NEW objs \in [Calls -> Seq(Objects)], NEW pos \in [Calls -> Nat],
         Lined(locks, objs, pos), NEW c \in Calls,
         NEW objects \in Seq(Objects), Ascending(objects), NEW i \in 1 .. Len(objects) + 1,
         \A o \in Objects :
           c \in ToSet(locks[o]) <=> \E j \in 1 .. Len(objects) : j < i /\ objects[j] = o,
         \A j \in 1 .. Len(objects) : j < i => Head(locks[objects[j]]) = c,
         NEW objs2, NEW pos2, objs2[c] = objects, pos2[c] = JoinedUpTo(objects, i, locks),
         \A d \in Calls \ {c} : objs2[d] = objs[d] /\ pos2[d] = pos[d]
  PROVE  Lined(JoinedLocks(c, objects, i, JoinedUpTo(objects, i, locks), locks), objs2, pos2)
<1> DEFINE k == JoinedUpTo(objects, i, locks)
           L == JoinedLocks(c, objects, i, k, locks)
<1>1. locks \in [Objects -> Seq(Calls)] /\ \A o \in Objects : IsInjective(locks[o])
  BY DEF Lined
<1>2. /\ k \in i .. Len(objects) + 1 /\ Len(objects) \in Nat
      /\ \A j \in i .. Len(objects) : j < k => locks[objects[j]] = <<>>
      /\ k <= Len(objects) => locks[objects[k]] # <<>>
  BY <1>1, JoinedFacts
<1>3. \A j, l \in 1 .. Len(objects) : objects[j] = objects[l] => j = l
  BY AscendingDistinct
<1> HIDE DEF k
<1> DEFINE Joins(o) == \E j \in i .. Len(objects) : j <= k /\ objects[j] = o
<1>4. \A o \in Objects : Joins(o) => c \notin ToSet(locks[o])
  BY <1>2, <1>3
<1>5. ASSUME NEW o \in Objects
      PROVE  /\ L[o] \in Seq(Calls) /\ IsInjective(L[o])
             /\ ToSet(L[o]) = IF Joins(o) THEN ToSet(locks[o]) \cup {c} ELSE ToSet(locks[o])
             /\ locks[o] # <<>> => L[o] # <<>> /\ Head(L[o]) = Head(locks[o])
             /\ Joins(o) /\ locks[o] = <<>> => Head(L[o]) = c
  <2>1. locks[o] \in Seq(Calls) /\ IsInjective(locks[o])
    BY <1>1
  <2>2. CASE Joins(o)
    <3>1. c \notin ToSet(locks[o]) /\ L[o] = Append(locks[o], c)
      BY <1>4, <2>2 DEF JoinedLocks
    <3>2. /\ Append(locks[o], c) \in Seq(Calls) /\ Append(locks[o], c) # <<>>
          /\ ToSet(Append(locks[o], c)) = ToSet(locks[o]) \cup {c}
          /\ Head(Append(locks[o], c)) = IF locks[o] = <<>> THEN c ELSE Head(locks[o])
          /\ IsInjective(locks[o]) /\ c \notin ToSet(locks[o]) => IsInjective(Append(locks[o], c))
      BY <2>1, AppendQueue
    <3> HIDE DEF Joins, L
    <3> QED
      BY <2>1, <2>2, <3>1, <3>2
  <2>3. CASE ~Joins(o)
    <3>1. L[o] = locks[o]
      BY <2>3 DEF JoinedLocks
    <3> HIDE DEF Joins, L
    <3> QED
      BY <2>1, <2>3, <3>1
  <2> QED
    BY <2>2, <2>3
<1>6. L \in [Objects -> Seq(Calls)]
  <2>1. L = [o \in Objects |-> L[o]]
    BY DEF JoinedLocks
  <2> HIDE DEF L
  <2> QED
    BY <1>5, <2>1
<1> HIDE DEF L
<1>7. ASSUME NEW o \in Objects, NEW d \in Calls
      PROVE  d \in ToSet(L[o]) <=> \E j \in 1 .. Len(objs2[d]) : j <= pos2[d] /\ objs2[d][j] = o
  <2>1. CASE d = c
    <3>1. c \in ToSet(L[o]) <=> Joins(o) \/ c \in ToSet(locks[o])
      <4>1. ToSet(L[o]) = IF Joins(o) THEN ToSet(locks[o]) \cup {c} ELSE ToSet(locks[o])
        BY <1>5
      <4> HIDE DEF Joins
      <4> QED
        BY <4>1
    <3>2. c \in ToSet(L[o]) <=> \E j \in 1 .. Len(objects) : j <= k /\ objects[j] = o
      <4>1. ASSUME NEW j \in 1 .. Len(objects), j < i, objects[j] = o
            PROVE  \E l \in 1 .. Len(objects) : l <= k /\ objects[l] = o
        BY <1>2, <4>1
      <4>2. ASSUME NEW j \in i .. Len(objects), j <= k, objects[j] = o
            PROVE  \E l \in 1 .. Len(objects) : l <= k /\ objects[l] = o
        BY <1>2, <4>2
      <4>3. ASSUME NEW j \in 1 .. Len(objects), j <= k, objects[j] = o
            PROVE  Joins(o) \/ \E l \in 1 .. Len(objects) : l < i /\ objects[l] = o
        BY <1>2, <4>3
      <4> QED
        BY <3>1, <4>1, <4>2, <4>3
    <3> QED
      BY <2>1, <3>2 DEF k
  <2>2. CASE d # c
    <3>1. d \in ToSet(L[o]) <=> d \in ToSet(locks[o])
      <4>1. ToSet(L[o]) = IF Joins(o) THEN ToSet(locks[o]) \cup {c} ELSE ToSet(locks[o])
        BY <1>5
      <4> HIDE DEF Joins
      <4> QED
        BY <2>2, <4>1
    <3>2. objs2[d] = objs[d] /\ pos2[d] = pos[d]
      BY <2>2
    <3> QED
      BY <3>1, <3>2 DEF Lined
  <2> QED
    BY <2>1, <2>2
<1>8. ASSUME NEW d \in Calls, NEW j \in 1 .. Len(objs2[d]), j < pos2[d]
      PROVE  Head(L[objs2[d][j]]) = d
  <2>1. CASE d = c
    <3>1. j \in 1 .. Len(objects) /\ j < k /\ objs2[d][j] = objects[j] /\ objects[j] \in Objects
      BY <1>8, <2>1 DEF k
    <3>2. CASE j < i
      <4>1. Head(locks[objects[j]]) = c /\ c \in ToSet(locks[objects[j]])
        BY <3>1, <3>2
      <4>2. locks[objects[j]] # <<>>
        BY <4>1 DEF ToSet
      <4> QED
        BY <1>5, <2>1, <3>1, <4>1, <4>2
    <3>3. CASE ~(j < i)
      <4>1. j \in i .. Len(objects)
        BY <3>1, <3>3
      <4>2. locks[objects[j]] = <<>> /\ Joins(objects[j])
        BY <1>2, <3>1, <4>1
      <4> HIDE DEF Joins
      <4> QED
        BY <1>5, <2>1, <3>1, <4>2
    <3> QED
      BY <3>2, <3>3
  <2>2. CASE d # c
    <3>1. j \in 1 .. Len(objs[d]) /\ j < pos[d] /\ objs2[d] = objs[d] /\ objs[d] \in Seq(Objects)
      BY <1>8, <2>2
    <3>2. objs[d][j] \in Objects
      BY <3>1
    <3>3. Head(locks[objs[d][j]]) = d /\ d \in ToSet(locks[objs[d][j]])
      BY <3>1, <3>2 DEF Lined
    <3>4. locks[objs[d][j]] # <<>>
      BY <3>3 DEF ToSet
    <3> QED
      BY <1>5, <3>1, <3>2, <3>3, <3>4
  <2> QED
    BY <2>1, <2>2
<1>9. Lined(L, objs2, pos2)
  BY <1>5, <1>6, <1>7, <1>8 DEF Lined
<1> QED
  BY <1>9 DEF L, k

\* A call leaves every queue.
LEMMA LinedLeaves ==
  ASSUME NEW locks, NEW objs \in [Calls -> Seq(Objects)], NEW pos \in [Calls -> Nat],
         Lined(locks, objs, pos), NEW c \in Calls, NEW objs2, NEW pos2, objs2[c] = <<>>,
         \A d \in Calls \ {c} : objs2[d] = objs[d] /\ pos2[d] = pos[d]
  PROVE  Lined([o \in Objects |-> RemoveFirst(locks[o], c)], objs2, pos2)
<1> DEFINE L == [o \in Objects |-> RemoveFirst(locks[o], c)]
<1>1. ASSUME NEW o \in Objects
      PROVE  /\ L[o] \in Seq(Calls) /\ IsInjective(L[o]) /\ ToSet(L[o]) = ToSet(locks[o]) \ {c}
             /\ locks[o] # <<>> /\ Head(locks[o]) # c => Head(L[o]) = Head(locks[o])
  <2>1. locks[o] \in Seq(Calls) /\ IsInjective(locks[o])
    BY DEF Lined
  <2> QED
    BY <2>1, RemoveQueue
<1>2. L \in [Objects -> Seq(Calls)]
  BY <1>1
<1> HIDE DEF L
<1>3. ASSUME NEW o \in Objects, NEW d \in Calls
      PROVE  d \in ToSet(L[o]) <=> \E j \in 1 .. Len(objs2[d]) : j <= pos2[d] /\ objs2[d][j] = o
  <2>0. ToSet(L[o]) = ToSet(locks[o]) \ {c}
    BY <1>1
  <2>1. CASE d = c
    <3>1. Len(objs2[d]) = 0 /\ d \notin ToSet(L[o])
      BY <2>0, <2>1
    <3> QED
      BY <3>1
  <2>2. CASE d # c
    <3>1. d \in ToSet(L[o]) <=> d \in ToSet(locks[o])
      BY <2>0, <2>2
    <3>2. objs2[d] = objs[d] /\ pos2[d] = pos[d]
      BY <2>2
    <3> QED
      BY <3>1, <3>2 DEF Lined
  <2> QED
    BY <2>1, <2>2
<1>4. ASSUME NEW d \in Calls, NEW j \in 1 .. Len(objs2[d]), j < pos2[d]
      PROVE  Head(L[objs2[d][j]]) = d
  <2>1. d # c
    BY <1>4
  <2>2. j \in 1 .. Len(objs[d]) /\ j < pos[d] /\ objs2[d] = objs[d] /\ objs[d] \in Seq(Objects)
    BY <1>4, <2>1
  <2>3. objs[d][j] \in Objects
    BY <2>2
  <2>4. Head(locks[objs[d][j]]) = d /\ d \in ToSet(locks[objs[d][j]])
    BY <2>2, <2>3 DEF Lined
  <2>5. locks[objs[d][j]] # <<>>
    BY <2>4 DEF ToSet
  <2> QED
    BY <1>1, <2>1, <2>2, <2>3, <2>4, <2>5
<1>5. Lined(L, objs2, pos2)
  BY <1>1, <1>2, <1>3, <1>4 DEF Lined
<1> QED
  BY <1>5 DEF L

-----------------------------------------------------------------------------
(* The guards and their users.                                             *)

\* The guards of a call that enters, and `users' with it.
EnteredObjects(c, fs) == [i \in DOMAIN fs |-> <<fs[i], GuardsFor(c, fs)[fs[i]]>>]
EnteredUsers(s) == [o \in Objects |-> users[o] + (IF Contains(s, o) THEN 1 ELSE 0)]

\* setdefault() and `users += 1' for the filters of a call.
LEMMA GuardsEntered ==
  ASSUME Objs \in [Calls -> Seq(Objects)], Counted(users, Objs), Listed(guards, Objs),
         NEW c \in Calls, Objs[c] = <<>>, NEW fs \in Seq(Filters),
         EnteredObjects(c, fs) \in Seq(Objects), NEW objs2, objs2[c] = EnteredObjects(c, fs),
         \A d \in Calls \ {c} : objs2[d] = Objs[d]
  PROVE  /\ Counted(EnteredUsers(EnteredObjects(c, fs)), objs2)
         /\ Listed(GuardsFor(c, fs), objs2)
<1> DEFINE gs == GuardsFor(c, fs)
           objects == EnteredObjects(c, fs)
           new == ToSet(objects)
           us == [o \in Objects |-> users[o] + (IF Contains(objects, o) THEN 1 ELSE 0)]
<1>1. DOMAIN fs = 1 .. Len(fs) /\ DOMAIN objects = DOMAIN fs /\ DOMAIN objects = 1 .. Len(objects)
  BY DEF EnteredObjects
<1>2. new = {<<f, gs[f]>> : f \in ToSet(fs)}
  BY <1>1 DEF ToSet, EnteredObjects
<1>3. \A o : Contains(objects, o) <=> o \in new
  BY <1>1 DEF Contains, ToSet
<1>4. ASSUME NEW o \in Objects PROVE us[o] \in Nat /\ us[o] = Cardinality(UsersOf(o, objs2))
  <2>1. /\ users[o] = Cardinality(UsersOf(o, Objs)) /\ users[o] \in Nat
        /\ IsFiniteSet(UsersOf(o, Objs)) /\ c \notin UsersOf(o, Objs)
    <3>1. UsersOf(o, Objs) \in SUBSET Calls /\ c \notin UsersOf(o, Objs)
      BY DEF UsersOf, ToSet
    <3>2. IsFiniteSet(UsersOf(o, Objs))
      BY <3>1, CallsAssumption, FS_Subset
    <3> QED
      BY <3>1, <3>2 DEF Counted
  <2>2. CASE o \in new
    <3>1. UsersOf(o, objs2) = UsersOf(o, Objs) \cup {c}
      BY <2>2 DEF UsersOf
    <3>2. Cardinality(UsersOf(o, objs2)) = Cardinality(UsersOf(o, Objs)) + 1
      BY <2>1, <3>1, FS_AddElement
    <3>3. us[o] = users[o] + 1
      BY <1>3, <2>2
    <3> QED
      BY <2>1, <3>2, <3>3
  <2>3. CASE o \notin new
    <3>1. UsersOf(o, objs2) = UsersOf(o, Objs)
      <4>1. \A d \in Calls : o \in ToSet(objs2[d]) <=> o \in ToSet(Objs[d])
        <5>1. o \notin ToSet(objs2[c]) /\ o \notin ToSet(Objs[c])
          BY <2>1, <2>3 DEF UsersOf
        <5> QED
          BY <5>1
      <4> QED
        BY <4>1 DEF UsersOf
    <3>2. us[o] = users[o]
      BY <1>3, <2>1, <2>3
    <3> QED
      BY <2>1, <3>1, <3>2
  <2> QED
    BY <2>2, <2>3
<1>5. Counted(us, objs2)
  BY <1>4 DEF Counted
<1>6. /\ DOMAIN gs = DOMAIN guards \cup ToSet(fs)
      /\ \A f \in DOMAIN gs : gs[f] = IF f \in DOMAIN guards THEN guards[f] ELSE c
  BY DEF GuardsFor
<1> HIDE DEF gs, new
<1>7. Pairs(gs) = Pairs(guards) \cup new
  BY <1>2, <1>6 DEF Pairs
<1>8. ToSet(Objs[c]) = {} /\ ToSet(objs2[c]) = new
  BY DEF ToSet, new
<1>9. Listed(gs, objs2)
  BY <1>7, <1>8 DEF Listed
<1> QED
  BY <1>5, <1>9 DEF gs, EnteredUsers

\* `users -= 1', and the guards that have users left.
LeftUsers(us, s) == [o \in Objects |-> us[o] - (IF Contains(s, o) THEN 1 ELSE 0)]
LeftGuards(gs, us, s) ==
  Restrict(gs, {f \in DOMAIN gs : \A o \in ToSet(s) : o[1] = f => us[o] # 0})

\* The end of hold(): `users -= 1', and a guard without users is dropped.
LEMMA GuardsLeft ==
  ASSUME NEW objs \in [Calls -> Seq(Objects)], NEW us, NEW gs, Counted(us, objs), Listed(gs, objs),
         NEW c \in Calls, NEW objs2, objs2[c] = <<>>, \A d \in Calls \ {c} : objs2[d] = objs[d],
         NEW us2, us2 = LeftUsers(us, objs[c]), NEW gs2, gs2 = LeftGuards(gs, us2, objs[c])
  PROVE  Counted(us2, objs2) /\ Listed(gs2, objs2)
<1> DEFINE old == ToSet(objs[c])
<1>1. DOMAIN objs[c] = 1 .. Len(objs[c]) /\ old \subseteq Objects
  BY DEF ToSet
<1>2. \A o : Contains(objs[c], o) <=> o \in old
  BY <1>1 DEF Contains, ToSet
<1>3. ToSet(objs2[c]) = {}
  BY DEF ToSet
<1>4. ASSUME NEW o \in Objects
      PROVE  us2[o] \in Nat /\ us2[o] = Cardinality(UsersOf(o, objs2)) /\ IsFiniteSet(UsersOf(o, objs2))
  <2>1. /\ us[o] = Cardinality(UsersOf(o, objs)) /\ us[o] \in Nat /\ IsFiniteSet(UsersOf(o, objs))
        /\ c \notin UsersOf(o, objs2) /\ (c \in UsersOf(o, objs) <=> o \in old)
    <3>1. UsersOf(o, objs) \in SUBSET Calls
      BY DEF UsersOf
    <3>2. IsFiniteSet(UsersOf(o, objs))
      BY <3>1, CallsAssumption, FS_Subset
    <3> QED
      BY <1>3, <3>2 DEF Counted, UsersOf
  <2>2. UsersOf(o, objs2) = UsersOf(o, objs) \ {c}
    <3>1. \A d \in Calls \ {c} : o \in ToSet(objs2[d]) <=> o \in ToSet(objs[d])
      OBVIOUS
    <3> QED
      BY <2>1, <3>1 DEF UsersOf
  <2>3. CASE o \in old
    <3>1. c \in UsersOf(o, objs)
      BY <2>1, <2>3
    <3>2. /\ IsFiniteSet(UsersOf(o, objs) \ {c})
          /\ Cardinality(UsersOf(o, objs) \ {c}) = Cardinality(UsersOf(o, objs)) - 1
      BY <2>1, <3>1, FS_RemoveElement
    <3>3. Cardinality(UsersOf(o, objs) \ {c}) \in Nat
      BY <3>2, FS_CardinalityType
    <3>4. us2[o] = us[o] - 1
      BY <1>2, <2>3 DEF LeftUsers
    <3> QED
      BY <2>1, <2>2, <3>2, <3>3, <3>4
  <2>4. CASE o \notin old
    <3>1. UsersOf(o, objs) \ {c} = UsersOf(o, objs)
      BY <2>1, <2>4
    <3>2. us2[o] = us[o]
      BY <1>2, <2>1, <2>4 DEF LeftUsers
    <3> QED
      BY <2>1, <2>2, <3>1, <3>2
  <2> QED
    BY <2>3, <2>4
<1>5. Counted(us2, objs2)
  BY <1>4 DEF Counted, LeftUsers
<1> DEFINE inUse(o) == \E d \in Calls : o \in ToSet(objs2[d])
<1>6. \A o \in Objects : us2[o] # 0 <=> inUse(o)
  <2>1. \A o \in Objects : us2[o] = 0 <=> UsersOf(o, objs2) = {}
    BY <1>4, FS_EmptySet
  <2> QED
    BY <2>1 DEF UsersOf
<1>7. \A o \in old : o \in Pairs(gs)
  BY DEF Listed
<1>8. ASSUME NEW f \in DOMAIN gs
      PROVE  (\A o \in old : o[1] = f => us2[o] # 0) <=> inUse(<<f, gs[f]>>)
  <2>1. <<f, gs[f]>> \in Pairs(gs)
    BY DEF Pairs
  <2>2. PICK d \in Calls : <<f, gs[f]>> \in ToSet(objs[d])
    BY <2>1 DEF Listed
  <2>3. \A o \in old : o[1] = f => o = <<f, gs[f]>>
    BY <1>7 DEF Pairs
  <2>4. <<f, gs[f]>> \notin old => inUse(<<f, gs[f]>>)
    BY <2>2
  <2>5. <<f, gs[f]>> \in old => (us2[<<f, gs[f]>>] # 0 <=> inUse(<<f, gs[f]>>))
    BY <1>1, <1>6
  <2>6. <<f, gs[f]>>[1] = f
    OBVIOUS
  <2> HIDE DEF inUse, old
  <2> QED
    BY <2>3, <2>4, <2>5, <2>6
<1>9. /\ DOMAIN gs2 = {f \in DOMAIN gs : \A o \in old : o[1] = f => us2[o] # 0}
      /\ \A f \in DOMAIN gs2 : gs2[f] = gs[f]
  BY DEF Restrict, LeftGuards
<1>10. DOMAIN gs2 = {f \in DOMAIN gs : inUse(<<f, gs[f]>>)}
  BY <1>8, <1>9
<1>11. \A o : o \in Pairs(gs2) <=> o \in Pairs(gs) /\ inUse(o)
  <2> HIDE DEF inUse
  <2>1. ASSUME NEW o, o \in Pairs(gs2) PROVE o \in Pairs(gs) /\ inUse(o)
    <3>1. PICK f \in DOMAIN gs2 : o = <<f, gs2[f]>>
      BY <2>1 DEF Pairs
    <3>2. f \in DOMAIN gs /\ inUse(<<f, gs[f]>>) /\ o = <<f, gs[f]>>
      BY <1>9, <1>10, <3>1
    <3> QED
      BY <3>2 DEF Pairs
  <2>2. ASSUME NEW o, o \in Pairs(gs), inUse(o) PROVE o \in Pairs(gs2)
    <3>1. PICK f \in DOMAIN gs : o = <<f, gs[f]>>
      BY <2>2 DEF Pairs
    <3>2. f \in DOMAIN gs2 /\ gs2[f] = gs[f]
      BY <1>9, <1>10, <2>2, <3>1
    <3> QED
      BY <3>1, <3>2 DEF Pairs
  <2> QED
    BY <2>1, <2>2
<1>12. \A o : inUse(o) => o \in Pairs(gs)
  <2>1. ASSUME NEW o, NEW d \in Calls, o \in ToSet(objs2[d]) PROVE o \in Pairs(gs)
    <3>1. d # c
      BY <1>3, <2>1
    <3>2. o \in ToSet(objs[d])
      BY <2>1, <3>1
    <3> QED
      BY <3>2 DEF Listed
  <2> QED
    BY <2>1
<1>13. Listed(gs2, objs2)
  BY <1>11, <1>12 DEF Listed
<1> QED
  BY <1>5, <1>13

-----------------------------------------------------------------------------
(* The steps of the calls.                                                 *)

\* What the invariant says of the guards and the positions of the calls.
LEMMA ObjsTyped ==
  ASSUME HoldInv
  PROVE  Objs \in [Calls -> Seq(Objects)] /\ Pos \in [Calls -> Nat]
BY DEF HoldInv, CallFits, Objs, Pos

\* A body returns at once or suspends.
LEMMA BodyPhase ==
  ASSUME NEW r \in Requests
  PROVE  Body(r).phase \in Waiting \cup {"done"}
<1>1. Returning.phase = "done"
  BY DEF Returning
<1>2. \A phase, op, fs, more : Sending(phase, op, fs, more).phase = phase
  BY DEF Sending, Returning
<1>3. SubscribeBody(r).phase \in {"subscribing", "done"}
  BY DEF SubscribeBody, Sending, Returning
<1>4. UnsubscribeBody(r).phase \in {"unsubscribing", "restoring", "done"}
  BY DEF UnsubscribeBody, Sending, Returning
<1>5. ObserveBody(r).phase \in {"observing", "done"}
  BY DEF ObserveBody, Sending, Returning
<1>6. UnobserveBody(r).phase \in {"unobserving", "done"}
  BY DEF UnobserveBody, Sending, Returning
<1> QED
  BY <1>3, <1>4, <1>5, <1>6, RequestsAssumption DEF Body, Waiting

\* A call that keeps its place in hold(), whatever else it does.
LEMMA CallStays ==
  ASSUME HoldInv, NEW c \in Calls, InBody(c), NEW phase \in Waiting, NEW record,
         call' = [call EXCEPT ![c] = record], DOMAIN record = Fields, record.phase = phase,
         record.request = call[c].request, record.objects = call[c].objects, record.at = call[c].at,
         UNCHANGED hold
  PROVE  HoldInv'
<1>1. call'[c] = record /\ DOMAIN call' = Calls /\ \A d \in Calls \ {c} : call'[d] = call[d]
  BY DEF HoldInv
<1>2. InBody(c)' /\ Active(c)' /\ Active(c)
  BY <1>1 DEF InBody, Active
<1>3. CallFits(c)'
  BY <1>1, <1>2 DEF HoldInv, CallFits, FiltersOf, Waiting, InBody
<1>4. \A d \in Calls \ {c} : CallFits(d)' /\ (Active(d)' <=> Active(d))
  BY <1>1 DEF HoldInv, CallFits, FiltersOf, Active, InBody
<1>5. Objs' = Objs /\ Pos' = Pos
  BY <1>1, <1>2, <1>4 DEF Objs, Pos
<1> QED
  BY <1>1, <1>3, <1>4, <1>5 DEF HoldInv, hold

\* The end of a call.
LEMMA CallEnds ==
  ASSUME HoldInv, NEW c \in Calls, Active(c), Finish(c)
  PROVE  HoldInv'
<1>1. call' = [call EXCEPT ![c].phase = "done"] /\ Leave(c, call[c].objects, guards, users, lock)
  BY DEF Finish
<1>2. /\ DOMAIN call' = Calls /\ "phase" \in DOMAIN call'[c] /\ call'[c].phase = "done"
      /\ \A d \in Calls \ {c} : call'[d] = call[d]
  BY <1>1 DEF HoldInv, CallFits
<1>3. ~Active(c)' /\ CallFits(c)'
  BY <1>2 DEF CallFits, Active, InBody, Waiting
<1>4. \A d \in Calls \ {c} : CallFits(d)' /\ (Active(d)' <=> Active(d))
  BY <1>2 DEF HoldInv, CallFits, FiltersOf, Active, InBody
<1>5. /\ Objs[c] = call[c].objects /\ Objs'[c] = <<>>
      /\ \A d \in Calls \ {c} : Objs'[d] = Objs[d] /\ Pos'[d] = Pos[d]
  BY <1>2, <1>3, <1>4 DEF Objs, Pos
<1>6. Objs \in [Calls -> Seq(Objects)] /\ Pos \in [Calls -> Nat]
  BY ObjsTyped
<1>7. /\ lock' = [o \in Objects |-> RemoveFirst(lock[o], c)]
      /\ users' = LeftUsers(users, Objs[c]) /\ guards' = LeftGuards(guards, users', Objs[c])
  BY <1>1, <1>5 DEF Leave, LeftUsers, LeftGuards
<1>8. Lined(lock, Objs, Pos) /\ Counted(users, Objs) /\ Listed(guards, Objs)
  BY DEF HoldInv
<1>9. Lined(lock', Objs', Pos')
  BY <1>5, <1>6, <1>7, <1>8, LinedLeaves
<1>10. Counted(users', Objs') /\ Listed(guards', Objs')
  BY <1>5, <1>6, <1>7, <1>8, GuardsLeft
<1> QED
  BY <1>2, <1>3, <1>4, <1>9, <1>10 DEF HoldInv

\* A call takes the locks that are free and goes on to the next suspension, or to its end.
LEMMA CallProceeds ==
  ASSUME HoldInv, NEW c \in Calls, NEW r \in Requests,
         NEW objects \in Seq(Objects), Ascending(objects),
         {o[1] : o \in ToSet(objects)} = ToSet(r.filters),
         NEW i \in 1 .. Len(objects) + 1, NEW gs, NEW us,
         Counted(us, [Objs EXCEPT ![c] = objects]), Listed(gs, [Objs EXCEPT ![c] = objects]),
         \A o \in Objects :
           c \in ToSet(lock[o]) <=> \E j \in 1 .. Len(objects) : j < i /\ objects[j] = o,
         \A j \in 1 .. Len(objects) : j < i => Head(lock[objects[j]]) = c,
         Proceed(c, r, objects, i, gs, us, lock)
  PROVE  HoldInv'
<1> DEFINE k == JoinedUpTo(objects, i, lock)
           joined == JoinedLocks(c, objects, i, k, lock)
           objs2 == [Objs EXCEPT ![c] = objects]
           pos2 == [Pos EXCEPT ![c] = k]
           phase == IF k <= Len(objects) THEN "acquiring" ELSE Body(r).phase
           record == call'[c]
<1>1. Objs \in [Calls -> Seq(Objects)] /\ Pos \in [Calls -> Nat]
  BY ObjsTyped
<1>2. lock \in [Objects -> Seq(Calls)] /\ Lined(lock, Objs, Pos)
  BY DEF HoldInv, Lined
<1>3. k \in 1 .. Len(objects) + 1 /\ Len(objects) \in Nat
  <2>1. k \in i .. Len(objects) + 1
    BY <1>2, JoinedFacts
  <2> QED
    BY <2>1
<1>4. /\ objs2[c] = objects /\ pos2[c] = k /\ objs2 \in [Calls -> Seq(Objects)] /\ pos2 \in [Calls -> Nat]
      /\ \A d \in Calls \ {c} : objs2[d] = Objs[d] /\ pos2[d] = Pos[d]
  BY <1>1, <1>3
<1>5. Lined(joined, objs2, pos2)
  BY <1>1, <1>2, <1>4, LinedJoins
<1>6. phase \in Waiting \cup {"acquiring", "done"} /\ (k <= Len(objects) <=> phase = "acquiring")
  BY <1>3, BodyPhase DEF Waiting
<1>7. /\ DOMAIN call' = Calls /\ \A d \in Calls \ {c} : call'[d] = call[d]
      /\ record.phase = phase /\ record.request = r /\ record.objects = objects /\ record.at = k
      /\ DOMAIN record = Fields
  <2>1. Returning.phase = "done" /\ [Returning EXCEPT !.phase = "acquiring"].phase = "acquiring"
    BY DEF Returning
  <2>2. \E more, id : call' = [call EXCEPT ![c] = [phase |-> phase, request |-> r, objects |-> objects,
                                     at |-> k, more |-> more, id |-> id, answer |-> None]]
    <3>1. LET body == IF k <= Len(objects) THEN [Returning EXCEPT !.phase = "acquiring"] ELSE Body(r)
          IN  /\ body.phase = phase
              /\ call' = [call EXCEPT ![c] = [phase |-> body.phase, request |-> r, objects |-> objects,
                                     at |-> k, more |-> body.more, id |-> NextId(c), answer |-> None]]
      BY <2>1 DEF Proceed
    <3> QED
      BY <3>1
  <2>3. DOMAIN call = Calls
    BY DEF HoldInv
  <2> QED
    BY <2>2, <2>3 DEF Fields
<1>8. IF phase = "done" THEN Leave(c, objects, gs, us, joined) ELSE Stay(gs, us, joined)
  <2>1. [Returning EXCEPT !.phase = "acquiring"].phase = "acquiring"
    BY DEF Returning
  <2> QED
    BY <2>1 DEF Proceed, JoinedLocks
<1>9. \A d \in Calls \ {c} : CallFits(d)' /\ (Active(d)' <=> Active(d))
  BY <1>7 DEF HoldInv, CallFits, FiltersOf, Active, InBody
<1>10. /\ Active(c)' <=> phase # "done"
       /\ Objs'[c] = IF phase = "done" THEN <<>> ELSE objects
       /\ Pos'[c] = IF phase = "done" THEN 0 ELSE k
       /\ \A d \in Calls \ {c} : Objs'[d] = Objs[d] /\ Pos'[d] = Pos[d]
  <2>1. Active(c)' <=> phase # "done"
    BY <1>6, <1>7 DEF Active, InBody, Waiting
  <2> HIDE DEF phase, k, record
  <2> QED
    BY <1>7, <1>9, <2>1 DEF Objs, Pos, record
<1> HIDE DEF k, joined, objs2, pos2, phase, record
<1>11. CallFits(c)'
  <2>1. record.phase = phase /\ "phase" \in DOMAIN record /\ record = call'[c]
    BY <1>7 DEF Fields, record
  <2>2. FiltersOf(c)' = ToSet(r.filters)
    BY <1>7, <2>1 DEF FiltersOf
  <2> QED
    BY <1>3, <1>6, <1>7, <1>10, <2>1, <2>2 DEF CallFits
<1>12. Counted(us, objs2) /\ Listed(gs, objs2)
  BY DEF objs2
<1>13. Lined(lock', Objs', Pos') /\ Counted(users', Objs') /\ Listed(guards', Objs')
  <2>1. CASE phase = "done"
    <3>1. Objs'[c] = <<>> /\ \A d \in Calls \ {c} : Objs'[d] = objs2[d] /\ Pos'[d] = pos2[d]
      BY <1>4, <1>10, <2>1
    <3>2. /\ lock' = [o \in Objects |-> RemoveFirst(joined[o], c)]
          /\ users' = LeftUsers(us, objs2[c]) /\ guards' = LeftGuards(gs, users', objs2[c])
      BY <1>4, <1>8, <2>1 DEF Leave, LeftUsers, LeftGuards
    <3>3. Lined(lock', Objs', Pos')
      BY <1>4, <1>5, <3>1, <3>2, LinedLeaves
    <3>4. Counted(users', Objs') /\ Listed(guards', Objs')
      <4>1. /\ objs2 \in [Calls -> Seq(Objects)] /\ Objs'[c] = <<>>
            /\ \A d \in Calls \ {c} : Objs'[d] = objs2[d]
            /\ users' = LeftUsers(us, objs2[c]) /\ guards' = LeftGuards(gs, users', objs2[c])
        BY <1>4, <3>1, <3>2
      <4> QED
        BY <1>12, <4>1, GuardsLeft
    <3> QED
      BY <3>3, <3>4
  <2>2. CASE phase # "done"
    <3>1. Objs' = objs2 /\ Pos' = pos2
      <4>1. \A d \in Calls : Objs'[d] = objs2[d] /\ Pos'[d] = pos2[d]
        BY <1>4, <1>10, <2>2
      <4>2. Objs' = [d \in Calls |-> Objs'[d]] /\ Pos' = [d \in Calls |-> Pos'[d]]
        BY DEF Objs, Pos
      <4> QED
        BY <1>4, <4>1, <4>2
    <3>2. lock' = joined /\ users' = us /\ guards' = gs
      BY <1>8, <2>2 DEF Stay
    <3> QED
      BY <1>5, <1>12, <3>1, <3>2
  <2> QED
    BY <2>1, <2>2
<1> QED
  BY <1>7, <1>9, <1>11, <1>13 DEF HoldInv

\* hold() from the start: setdefault() for the sorted filters, then the locks.
LEMMA BeginHolds ==
  ASSUME HoldInv, NEW c \in Calls, NEW r \in Requests, Begin(c, r)
  PROVE  HoldInv'
<1> DEFINE fs == SortedSet(r.filters)
           gs == GuardsFor(c, fs)
           objects == [i \in DOMAIN fs |-> <<fs[i], gs[fs[i]]>>]
           us == [o \in Objects |-> users[o] + (IF Contains(objects, o) THEN 1 ELSE 0)]
           objs2 == [Objs EXCEPT ![c] = objects]
<1>1. call[c].phase = "idle" /\ Proceed(c, r, objects, 1, gs, us, lock)
  BY DEF Begin
<1>2. /\ fs \in Seq(Filters) /\ ToSet(fs) = ToSet(r.filters)
      /\ \A i, j \in 1 .. Len(fs) : i < j => Before(fs[i], fs[j])
  <2>1. r.filters \in Seq(Filters)
    BY RequestsAssumption DEF Filters
  <2> QED
    BY <2>1, SortedFacts
<1>3. Objs \in [Calls -> Seq(Objects)] /\ Pos \in [Calls -> Nat]
  BY ObjsTyped
<1>4. Objs[c] = <<>> /\ Pos[c] = 0
  BY <1>1 DEF Objs, Pos, Active, InBody, Waiting
<1>5. /\ DOMAIN gs = DOMAIN guards \cup ToSet(fs)
      /\ \A f \in DOMAIN gs : gs[f] = IF f \in DOMAIN guards THEN guards[f] ELSE c
  BY DEF GuardsFor
<1>6. \A f \in DOMAIN guards : guards[f] \in Calls
  <2> SUFFICES ASSUME NEW f \in DOMAIN guards PROVE guards[f] \in Calls
    OBVIOUS
  <2>1. <<f, guards[f]>> \in Pairs(guards)
    BY DEF Pairs
  <2>2. PICK d \in Calls : <<f, guards[f]>> \in ToSet(Objs[d])
    BY <2>1 DEF HoldInv, Listed
  <2>3. Objs[d] \in Seq(Objects)
    BY <1>3
  <2>4. <<f, guards[f]>> \in Objects
    BY <2>2, <2>3 DEF ToSet
  <2> QED
    BY <2>4 DEF Objects
<1> HIDE DEF fs, gs
<1>7. DOMAIN fs = 1 .. Len(fs) /\ Len(fs) \in Nat
  BY <1>2
<1>8. ASSUME NEW i \in 1 .. Len(fs)
      PROVE  objects[i] \in Objects /\ objects[i] = <<fs[i], gs[fs[i]]>> /\ objects[i][1] = fs[i]
  <2>1. fs[i] \in ToSet(fs) /\ fs[i] \in Filters
    BY <1>2, <1>7 DEF ToSet
  <2>2. gs[fs[i]] \in Calls
    BY <1>5, <1>6, <2>1
  <2> QED
    BY <1>7, <2>1, <2>2 DEF Objects
<1>9. objects \in Seq(Objects) /\ Len(objects) = Len(fs)
  <2>1. objects \in [1 .. Len(fs) -> Objects]
    BY <1>7, <1>8
  <2> HIDE DEF objects
  <2> QED
    BY <1>7, <2>1
<1>10. Ascending(objects)
  BY <1>2, <1>8, <1>9 DEF Ascending
<1>11. {o[1] : o \in ToSet(objects)} = ToSet(r.filters)
  <2>1. DOMAIN objects = DOMAIN fs
    OBVIOUS
  <2>2. ToSet(objects) = {objects[i] : i \in 1 .. Len(fs)} /\ ToSet(fs) = {fs[i] : i \in 1 .. Len(fs)}
    BY <1>7, <2>1 DEF ToSet
  <2> HIDE DEF objects
  <2> QED
    BY <1>2, <1>8, <2>2
<1>12. objects = EnteredObjects(c, fs)
  BY DEF gs, EnteredObjects
<1> HIDE DEF objects
<1>13. objs2[c] = objects /\ \A d \in Calls \ {c} : objs2[d] = Objs[d]
  BY <1>3
<1> HIDE DEF objs2
<1>14. Counted(us, objs2) /\ Listed(gs, objs2)
  <2>1. Counted(users, Objs) /\ Listed(guards, Objs)
    BY DEF HoldInv
  <2>2. Counted(EnteredUsers(objects), objs2) /\ Listed(GuardsFor(c, fs), objs2)
    <3>1. /\ fs \in Seq(Filters) /\ EnteredObjects(c, fs) \in Seq(Objects)
          /\ Objs[c] = <<>> /\ Objs \in [Calls -> Seq(Objects)]
      BY <1>2, <1>3, <1>4, <1>9, <1>12
    <3>2. objs2[c] = EnteredObjects(c, fs) /\ \A d \in Calls \ {c} : objs2[d] = Objs[d]
      BY <1>12, <1>13
    <3> QED
      BY <1>12, <2>1, <3>1, <3>2, GuardsEntered
  <2> QED
    BY <2>2 DEF gs, EnteredUsers
<1>15. \A o \in Objects : c \notin ToSet(lock[o])
  <2>1. Len(Objs[c]) = 0
    BY <1>4
  <2> QED
    BY <2>1 DEF HoldInv, Lined
<1>16. 1 \in 1 .. Len(objects) + 1
  BY <1>7, <1>9
<1>17. /\ \A o \in Objects :
            c \in ToSet(lock[o]) <=> \E j \in 1 .. Len(objects) : j < 1 /\ objects[j] = o
       /\ \A j \in 1 .. Len(objects) : j < 1 => Head(lock[objects[j]]) = c
  BY <1>15
<1> HIDE DEF us
<1>18. Counted(us, [Objs EXCEPT ![c] = objects]) /\ Listed(gs, [Objs EXCEPT ![c] = objects])
  BY <1>14 DEF objs2
<1> QED
  BY <1>1, <1>9, <1>10, <1>11, <1>16, <1>17, <1>18, CallProceeds

\* The lock a call waited for is its own: it goes on behind it.
LEMMA AcquiredHolds ==
  ASSUME HoldInv, NEW c \in Calls, Acquired(c)
  PROVE  HoldInv'
<1> DEFINE objects == call[c].objects
           i == call[c].at
           r == call[c].request
<1>1. /\ call[c].phase = "acquiring" /\ Head(lock[objects[i]]) = c
      /\ Proceed(c, r, objects, i + 1, guards, users, lock)
  BY DEF Acquired
<1>2. Active(c) /\ CallFits(c)
  BY <1>1 DEF HoldInv, Active
<1>3. /\ r \in Requests /\ objects \in Seq(Objects) /\ Ascending(objects)
      /\ {o[1] : o \in ToSet(objects)} = ToSet(r.filters)
      /\ i \in 1 .. Len(objects)
  BY <1>1, <1>2 DEF CallFits, FiltersOf
<1>4. Objs[c] = objects /\ Pos[c] = i /\ [Objs EXCEPT ![c] = objects] = Objs
  BY <1>2 DEF Objs, Pos
<1>5. Counted(users, [Objs EXCEPT ![c] = objects]) /\ Listed(guards, [Objs EXCEPT ![c] = objects])
  BY <1>4 DEF HoldInv
<1> HIDE DEF objects, i, r
<1>6. \A o \in Objects :
        c \in ToSet(lock[o]) <=> \E j \in 1 .. Len(objects) : j <= i /\ objects[j] = o
  BY <1>4 DEF HoldInv, Lined
<1>7. \A j \in 1 .. Len(objects) : j < i => Head(lock[objects[j]]) = c
  BY <1>4 DEF HoldInv, Lined
<1>8. Len(objects) \in Nat /\ i \in Nat /\ i + 1 \in 1 .. Len(objects) + 1
  BY <1>3
<1>9. /\ \A o \in Objects :
           c \in ToSet(lock[o]) <=> \E j \in 1 .. Len(objects) : j < i + 1 /\ objects[j] = o
      /\ \A j \in 1 .. Len(objects) : j < i + 1 => Head(lock[objects[j]]) = c
  <2>1. \A j \in 1 .. Len(objects) : j < i + 1 <=> j <= i
    BY <1>8
  <2>2. \A j \in 1 .. Len(objects) : j < i + 1 => j < i \/ j = i
    BY <1>8
  <2> QED
    BY <1>1, <1>6, <1>7, <2>1, <2>2
<1> QED
  BY <1>1, <1>3, <1>5, <1>8, <1>9, CallProceeds

\* Every step keeps the queues and the counts.
LEMMA HoldStep ==
  ASSUME HoldInv, [Next]_vars
  PROVE  HoldInv'
<1>1. ASSUME NEW c \in Calls, NEW r \in Requests, Begin(c, r) PROVE HoldInv'
  BY <1>1, BeginHolds
<1>2. ASSUME NEW c \in Calls, Acquired(c) PROVE HoldInv'
  BY <1>2, AcquiredHolds
<1>3. ASSUME NEW c \in Calls, Answer(c) PROVE HoldInv'
  <2> DEFINE answer == IF Refused(Head(wire), c) THEN "refused" ELSE "accepted"
             record == [call[c] EXCEPT !.answer = answer]
  <2>1. InBody(c) /\ call' = [call EXCEPT ![c].answer = answer] /\ UNCHANGED hold
    BY <1>3 DEF Answer, Registered
  <2>2. DOMAIN call[c] = Fields /\ call[c].phase \in Waiting
    BY <2>1 DEF HoldInv, CallFits, Active, InBody
  <2> HIDE DEF answer
  <2>3. /\ DOMAIN record = Fields /\ record.phase = call[c].phase /\ record.at = call[c].at
        /\ record.request = call[c].request /\ record.objects = call[c].objects
    BY <2>2 DEF Fields
  <2>4. call' = [call EXCEPT ![c] = record]
    BY <2>1 DEF HoldInv
  <2> QED
    BY <2>1, <2>2, <2>3, <2>4, CallStays
<1>4. ASSUME NEW c \in Calls, Resume(c) PROVE HoldInv'
  <2>1. InBody(c) /\ Active(c)
    BY <1>4 DEF Resume, Active
  <2>2. CASE call[c].phase = "unsubscribing" /\ call[c].more # <<>> /\ ~dead
    <3> DEFINE record == [call[c] EXCEPT !.phase = "restoring", !.id = NextId(c), !.answer = None]
    <3>1. /\ call' = [call EXCEPT ![c].phase = "restoring", ![c].id = NextId(c), ![c].answer = None]
          /\ UNCHANGED hold
      BY <1>4, <2>2 DEF Resume
    <3>2. DOMAIN call[c] = Fields
      BY <2>1 DEF HoldInv, CallFits
    <3>3. /\ DOMAIN record = Fields /\ record.phase = "restoring" /\ record.at = call[c].at
          /\ record.request = call[c].request /\ record.objects = call[c].objects
      BY <3>2 DEF Fields
    <3>4. call' = [call EXCEPT ![c] = record]
      BY <3>1 DEF HoldInv
    <3>5. "restoring" \in Waiting
      BY DEF Waiting
    <3> QED
      BY <2>1, <3>1, <3>3, <3>4, <3>5, CallStays
  <2>3. CASE ~(call[c].phase = "unsubscribing" /\ call[c].more # <<>> /\ ~dead)
    BY <1>4, <2>1, <2>3, CallEnds DEF Resume
  <2> QED
    BY <2>2, <2>3
<1>5. ASSUME NEW c \in Calls, Cancel(c) PROVE HoldInv'
  BY <1>5, CallEnds DEF Cancel, Active, InBody
<1>6. ASSUME NEW c \in Calls, Fail(c) PROVE HoldInv'
  BY <1>6, CallEnds DEF Fail, Active
<1>7. ASSUME UNCHANGED <<hold, call>> PROVE HoldInv'
  BY <1>7 DEF HoldInv, hold, CallFits, Objs, Pos, Active, InBody, FiltersOf
<1> QED
  BY <1>1, <1>2, <1>3, <1>4, <1>5, <1>6, <1>7 DEF Next, vars, hold, AnswerNobody, Lose

\* Nobody holds or awaits a guard before the first call.
LEMMA HoldInit == Init => HoldInv
<1> SUFFICES ASSUME Init PROVE HoldInv
  OBVIOUS
<1>1. DOMAIN call = Calls /\ \A c \in Calls : call[c] = NotCalled /\ CallFits(c) /\ ~Active(c)
  BY DEF Init, NotCalled, CallFits, Active, InBody, Waiting
<1>2. \A c \in Calls : Objs[c] = <<>> /\ Pos[c] = 0
  BY <1>1 DEF Objs, Pos
<1>3. \A c \in Calls : Len(Objs[c]) = 0 /\ ToSet(Objs[c]) = {}
  BY <1>2 DEF ToSet
<1>4. Lined(lock, Objs, Pos)
  BY <1>3 DEF Init, Lined, ToSet, IsInjective
<1>5. Counted(users, Objs)
  <2>1. \A o \in Objects : UsersOf(o, Objs) = {}
    BY <1>3 DEF UsersOf
  <2>2. Cardinality({}) = 0
    BY FS_EmptySet
  <2> QED
    BY <2>1, <2>2 DEF Init, Counted
<1>6. Listed(guards, Objs)
  BY <1>3 DEF Init, Listed, Pairs
<1> QED
  BY <1>1, <1>4, <1>5, <1>6 DEF HoldInv

-----------------------------------------------------------------------------
(* hold() serialises, counts its users and never deadlocks.                *)

\* The invariant of hold() holds in every reachable state.
LEMMA HoldAlways == Spec => []HoldInv
BY HoldInit, HoldStep, PTL DEF Spec

\* A call past its locks is first in the queue of the guard of each of its filters.
LEMMA PastLocksFirst ==
  ASSUME HoldInv, NEW e \in Calls, InBody(e), NEW f \in FiltersOf(e)
  PROVE  \E o \in Pairs(guards) : o \in Objects /\ o[1] = f /\ Head(lock[o]) = e /\ lock[o] # <<>>
<1>1. Active(e) /\ CallFits(e) /\ call[e].phase # "acquiring"
  BY DEF HoldInv, Active, InBody, Waiting
<1>2. /\ call[e].objects \in Seq(Objects) /\ call[e].at = Len(call[e].objects) + 1
      /\ {o[1] : o \in ToSet(call[e].objects)} = FiltersOf(e)
  BY <1>1 DEF CallFits
<1>3. Objs[e] = call[e].objects /\ Pos[e] = call[e].at
  BY <1>1 DEF Objs, Pos
<1>4. PICK o \in ToSet(Objs[e]) : o[1] = f
  BY <1>2, <1>3
<1>5. PICK j \in 1 .. Len(Objs[e]) : Objs[e][j] = o
  BY <1>2, <1>3, <1>4 DEF ToSet
<1>6. j < Pos[e] /\ o \in Objects
  BY <1>2, <1>3, <1>5
<1>7. Head(lock[o]) = e
  BY <1>5, <1>6 DEF HoldInv, Lined
<1>8. e \in ToSet(lock[o])
  <2>1. j <= Pos[e]
    BY <1>2, <1>3, <1>6
  <2>2. \E l \in 1 .. Len(Objs[e]) : l <= Pos[e] /\ Objs[e][l] = o
    BY <1>5, <2>1
  <2> QED
    BY <1>6, <2>2 DEF HoldInv, Lined
<1>9. lock[o] # <<>>
  BY <1>8 DEF ToSet
<1>10. o \in Pairs(guards)
  BY <1>4 DEF HoldInv, Listed
<1> QED
  BY <1>4, <1>6, <1>7, <1>9, <1>10

\* Two calls that are past their locks would both stand first in the queue of a guard they
\* share, and the guard of a filter is the same for both.
LEMMA PastLocksExclude ==
  ASSUME HoldInv
  PROVE  Exclusion
<1> SUFFICES ASSUME NEW c \in Calls, NEW d \in Calls, c # d, InBody(c), InBody(d),
                    NEW f, f \in FiltersOf(c), f \in FiltersOf(d)
             PROVE  FALSE
  BY DEF Exclusion
<1>1. PICK o \in Pairs(guards) : o[1] = f /\ Head(lock[o]) = c
  BY PastLocksFirst
<1>2. PICK p \in Pairs(guards) : p[1] = f /\ Head(lock[p]) = d
  BY PastLocksFirst
<1>3. o = p
  BY <1>1, <1>2 DEF Pairs
<1> QED
  BY <1>1, <1>2, <1>3

\* hold() serialises: calls past their locks never share a filter.
THEOREM ExclusionHolds == Spec => []Exclusion
BY HoldAlways, PastLocksExclude, PTL

\* The count of users is exact and no guard leaks, however calls leave hold().
THEOREM GuardsCountedHolds == Spec => []GuardsCounted
<1>1. ASSUME HoldInv PROVE GuardsCounted
  <2>1. \A c \in Calls : Using(c) = ToSet(Objs[c])
    BY DEF Using, Objs, Active, ToSet
  <2>2. \A o \in Objects : {c \in Calls : o \in Using(c)} = UsersOf(o, Objs)
    BY <2>1 DEF UsersOf
  <2>3. \A o \in Objects : users[o] = Cardinality({c \in Calls : o \in Using(c)})
    BY <1>1, <2>2 DEF HoldInv, Counted
  <2>4. Pairs(guards) = UNION {Using(c) : c \in Calls}
    BY <1>1, <2>1 DEF HoldInv, Listed
  <2> QED
    BY <2>3, <2>4 DEF GuardsCounted, Pairs
<1> QED
  BY <1>1, HoldAlways, PTL

\* Of any calls that wait for locks, one that waits for the filter that comes last waits
\* for a call that owns it: that call waits for a later filter, or not for these calls.
LEMMA LastWaiterIsFree ==
  ASSUME HoldInv
  PROVE  NoWaitCycle
<1> DEFINE waiting == {c \in Calls : call[c].phase = "acquiring"}
           Owner(c) == Head(lock[call[c].objects[call[c].at]])
<1> SUFFICES ASSUME NEW circle \in SUBSET waiting, circle # {},
                    \A c \in circle : Owner(c) # c /\ Owner(c) \in circle
             PROVE  FALSE
  BY DEF NoWaitCycle
<1>1. Order \in Seq(Filters) /\ Len(Order) \in Nat /\ DOMAIN Order = 1 .. Len(Order) /\ IsInjective(Order)
  BY RequestsAssumption DEF Filters
<1> DEFINE filter(c) == call[c].objects[call[c].at][1]
<1>2. ASSUME NEW c \in circle
      PROVE  /\ c \in Calls /\ Objs[c] \in Seq(Objects) /\ Ascending(Objs[c])
             /\ Pos[c] \in 1 .. Len(Objs[c]) /\ Objs[c][Pos[c]] \in Objects
             /\ Owner(c) = Head(lock[Objs[c][Pos[c]]])
             /\ filter(c) = Objs[c][Pos[c]][1] /\ filter(c) \in Filters
  <2>1. c \in Calls /\ call[c].phase = "acquiring" /\ Active(c) /\ CallFits(c)
    BY DEF HoldInv, Active
  <2>2. Objs[c] = call[c].objects /\ Pos[c] = call[c].at
    BY <2>1 DEF Objs, Pos
  <2>3. Objs[c] \in Seq(Objects) /\ Ascending(Objs[c]) /\ Pos[c] \in 1 .. Len(Objs[c])
    BY <2>1, <2>2 DEF CallFits
  <2>4. Objs[c][Pos[c]] \in Objects
    BY <2>3
  <2> QED
    BY <2>1, <2>2, <2>3, <2>4 DEF Objects
<1>3. ASSUME NEW c \in circle PROVE Before(filter(c), filter(Owner(c)))
  <2> DEFINE o == Objs[c][Pos[c]]
             d == Owner(c)
  <2>1. c \in ToSet(lock[o])
    <3>1. \E j \in 1 .. Len(Objs[c]) : j <= Pos[c] /\ Objs[c][j] = o
      BY <1>2
    <3> QED
      BY <1>2, <3>1 DEF HoldInv, Lined
  <2>2. d \in circle /\ d # c /\ d \in Calls /\ d = Head(lock[o]) /\ o \in Objects
    BY <1>2
  <2> HIDE DEF d, o
  <2>3. d \in ToSet(lock[o])
    <3>1. lock[o] \in Seq(Calls) /\ lock[o] # <<>>
      BY <2>1, <2>2 DEF HoldInv, Lined, ToSet
    <3> QED
      BY <2>2, <3>1, TailQueue
  <2>4. PICK j \in 1 .. Len(Objs[d]) : j <= Pos[d] /\ Objs[d][j] = o
    BY <2>2, <2>3 DEF HoldInv, Lined
  <2>5. j # Pos[d]
    <3>1. SUFFICES ASSUME j = Pos[d] PROVE FALSE
      OBVIOUS
    <3>2. Owner(d) = Head(lock[Objs[d][Pos[d]]])
      BY <1>2, <2>2
    <3>3. Owner(d) = d
      BY <2>2, <2>4, <3>1, <3>2
    <3> QED
      BY <2>2, <3>3
  <2>6. Objs[d] \in Seq(Objects) /\ Ascending(Objs[d]) /\ Pos[d] \in 1 .. Len(Objs[d])
    BY <1>2, <2>2
  <2>7. j < Pos[d]
    BY <2>4, <2>5, <2>6
  <2>8. Before(Objs[d][j][1], Objs[d][Pos[d]][1])
    BY <2>6, <2>7 DEF Ascending
  <2>9. filter(c) = o[1] /\ filter(d) = Objs[d][Pos[d]][1]
    BY <1>2, <2>2 DEF o
  <2> QED
    BY <2>4, <2>8, <2>9 DEF d
<1> HIDE DEF Owner, filter, waiting
\* The distance of the awaited filter from the end of the order.
<1> DEFINE distances == {n \in Nat : \E c \in circle, i \in 1 .. Len(Order) :
                                         Order[i] = filter(c) /\ n = Len(Order) - i}
<1>4. \A c \in circle : \E i \in 1 .. Len(Order) : Order[i] = filter(c)
  BY <1>1, <1>2 DEF Filters, ToSet
<1>5. distances \in SUBSET Nat /\ distances # {}
  <2>1. PICK c \in circle : TRUE
    OBVIOUS
  <2>2. PICK i \in 1 .. Len(Order) : Order[i] = filter(c)
    BY <1>4, <2>1
  <2>3. Len(Order) - i \in Nat
    BY <1>1
  <2> QED
    BY <2>1, <2>2, <2>3
<1>6. PICK n \in distances : \A m \in distances : n <= m
  BY <1>5, LeastNatural
<1>7. PICK c \in circle, i \in 1 .. Len(Order) : Order[i] = filter(c) /\ n = Len(Order) - i
  BY <1>6
<1>8. PICK k, l \in DOMAIN Order : k < l /\ Order[k] = filter(c) /\ Order[l] = filter(Owner(c))
  BY <1>3, <1>7 DEF Before
<1>9. k = i
  BY <1>1, <1>7, <1>8 DEF IsInjective
<1>10. Owner(c) \in circle /\ l \in 1 .. Len(Order) /\ Len(Order) - l \in Nat
  BY <1>1, <1>7, <1>8 DEF Owner
<1>11. Len(Order) - l \in distances
  BY <1>8, <1>10
<1>12. n <= Len(Order) - l
  BY <1>6, <1>11
<1> HIDE DEF distances
<1>13. n = Len(Order) - i /\ i < l /\ i \in Nat /\ l \in Nat
  BY <1>1, <1>7, <1>8, <1>9, <1>10
<1> QED
  BY <1>1, <1>12, <1>13

\* Calls never wait for each other in a circle: this is what the sort in hold() is for.
THEOREM NoWaitCycleHolds == Spec => []NoWaitCycle
BY HoldAlways, LastWaiterIsFree, PTL

-----------------------------------------------------------------------------
(* Lists of filters.                                                       *)

\* A list comprehension has the members at the chosen positions, each once if they differ.
LEMMA PickedFacts ==
  ASSUME NEW T, NEW s \in Seq(T), NEW I \in SUBSET (1 .. Len(s))
  PROVE  /\ Picked(s, I) \in Seq(T)
         /\ ToSet(Picked(s, I)) = {s[i] : i \in I}
         /\ (\A i, j \in I : s[i] = s[j] => i = j) => IsInjective(Picked(s, I))
<1> DEFINE n == Len(s)
           Turn(x, k) == IF k \in I THEN Append(x, s[k]) ELSE x
           Defines(g) == g = [k \in 0 .. n |-> IF k = 0 THEN <<>>
                                               ELSE IF k \in I THEN Append(g[k - 1], s[k]) ELSE g[k - 1]]
           kept == CHOOSE g : Defines(g)
<1>1. n \in Nat /\ \A k \in 1 .. n : s[k] \in T
  OBVIOUS
<1>2. Picked(s, I) = kept[n]
  BY Zenon DEF Picked
<1>3. \E g : Defines(g)
  <2> DEFINE turn == [k \in 1 .. n |-> [x \in Seq(T) |-> Turn(x, k)]]
  <2>1. ASSUME NEW k \in 1 .. n, NEW x \in Seq(T) PROVE Turn(x, k) \in Seq(T)
    BY <1>1
  <2>2. turn \in [1 .. n -> [Seq(T) -> Seq(T)]]
    BY <2>1
  <2>3. <<>> \in Seq(T)
    OBVIOUS
  <2> HIDE DEF n
  <2>4. PICK f : Looped(f, Seq(T), <<>>, n, turn)
    <3> HIDE DEF turn
    <3> QED
      BY <1>1, <2>2, <2>3, LoopExists, Zenon
  <2>5. ASSUME NEW k \in 1 .. n PROVE f[k] = Turn(f[k - 1], k)
    <3>1. f[k - 1] \in Seq(T)
      BY <1>1, <2>4 DEF Looped
    <3> QED
      BY <2>4, <3>1 DEF Looped
  <2>6. ASSUME NEW k \in 0 .. n
        PROVE  f[k] = IF k = 0 THEN <<>> ELSE IF k \in I THEN Append(f[k - 1], s[k]) ELSE f[k - 1]
    <3>1. CASE k = 0
      BY <2>4, <3>1 DEF Looped
    <3>2. CASE k # 0
      <4>1. k \in 1 .. n
        BY <1>1, <3>2
      <4> QED
        BY <2>5, <3>2, <4>1
    <3> QED
      BY <3>1, <3>2
  <2>7. Defines(f)
    BY <2>4, <2>6 DEF Looped
  <2> QED
    BY <2>7, Zenon
<1>4. Defines(kept)
  BY <1>3, Zenon
<1>5. kept[0] = <<>> /\ \A k \in 1 .. n : kept[k] = Turn(kept[k - 1], k)
  <2>1. \A k \in 0 .. n : kept[k] = IF k = 0 THEN <<>>
                                    ELSE IF k \in I THEN Append(kept[k - 1], s[k]) ELSE kept[k - 1]
    BY <1>4, Zenon
  <2> HIDE DEF kept, n
  <2>2. \A k \in 1 .. n : k \in 0 .. n /\ k # 0
    BY <1>1
  <2> QED
    BY <1>1, <2>1, <2>2
<1> HIDE DEF kept, n, Defines
<1> DEFINE Distinct == \A i, j \in I : s[i] = s[j] => i = j
           Upto(k) == {i \in I : i <= k}
           Fine(k) == /\ kept[k] \in Seq(T) /\ ToSet(kept[k]) = {s[i] : i \in Upto(k)}
                      /\ Distinct => IsInjective(kept[k])
           Good == {k \in 0 .. n : Fine(k)}
<1>6. \A i \in I : i \in Nat /\ 1 <= i /\ i <= n
  BY DEF n
<1>7. 0 \in Good
  <2>1. \A i \in I : ~(i <= 0)
    BY <1>6
  <2>2. {s[i] : i \in Upto(0)} = {}
    BY <2>1, Zenon
  <2>3. ToSet(<<>>) = {} /\ IsInjective(<<>>)
    BY DEF ToSet, IsInjective
  <2>4. ToSet(kept[0]) = {} /\ IsInjective(kept[0]) /\ kept[0] \in Seq(T)
    BY <1>5, <2>3
  <2>5. Fine(0)
    BY <2>2, <2>4, Zenon
  <2> HIDE DEF Fine
  <2> QED
    BY <1>1, <2>5
<1>8. ASSUME NEW k \in 1 .. n, k - 1 \in Good PROVE k \in Good
  <2>1. Fine(k - 1) /\ kept[k] = Turn(kept[k - 1], k) /\ k \in 0 .. n
    BY <1>1, <1>5, <1>8
  <2>2. CASE k \notin I
    <3>1. Upto(k) = Upto(k - 1) /\ kept[k] = kept[k - 1]
      <4>1. \A i \in I : i <= k <=> i <= k - 1
        BY <1>1, <1>6, <2>2
      <4> QED
        BY <2>1, <2>2, <4>1
    <3> HIDE DEF Upto
    <3> QED
      BY <2>1, <3>1
  <2>3. CASE k \in I
    <3>1. kept[k] = Append(kept[k - 1], s[k]) /\ s[k] \in T
      BY <1>1, <2>1, <2>3
    <3>2. Upto(k) = Upto(k - 1) \cup {k}
      <4>1. \A i \in I : i <= k <=> i <= k - 1 \/ i = k
        BY <1>1, <1>6
      <4> QED
        BY <1>1, <2>3, <4>1
    <3>3. \A i \in Upto(k - 1) : i \in I /\ i # k
      BY <1>6
    <3>4. Distinct => s[k] \notin {s[i] : i \in Upto(k - 1)}
      BY <2>3, <3>3
    <3> HIDE DEF Upto, Distinct
    <3>5. {s[i] : i \in Upto(k)} = {s[i] : i \in Upto(k - 1)} \cup {s[k]}
      BY <3>2
    <3>6. /\ Append(kept[k - 1], s[k]) \in Seq(T)
          /\ ToSet(Append(kept[k - 1], s[k])) = ToSet(kept[k - 1]) \cup {s[k]}
          /\ IsInjective(kept[k - 1]) /\ s[k] \notin ToSet(kept[k - 1]) => IsInjective(Append(kept[k - 1], s[k]))
      BY <2>1, <3>1, AppendQueue
    <3> QED
      BY <2>1, <3>1, <3>4, <3>5, <3>6
  <2> QED
    BY <2>2, <2>3
<1>9. n \in Good
  <2>1. \A k \in 1 .. n : k - 1 \in Good => k \in Good
    BY <1>8
  <2> HIDE DEF Good
  <2>2. \A k \in 0 .. n : k \in Good
    BY <1>1, <1>7, <2>1, CountUp, Zenon
  <2> QED
    BY <1>1, <2>2
<1>10. Upto(n) = I
  BY <1>1, <1>6
<1> HIDE DEF Upto
<1> QED
  BY <1>2, <1>9, <1>10

\* A list without one of its members.
LEMMA WithoutFacts ==
  ASSUME NEW T, NEW s \in Seq(T), IsInjective(s), NEW f
  PROVE  /\ Without(s, f) \in Seq(T) /\ IsInjective(Without(s, f))
         /\ ToSet(Without(s, f)) = ToSet(s) \ {f}
<1> DEFINE I == {k \in DOMAIN s : s[k] # f}
<1>1. DOMAIN s = 1 .. Len(s)
  OBVIOUS
<1>2. I \in SUBSET (1 .. Len(s)) /\ \A i, j \in I : s[i] = s[j] => i = j
  BY <1>1 DEF IsInjective
<1>3. {s[i] : i \in I} = ToSet(s) \ {f}
  BY DEF ToSet
<1> HIDE DEF I
<1>4. /\ Picked(s, I) \in Seq(T) /\ ToSet(Picked(s, I)) = {s[i] : i \in I}
      /\ IsInjective(Picked(s, I))
  BY <1>2, PickedFacts
<1> QED
  BY <1>3, <1>4 DEF Without, I

\* The filters of a list that are in a set, and those that are not.
LEMMA SidesFacts ==
  ASSUME NEW T, NEW s \in Seq(T), NEW S
  PROVE  /\ Inside(s, S) \in Seq(T) /\ ToSet(Inside(s, S)) = ToSet(s) \cap S
         /\ Outside(s, S) \in Seq(T) /\ ToSet(Outside(s, S)) = ToSet(s) \ S
<1> DEFINE I == {i \in DOMAIN s : s[i] \in S}
           O == {i \in DOMAIN s : s[i] \notin S}
<1>1. DOMAIN s = 1 .. Len(s)
  OBVIOUS
<1>2. I \in SUBSET (1 .. Len(s)) /\ O \in SUBSET (1 .. Len(s))
  BY <1>1
<1>3. {s[i] : i \in I} = ToSet(s) \cap S
  BY DEF ToSet
<1>4. {s[i] : i \in O} = ToSet(s) \ S
  BY DEF ToSet
<1> HIDE DEF I, O
<1>5. Picked(s, I) \in Seq(T) /\ ToSet(Picked(s, I)) = {s[i] : i \in I}
  BY <1>2, PickedFacts
<1>6. Picked(s, O) \in Seq(T) /\ ToSet(Picked(s, O)) = {s[i] : i \in O}
  BY <1>2, PickedFacts
<1> QED
  BY <1>3, <1>4, <1>5, <1>6 DEF Inside, Outside, I, O

\* set(filters) in the order of the first mention has every filter.
LEMMA UnsortedFacts ==
  ASSUME NEW T, NEW s \in Seq(T)
  PROVE  UnsortedSet(s) \in Seq(T) /\ ToSet(UnsortedSet(s)) = ToSet(s)
<1> DEFINE I == {i \in DOMAIN s : \A j \in 1 .. i - 1 : s[j] # s[i]}
<1>1. DOMAIN s = 1 .. Len(s) /\ Len(s) \in Nat
  OBVIOUS
<1>2. I \in SUBSET (1 .. Len(s))
  BY <1>1
<1>3. ASSUME NEW i \in 1 .. Len(s) PROVE \E j \in I : s[j] = s[i]
  <2> DEFINE Same == {j \in 1 .. Len(s) : s[j] = s[i]}
  <2>1. Same \in SUBSET Nat /\ i \in Same
    OBVIOUS
  <2>2. PICK j \in Same : \A l \in Same : j <= l
    BY <2>1, LeastNatural
  <2>3. j \in 1 .. Len(s) /\ s[j] = s[i]
    OBVIOUS
  <2>4. ASSUME NEW l \in 1 .. j - 1 PROVE s[l] # s[j]
    <3>1. l \in 1 .. Len(s) /\ ~(j <= l)
      BY <1>1, <2>3
    <3>2. l \notin Same
      BY <2>2, <3>1
    <3> QED
      BY <2>3, <3>1, <3>2
  <2> QED
    BY <1>1, <2>3, <2>4
<1>4. {s[i] : i \in I} = ToSet(s)
  BY <1>1, <1>3 DEF ToSet
<1> HIDE DEF I
<1>5. Picked(s, I) \in Seq(T) /\ ToSet(Picked(s, I)) = {s[i] : i \in I}
  BY <1>2, PickedFacts
<1> QED
  BY <1>4, <1>5 DEF UnsortedSet, I

\* new_entries has the filters that are not in the index.
LEMMA NewEntriesFacts ==
  ASSUME NEW fs \in Seq(Filters)
  PROVE  NewEntries(fs) \in Seq(Filters) /\ ToSet(NewEntries(fs)) = ToSet(fs) \ DOMAIN index.entries
<1>1. UnsortedSet(fs) \in Seq(Filters) /\ ToSet(UnsortedSet(fs)) = ToSet(fs)
  BY UnsortedFacts
<1> QED
  BY <1>1, SidesFacts DEF NewEntries

-----------------------------------------------------------------------------
(* The trie.                                                               *)

Levels == UNION {ToSet(f) : f \in Filters}
Paths == Seq(Levels)
Tables(K, V) == UNION {[D -> V] : D \in SUBSET K}
Lists(s, S) == IsInjective(s) /\ ToSet(s) = S

\* The nodes that the entries E need, and a trie that has just these.
Nodes(E) == {<<>>} \cup UNION {NodesOf(ActualFilter(f)) : f \in E}
Trie(root, E) ==
  /\ root \in [Nodes(E) -> Seq(Filters)]
  /\ \A p \in Nodes(E) : Lists(root[p], {f \in E : ActualFilter(f) = p})

\* The prefixes of a path.
LEMMA PrefixFacts ==
  ASSUME NEW T, NEW path \in Seq(T), NEW k \in 0 .. Len(path)
  PROVE  /\ SubSeq(path, 1, k) \in Seq(T) /\ Len(SubSeq(path, 1, k)) = k
         /\ \A i \in 1 .. k : SubSeq(path, 1, k)[i] = path[i]
         /\ k = Len(path) => SubSeq(path, 1, k) = path
         /\ k = 0 => SubSeq(path, 1, k) = <<>>
<1>1. Len(path) \in Nat /\ k \in Nat
  OBVIOUS
<1>2. SubSeq(path, 1, k) \in Seq(T) /\ Len(SubSeq(path, 1, k)) = k
  BY <1>1
<1>3. \A i \in 1 .. k : SubSeq(path, 1, k)[i] = path[i]
  BY <1>1
<1>4. k = Len(path) => SubSeq(path, 1, k) = path
  BY <1>1
<1>5. k = 0 => SubSeq(path, 1, k) = <<>>
  BY <1>2
<1> QED
  BY <1>2, <1>3, <1>4, <1>5

\* A prefix of a prefix, and the node above another one.
LEMMA PrefixOfPrefix ==
  ASSUME NEW T, NEW path \in Seq(T), NEW k \in 0 .. Len(path), NEW j \in 0 .. k
  PROVE  /\ SubSeq(SubSeq(path, 1, k), 1, j) = SubSeq(path, 1, j)
         /\ IsPrefix(SubSeq(path, 1, j), SubSeq(path, 1, k))
<1> DEFINE p == SubSeq(path, 1, k)
           q == SubSeq(path, 1, j)
<1>1. j \in 0 .. Len(path) /\ Len(path) \in Nat /\ k \in Nat /\ j \in Nat
  OBVIOUS
<1>2. p \in Seq(T) /\ Len(p) = k /\ \A i \in 1 .. k : p[i] = path[i]
  BY PrefixFacts
<1>3. q \in Seq(T) /\ Len(q) = j /\ \A i \in 1 .. j : q[i] = path[i]
  BY <1>1, PrefixFacts
<1> HIDE DEF p, q
<1>4. /\ SubSeq(p, 1, j) \in Seq(T) /\ Len(SubSeq(p, 1, j)) = j
      /\ \A i \in 1 .. j : SubSeq(p, 1, j)[i] = p[i]
  BY <1>2, PrefixFacts
<1>5. SubSeq(p, 1, j) = q
  BY <1>1, <1>2, <1>3, <1>4
<1>6. SubSeq(q, 1, Len(q)) = q
  BY <1>3, PrefixFacts
<1>7. IsPrefix(q, p)
  BY <1>1, <1>2, <1>3, <1>5, <1>6 DEF IsPrefix
<1> QED
  BY <1>5, <1>7 DEF p, q

\* What is left of a filter behind a prefix of m levels.
LEMMA BehindPrefix ==
  ASSUME NEW T, NEW f \in Seq(T), NEW m \in 1 .. 2, Len(f) > m, NEW d \in Seq(T),
         f = SubSeq(f, 1, m) \o d
  PROVE  SubSeq(f, m + 1, Len(f)) = d /\ d # <<>> /\ (m = 1 => Tail(f) = d)
<1> DEFINE a == SubSeq(f, 1, m)
           e == SubSeq(f, m + 1, Len(f))
<1>1. Len(f) \in Nat /\ m \in Nat /\ Len(d) \in Nat /\ m \in 0 .. Len(f)
  OBVIOUS
<1>2. a \in Seq(T) /\ Len(a) = m
  BY <1>1, PrefixFacts
<1>3. /\ e \in Seq(T) /\ Len(e) = Len(f) - m
      /\ \A i \in 1 .. Len(f) - m : e[i] = f[m + i]
  BY <1>1
<1>4. f = a \o d
  OBVIOUS
<1> HIDE DEF a, e
<1>5. /\ Len(a \o d) = Len(a) + Len(d)
      /\ \A i \in 1 .. Len(d) : (a \o d)[Len(a) + i] = d[i]
  BY <1>2, ConcatMembers
<1>6. Len(d) = Len(f) - m /\ \A i \in 1 .. Len(d) : d[i] = f[m + i]
  BY <1>1, <1>2, <1>4, <1>5
<1>7. e = d
  BY <1>1, <1>3, <1>6
<1>8. ASSUME m = 1 PROVE Tail(f) = d
  <2>1. Tail(f) \in Seq(T) /\ Len(Tail(f)) = Len(f) - 1 /\ \A i \in 1 .. Len(f) - 1 : Tail(f)[i] = f[i + 1]
    BY <1>1
  <2>2. Len(Tail(f)) = Len(d) /\ \A i \in 1 .. Len(d) : Tail(f)[i] = d[i]
    BY <1>6, <1>8, <2>1
  <2> DEFINE t == Tail(f)
  <2>3. t \in Seq(T) /\ Len(t) = Len(d) /\ \A i \in 1 .. Len(d) : t[i] = d[i]
    BY <2>1, <2>2
  <2> HIDE DEF t
  <2>4. t = d
    BY <1>1, <2>3
  <2> QED
    BY <2>4 DEF t
<1>9. d # <<>>
  BY <1>1, <1>6
<1> QED
  BY <1>7, <1>8, <1>9 DEF e

\* The filter the client takes for the broker's is the one the broker matches.
LEMMA ActualFacts ==
  ASSUME NEW f \in Filters
  PROVE  ActualFilter(f) \in Paths /\ ActualFilter(f) # <<>> /\ ActualFilter(f) = BrokerFilter(f)
<1> DEFINE stripped == IF f[1] = "$share" /\ Len(f) >= 3 THEN 2
                       ELSE IF f[1] \in StrippedPrefixes /\ Len(f) >= 2 THEN 1 ELSE 0
           d == Decorated[f]
           T == ToSet(f)
<1>1. /\ f # <<>> /\ f \in Seq(T)
      /\ f \in DOMAIN Decorated <=> stripped # 0
      /\ f \in DOMAIN Decorated => f = SubSeq(f, 1, stripped) \o d /\ d \in Seq(T) /\ d # <<"">>
  BY FiltersAssumption DEF Filters
<1>2. T \subseteq Levels
  BY DEF Levels
<1> HIDE DEF T
<1>3. \A s \in Seq(T) : s \in Paths
  BY <1>2 DEF Paths
<1>4. Head(f) = f[1] /\ Len(f) \in Nat /\ Len(f) >= 1
  <2>1. f # <<>> /\ f \in Seq(T)
    BY <1>1
  <2> HIDE DEF stripped, d
  <2> QED
    BY <2>1
<1>5. CASE stripped = 0
  <2>1. SharedFilterToActual(f) = f
    BY <1>4, <1>5 DEF SharedFilterToActual
  <2>2. ActualFilter(f) = f
    BY <2>1 DEF ActualFilter
  <2> QED
    BY <1>1, <1>3, <1>5, <2>2 DEF BrokerFilter
<1>6. CASE stripped # 0
  <2>1. stripped \in 1 .. 2 /\ Len(f) > stripped
    BY <1>4, <1>6
  <2>2. f \in DOMAIN Decorated /\ f = SubSeq(f, 1, stripped) \o d /\ d \in Seq(T) /\ d # <<"">>
    BY <1>1, <1>6
  <2>3. \/ stripped = 2 /\ SharedFilterToActual(f) = SubSeq(f, 3, Len(f))
        \/ stripped = 1 /\ SharedFilterToActual(f) = Tail(f)
    BY <1>4, <1>6 DEF SharedFilterToActual
  <2> HIDE DEF stripped, d
  <2>4. SubSeq(f, stripped + 1, Len(f)) = d /\ d # <<>> /\ (stripped = 1 => Tail(f) = d)
    BY <1>1, <2>1, <2>2, BehindPrefix
  <2>5. SharedFilterToActual(f) = d
    <3>1. CASE stripped = 2 /\ SharedFilterToActual(f) = SubSeq(f, 3, Len(f))
      <4>1. stripped + 1 = 3
        BY <3>1
      <4> QED
        BY <2>4, <3>1, <4>1
    <3>2. CASE stripped = 1 /\ SharedFilterToActual(f) = Tail(f)
      BY <2>4, <3>2
    <3> QED
      BY <2>3, <3>1, <3>2
  <2>6. ActualFilter(f) = d
    BY <2>2, <2>5 DEF ActualFilter
  <2> QED
    BY <1>3, <2>2, <2>4, <2>6 DEF BrokerFilter, d
<1> QED
  BY <1>5, <1>6

\* The nodes of the entries E and the prefixes of a path of up to m levels.
Down(E, path, m) == Nodes(E) \cup {SubSeq(path, 1, j) : j \in 0 .. m}

\* A trie of the entries E with leftover nodes along a path, whose lists are exact.
Leftover(r, E, path, m) ==
  /\ r \in [Down(E, path, m) -> Seq(Filters)]
  /\ \A p \in Down(E, path, m) : Lists(r[p], {g \in E : ActualFilter(g) = p})

\* The lowest leftover node goes exactly if no entry needs it.
LEMMA PopLeftover ==
  ASSUME NEW E \in SUBSET Filters, NEW path \in Paths, NEW m \in 1 .. Len(path),
         NEW r, Leftover(r, E, path, m)
  PROVE  /\ Leftover(Pop(r, SubSeq(path, 1, m)), E, path, m - 1)
         /\ \A p \in Down(E, path, m - 1) : Pop(r, SubSeq(path, 1, m))[p] = r[p]
<1> DEFINE n == SubSeq(path, 1, m)
           D == Down(E, path, m)
           rest == Nodes(E)
<1>1. path \in Seq(Levels) /\ Len(path) \in Nat /\ m \in Nat /\ m >= 1 /\ m \in 0 .. Len(path)
  BY DEF Paths
<1>2. n \in Seq(Levels) /\ Len(n) = m
  BY <1>1, PrefixFacts
<1>3. \A j \in 0 .. m : SubSeq(path, 1, j) \in Seq(Levels) /\ Len(SubSeq(path, 1, j)) = j
  BY <1>1, PrefixFacts
<1>4. n \in D
  BY <1>1 DEF Down
<1>5. D = Down(E, path, m - 1) \cup {n}
  <2>1. \A j \in 0 .. m : j \in 0 .. m - 1 \/ j = m
    BY <1>1
  <2>2. \A j \in 0 .. m - 1 : j \in 0 .. m
    BY <1>1
  <2>3. m \in 0 .. m
    BY <1>1
  <2> HIDE DEF rest
  <2> QED
    BY <2>1, <2>2, <2>3 DEF Down
<1>6. DOMAIN r = D /\ \A p \in D : r[p] \in Seq(Filters) /\ Lists(r[p], {g \in E : ActualFilter(g) = p})
  BY DEF Leftover
<1>7. \A g \in E : ActualFilter(g) \in Seq(Levels)
  BY ActualFacts DEF Paths
<1>8. CASE n \in rest
  <2>1. n # <<>>
    BY <1>1, <1>2
  <2>2. PICK g \in E : n \in NodesOf(ActualFilter(g))
    BY <1>8, <2>1 DEF Nodes
  <2> DEFINE a == ActualFilter(g)
  <2>3. PICK j \in 0 .. Len(a) : n = SubSeq(a, 1, j)
    BY <2>2 DEF NodesOf
  <2>4. a \in Seq(Levels)
    BY <1>7
  <2> HIDE DEF a, n
  <2>5. j = m /\ Len(a) \in Nat
    BY <1>2, <2>3, <2>4, PrefixFacts
  <2>6. ~Prunable(r, n)
    <3>1. CASE j = Len(a)
      <4>1. n = a
        BY <2>3, <2>4, <3>1, PrefixFacts
      <4>2. g \in ToSet(r[n])
        BY <1>4, <1>6, <4>1 DEF Lists, a
      <4>3. r[n] # <<>>
        BY <4>2 DEF ToSet
      <4> QED
        BY <4>3 DEF Prunable
    <3>2. CASE j # Len(a)
      <4> DEFINE c == SubSeq(a, 1, j + 1)
      <4>1. j + 1 \in 0 .. Len(a) /\ j \in 0 .. j + 1
        BY <2>5, <3>2
      <4>2. Len(c) = Len(n) + 1 /\ IsPrefix(n, c)
        <5>1. Len(c) = j + 1
          BY <2>4, <4>1, PrefixFacts
        <5>2. IsPrefix(SubSeq(a, 1, j), c)
          BY <2>4, <4>1, PrefixOfPrefix
        <5> QED
          BY <1>2, <2>3, <2>5, <5>1, <5>2
      <4>3. c \in NodesOf(a)
        BY <4>1 DEF NodesOf
      <4> HIDE DEF c
      <4>4. c \in D
        BY <4>3 DEF Down, Nodes, a
      <4> QED
        BY <1>6, <4>2, <4>4 DEF Prunable
    <3> QED
      BY <3>1, <3>2
  <2>7. Pop(r, n) = r
    BY <2>6 DEF Pop
  <2>8. D = Down(E, path, m - 1)
    BY <1>5, <1>8 DEF Down
  <2>9. Leftover(r, E, path, m - 1)
    BY <2>8 DEF Leftover, D
  <2> QED
    BY <2>7, <2>9 DEF n
<1>9. CASE n \notin rest
  <2>1. \A g \in E : ActualFilter(g) # n
    <3> SUFFICES ASSUME NEW g \in E, ActualFilter(g) = n PROVE FALSE
      OBVIOUS
    <3> DEFINE a == ActualFilter(g)
    <3>1. a \in Seq(Levels)
      BY <1>7
    <3> HIDE DEF a
    <3>2. Len(a) \in 0 .. Len(a) /\ SubSeq(a, 1, Len(a)) = a
      BY <3>1, PrefixFacts
    <3>3. a \in NodesOf(a)
      BY <3>2 DEF NodesOf
    <3> QED
      BY <1>9, <3>3 DEF Nodes, a
  <2>2. r[n] = <<>>
    <3>1. r[n] \in Seq(Filters) /\ ToSet(r[n]) = {}
      BY <1>4, <1>6, <2>1 DEF Lists
    <3>2. r[n] # <<>> => Head(r[n]) \in ToSet(r[n])
      BY <3>1, TailQueue
    <3> QED
      BY <3>1, <3>2
  <2>3. ASSUME NEW other \in D, Len(other) = Len(n) + 1, IsPrefix(n, other) PROVE FALSE
    <3>1. Len(other) = m + 1
      BY <1>2, <2>3
    <3>2. CASE other \in {SubSeq(path, 1, j) : j \in 0 .. m}
      BY <1>1, <1>3, <3>1, <3>2
    <3>3. CASE other \in rest
      <4>1. other # <<>>
        BY <1>1, <3>1
      <4>2. PICK g \in E : other \in NodesOf(ActualFilter(g))
        BY <3>3, <4>1 DEF Nodes
      <4> DEFINE a == ActualFilter(g)
      <4>3. PICK j \in 0 .. Len(a) : other = SubSeq(a, 1, j)
        BY <4>2 DEF NodesOf
      <4>4. a \in Seq(Levels)
        BY <1>7
      <4> HIDE DEF a, n
      <4>5. Len(a) \in Nat /\ j = m + 1 /\ m \in 0 .. j /\ m \in 0 .. Len(a)
        BY <1>1, <3>1, <4>3, <4>4, PrefixFacts
      <4>6. SubSeq(other, 1, m) = SubSeq(a, 1, m)
        BY <4>3, <4>4, <4>5, PrefixOfPrefix
      <4>7. SubSeq(n, 1, m) = n
        BY <1>2, PrefixFacts
      <4>8. SubSeq(n, 1, m) = SubSeq(other, 1, m)
        BY <1>2, <2>3 DEF IsPrefix
      <4>9. n \in NodesOf(a)
        BY <4>5, <4>6, <4>7, <4>8 DEF NodesOf
      <4> QED
        BY <1>9, <4>9 DEF Nodes, a
    <3> QED
      BY <2>3, <3>2, <3>3 DEF Down
  <2>4. Prunable(r, n)
    BY <1>6, <2>2, <2>3 DEF Prunable
  <2>5. Pop(r, n) = [p \in D \ {n} |-> r[p]]
    BY <1>6, <2>4 DEF Pop, Restrict
  <2>6. D \ {n} = Down(E, path, m - 1)
    <3>1. n \notin {SubSeq(path, 1, j) : j \in 0 .. m - 1}
      <4>1. \A j \in 0 .. m - 1 : j \in 0 .. m /\ j # m
        BY <1>1
      <4> QED
        BY <1>2, <1>3, <4>1
    <3>2. n \notin Down(E, path, m - 1)
      BY <1>9, <3>1 DEF Down
    <3> QED
      BY <1>5, <3>2
  <2> HIDE DEF n, D
  <2>7. Leftover(Pop(r, n), E, path, m - 1)
    BY <1>6, <2>5, <2>6 DEF Leftover
  <2> QED
    BY <2>5, <2>6, <2>7 DEF n
<1> QED
  BY <1>8, <1>9

\* _remove_entry() leaves the trie of the other entries.
LEMMA RemoveEntryTrie ==
  ASSUME NEW E \in SUBSET Filters, NEW root, Trie(root, E), NEW f \in E
  PROVE  Trie(RemoveEntry(root, ActualFilter(f), f), E \ {f})
<1> DEFINE path == ActualFilter(f)
           N == Len(path)
           rest == E \ {f}
           r0 == [root EXCEPT ![path] = Without(@, f)]
           Cut(k) == SubSeq(path, 1, N + 1 - k)
           Defines(g) == g = [k \in 0 .. N |-> IF k = 0 THEN r0
                                               ELSE Pop(g[k - 1], SubSeq(path, 1, N + 1 - k))]
           popped == CHOOSE g : Defines(g)
           Fit(k) == [p \in Down(rest, path, N - k) |-> r0[p]]
<1>1. path \in Paths /\ path \in Seq(Levels) /\ N \in Nat /\ rest \in SUBSET Filters
  BY ActualFacts DEF Paths
<1>2. RemoveEntry(root, path, f) = popped[N]
  BY Zenon DEF RemoveEntry
<1>3. Down(rest, path, N) = Nodes(E)
  <2>1. {SubSeq(path, 1, j) : j \in 0 .. N} = NodesOf(path)
    BY DEF NodesOf
  <2> QED
    BY <2>1 DEF Down, Nodes
<1>4. path \in Nodes(E)
  <2>1. N \in 0 .. N /\ SubSeq(path, 1, N) = path
    BY <1>1, PrefixFacts
  <2> QED
    BY <1>3, <2>1 DEF Down
<1>5. /\ root \in [Nodes(E) -> Seq(Filters)]
      /\ \A p \in Nodes(E) : Lists(root[p], {g \in E : ActualFilter(g) = p})
  BY DEF Trie
<1>6. Leftover(r0, rest, path, N)
  <2>1. /\ Without(root[path], f) \in Seq(Filters) /\ IsInjective(Without(root[path], f))
        /\ ToSet(Without(root[path], f)) = ToSet(root[path]) \ {f}
    <3>1. root[path] \in Seq(Filters) /\ IsInjective(root[path])
      BY <1>4, <1>5 DEF Lists
    <3> QED
      BY <3>1, WithoutFacts
  <2>2. r0 \in [Nodes(E) -> Seq(Filters)]
    BY <1>5, <2>1
  <2>3. ASSUME NEW p \in Nodes(E) PROVE Lists(r0[p], {g \in rest : ActualFilter(g) = p})
    <3>1. IsInjective(root[p]) /\ ToSet(root[p]) = {g \in E : ActualFilter(g) = p}
      BY <1>5 DEF Lists
    <3>2. CASE p = path
      <4>1. r0[p] = Without(root[path], f)
        BY <1>4, <1>5, <3>2
      <4>2. {g \in E : ActualFilter(g) = p} \ {f} = {g \in rest : ActualFilter(g) = p}
        OBVIOUS
      <4> QED
        BY <2>1, <3>1, <3>2, <4>1, <4>2 DEF Lists
    <3>3. CASE p # path
      <4>1. r0[p] = root[p]
        BY <1>5, <3>3
      <4>2. {g \in E : ActualFilter(g) = p} = {g \in rest : ActualFilter(g) = p}
        BY <3>3
      <4> QED
        BY <3>1, <4>1, <4>2 DEF Lists
    <3> QED
      BY <3>2, <3>3
  <2> HIDE DEF r0, rest
  <2> QED
    BY <1>3, <2>2, <2>3 DEF Leftover
<1> HIDE DEF path, rest, r0, N
<1>7. r0 \in [Down(rest, path, N) -> Seq(Filters)]
  BY <1>6 DEF Leftover
<1>8. Fit(0) = r0
  <2>1. N - 0 = N
    BY <1>1
  <2> QED
    BY <1>7, <2>1
<1>9. ASSUME NEW k \in 0 .. N PROVE Leftover(Fit(k), rest, path, N - k)
  <2>1. Down(rest, path, N - k) \subseteq Down(rest, path, N)
    <3>1. \A j \in 0 .. N - k : j \in 0 .. N
      BY <1>1
    <3> QED
      BY <3>1 DEF Down
  <2>2. \A p \in Down(rest, path, N - k) :
          r0[p] \in Seq(Filters) /\ Lists(r0[p], {g \in rest : ActualFilter(g) = p})
    BY <1>6, <2>1 DEF Leftover
  <2> QED
    BY <2>2 DEF Leftover
<1>10. ASSUME NEW k \in 1 .. N PROVE Pop(Fit(k - 1), Cut(k)) = Fit(k)
  <2> DEFINE m == N - (k - 1)
             r == Fit(k - 1)
  <2>1. m \in 1 .. N /\ m - 1 = N - k /\ N + 1 - k = m /\ k - 1 \in 0 .. N
    BY <1>1
  <2>2. Leftover(r, rest, path, m)
    BY <1>9, <2>1
  <2>3. \A p \in Down(rest, path, m) : r[p] = r0[p]
    OBVIOUS
  <2> HIDE DEF m, r
  <2>4. /\ Leftover(Pop(r, SubSeq(path, 1, m)), rest, path, m - 1)
        /\ \A p \in Down(rest, path, m - 1) : Pop(r, SubSeq(path, 1, m))[p] = r[p]
    BY <1>1, <2>1, <2>2, PopLeftover DEF N
  <2>5. Pop(r, SubSeq(path, 1, m)) = [p \in Down(rest, path, m - 1) |-> Pop(r, SubSeq(path, 1, m))[p]]
    BY <2>4 DEF Leftover
  <2>6. \A p \in Down(rest, path, m - 1) : p \in Down(rest, path, m)
    <3>1. \A j \in 0 .. m - 1 : j \in 0 .. m
      BY <2>1
    <3> QED
      BY <3>1 DEF Down
  <2>7. Pop(r, SubSeq(path, 1, m)) = [p \in Down(rest, path, m - 1) |-> r0[p]]
    BY <2>3, <2>4, <2>5, <2>6
  <2> QED
    BY <2>1, <2>7 DEF r
<1> HIDE DEF Fit
<1>11. \E g : Defines(g)
  <2> DEFINE g == [k \in 0 .. N |-> Fit(k)]
  <2>1. ASSUME NEW k \in 0 .. N
        PROVE  g[k] = IF k = 0 THEN r0 ELSE Pop(g[k - 1], SubSeq(path, 1, N + 1 - k))
    <3>1. CASE k = 0
      BY <1>8, <3>1
    <3>2. CASE k # 0
      <4>1. k \in 1 .. N /\ k - 1 \in 0 .. N
        BY <1>1, <3>2
      <4> QED
        BY <1>10, <3>2, <4>1
    <3> QED
      BY <3>1, <3>2
  <2>2. Defines(g)
    BY <2>1
  <2> HIDE DEF g
  <2> QED
    BY <2>2, Zenon
<1>12. Defines(popped)
  BY <1>11, Zenon
<1>13. popped[0] = r0 /\ \A k \in 1 .. N : popped[k] = Pop(popped[k - 1], Cut(k))
  <2>1. \A k \in 0 .. N : popped[k] = IF k = 0 THEN r0 ELSE Pop(popped[k - 1], SubSeq(path, 1, N + 1 - k))
    BY <1>12, Zenon
  <2> HIDE DEF popped
  <2>2. 0 \in 0 .. N /\ \A k \in 1 .. N : k \in 0 .. N /\ k # 0
    BY <1>1
  <2> QED
    BY <2>1, <2>2
<1> HIDE DEF popped, Defines, Cut
<1>14. popped[N] = Fit(N)
  <2> DEFINE Good == {k \in 0 .. N : popped[k] = Fit(k)}
  <2>1. 0 \in Good
    BY <1>1, <1>8, <1>13
  <2>2. \A k \in 1 .. N : k - 1 \in Good => k \in Good
    <3> SUFFICES ASSUME NEW k \in 1 .. N, k - 1 \in Good PROVE k \in Good
      OBVIOUS
    <3>1. k \in 0 .. N /\ popped[k - 1] = Fit(k - 1)
      BY <1>1
    <3> QED
      BY <1>10, <1>13, <3>1
  <2> HIDE DEF Good
  <2>3. \A k \in 0 .. N : k \in Good
    BY <1>1, <2>1, <2>2, CountUp, Zenon
  <2> QED
    BY <1>1, <2>3 DEF Good
<1>15. Leftover(Fit(N), rest, path, 0)
  <2>1. N \in 0 .. N /\ N - N = 0
    BY <1>1
  <2> QED
    BY <1>9, <2>1
<1>16. Down(rest, path, 0) = Nodes(rest)
  <2>1. SubSeq(path, 1, 0) = <<>>
    BY <1>1, PrefixFacts DEF N
  <2>2. \A j \in 0 .. 0 : SubSeq(path, 1, j) = <<>>
    BY <2>1
  <2> QED
    BY <2>2 DEF Down, Nodes
<1>17. Trie(Fit(N), rest)
  BY <1>15, <1>16 DEF Leftover, Trie
<1> QED
  BY <1>2, <1>14, <1>17 DEF path, rest

\* add() makes the nodes of the path that are missing and appends to the last one.
LEMMA AddTrie ==
  ASSUME NEW E \in SUBSET Filters, NEW root, Trie(root, E), NEW f \in Filters \ E, NEW path,
         path = ActualFilter(f)
  PROVE  Trie([p \in DOMAIN root \cup NodesOf(path) |->
                 IF p = path THEN Append(At(root, p), f) ELSE At(root, p)], E \cup {f})
<1> DEFINE added == [p \in DOMAIN root \cup NodesOf(path) |->
                       IF p = path THEN Append(At(root, p), f) ELSE At(root, p)]
           all == E \cup {f}
<1>1. /\ root \in [Nodes(E) -> Seq(Filters)] /\ DOMAIN root = Nodes(E)
      /\ \A p \in Nodes(E) : Lists(root[p], {g \in E : ActualFilter(g) = p})
  BY DEF Trie
<1>2. Nodes(all) = Nodes(E) \cup NodesOf(path)
  BY DEF Nodes
<1>3. ASSUME NEW p, NEW g \in Filters, ActualFilter(g) = p PROVE p \in NodesOf(ActualFilter(g))
  <2> DEFINE a == ActualFilter(g)
  <2>1. a \in Seq(Levels)
    BY ActualFacts DEF Paths
  <2> HIDE DEF a
  <2>2. Len(a) \in 0 .. Len(a) /\ SubSeq(a, 1, Len(a)) = a
    BY <2>1, PrefixFacts
  <2> QED
    BY <1>3, <2>2 DEF NodesOf, a
<1>4. ASSUME NEW p PROVE At(root, p) \in Seq(Filters) /\ Lists(At(root, p), {g \in E : ActualFilter(g) = p})
  <2>1. CASE p \in Nodes(E)
    BY <1>1, <2>1 DEF At
  <2>2. CASE p \notin Nodes(E)
    <3>1. \A g \in E : ActualFilter(g) # p
      BY <1>3, <2>2 DEF Nodes
    <3>2. At(root, p) = <<>>
      BY <1>1, <2>2 DEF At
    <3>3. {g \in E : ActualFilter(g) = p} = {}
      BY <3>1
    <3>4. ToSet(<<>>) = {} /\ IsInjective(<<>>)
      BY DEF ToSet, IsInjective
    <3> QED
      BY <3>2, <3>3, <3>4 DEF Lists
  <2> QED
    BY <2>1, <2>2
<1>5. ASSUME NEW p \in Nodes(all) PROVE added[p] \in Seq(Filters) /\ Lists(added[p], {g \in all : ActualFilter(g) = p})
  <2>1. added[p] = IF p = path THEN Append(At(root, p), f) ELSE At(root, p)
    BY <1>1, <1>2
  <2> HIDE DEF added
  <2>2. /\ At(root, p) \in Seq(Filters) /\ IsInjective(At(root, p))
        /\ ToSet(At(root, p)) = {g \in E : ActualFilter(g) = p}
    BY <1>4 DEF Lists
  <2>3. CASE p = path
    <3>1. f \notin ToSet(At(root, p))
      BY <2>2
    <3> DEFINE t == Append(At(root, p), f)
    <3>2. t \in Seq(Filters) /\ ToSet(t) = ToSet(At(root, p)) \cup {f} /\ IsInjective(t)
      BY <2>2, <3>1, AppendQueue
    <3> HIDE DEF t
    <3>3. {g \in all : ActualFilter(g) = p} = {g \in E : ActualFilter(g) = p} \cup {f}
      BY <2>3
    <3>4. added[p] = t
      BY <2>1, <2>3 DEF t
    <3> QED
      BY <2>2, <3>2, <3>3, <3>4 DEF Lists
  <2>4. CASE p # path
    <3>1. {g \in all : ActualFilter(g) = p} = {g \in E : ActualFilter(g) = p}
      BY <2>4
    <3> QED
      BY <2>1, <2>2, <2>4, <3>1 DEF Lists
  <2> QED
    BY <2>3, <2>4
<1>6. added = [p \in Nodes(all) |-> added[p]]
  BY <1>1, <1>2
<1> HIDE DEF added, all
<1>7. added \in [Nodes(all) -> Seq(Filters)]
  BY <1>5, <1>6
<1>8. Trie(added, all)
  BY <1>5, <1>7 DEF Trie
<1> QED
  BY <1>8 DEF added, all

-----------------------------------------------------------------------------
(* The table of identifiers.                                               *)

SubscriptionIds == {r.identifier : r \in Requests}
Entries == Tables(Filters, [identifier : SubscriptionIds])

\* The filters that have an identifier, and the table that lists just these.
Having(entries, i) == {f \in DOMAIN entries : entries[f].identifier = i}
Used(entries) == {entries[f].identifier : f \in DOMAIN entries} \ {NoIdentifier}
Identified(table, entries) ==
  /\ table \in [Used(entries) -> Seq(Filters)]
  /\ \A i \in Used(entries) : Lists(table[i], Having(entries, i))

\* remove() takes the filter out of the table.
LEMMA ForgetTable ==
  ASSUME NEW entries \in Entries, NEW table, Identified(table, entries),
         NEW f \in DOMAIN entries, NEW i, i = entries[f].identifier
  PROVE  Identified(IF i = NoIdentifier THEN table ELSE ForgetIdentifier(table, i, f),
                Restrict(entries, DOMAIN entries \ {f}))
<1> DEFINE left == Restrict(entries, DOMAIN entries \ {f})
<1>1. /\ table \in [Used(entries) -> Seq(Filters)]
      /\ \A j \in Used(entries) : IsInjective(table[j]) /\ ToSet(table[j]) = Having(entries, j)
  BY DEF Identified, Lists
<1>2. DOMAIN left = DOMAIN entries \ {f} /\ \A g \in DOMAIN left : left[g] = entries[g]
  BY DEF Restrict
<1> HIDE DEF left
<1>3. /\ \A j : j # i => Having(left, j) = Having(entries, j)
      /\ Having(left, i) = Having(entries, i) \ {f}
  BY <1>2 DEF Having
<1>4. /\ \A j : j \in Used(left) <=> j # NoIdentifier /\ Having(left, j) # {}
      /\ \A j : j \in Used(entries) <=> j # NoIdentifier /\ Having(entries, j) # {}
  BY DEF Used, Having
<1>5. CASE i = NoIdentifier
  <2>1. Used(left) = Used(entries) /\ \A j \in Used(entries) : j # i
    BY <1>3, <1>4, <1>5
  <2>2. Identified(table, left)
    BY <1>1, <1>3, <2>1 DEF Identified, Lists
  <2> QED
    BY <1>5, <2>2 DEF left
<1>6. CASE i # NoIdentifier
  <2>1. i \in Used(entries)
    BY <1>6 DEF Used
  <2> DEFINE w == Without(table[i], f)
  <2>2. w \in Seq(Filters) /\ IsInjective(w) /\ ToSet(w) = Having(left, i)
    <3>1. table[i] \in Seq(Filters) /\ IsInjective(table[i]) /\ ToSet(table[i]) = Having(entries, i)
      BY <1>1, <2>1
    <3> QED
      BY <1>3, <3>1, WithoutFacts
  <2>3. ForgetIdentifier(table, i, f) = IF w = <<>> THEN Restrict(table, DOMAIN table \ {i})
                                        ELSE [table EXCEPT ![i] = w]
    BY <1>1, <2>1 DEF ForgetIdentifier
  <2> HIDE DEF w
  <2>4. CASE w = <<>>
    <3>1. Having(left, i) = {}
      BY <2>2, <2>4 DEF ToSet
    <3>2. Used(left) = Used(entries) \ {i}
      BY <1>3, <1>4, <3>1
    <3> DEFINE t == Restrict(table, DOMAIN table \ {i})
    <3>3. t \in [Used(left) -> Seq(Filters)] /\ \A j \in Used(left) : t[j] = table[j]
      BY <1>1, <3>2 DEF Restrict
    <3> HIDE DEF t
    <3>4. Identified(t, left)
      BY <1>1, <1>3, <3>2, <3>3 DEF Identified, Lists
    <3> QED
      BY <1>6, <2>3, <2>4, <3>4 DEF t, left
  <2>5. CASE w # <<>>
    <3>1. Having(left, i) # {}
      BY <2>2, <2>5, TailQueue
    <3>2. Used(left) = Used(entries)
      BY <1>3, <1>4, <1>6, <2>1, <3>1
    <3> DEFINE t == [table EXCEPT ![i] = w]
    <3>3. t \in [Used(left) -> Seq(Filters)]
      BY <1>1, <2>2, <3>2
    <3>4. \A j \in Used(left) : t[j] = IF j = i THEN w ELSE table[j]
      BY <1>1, <3>2
    <3> HIDE DEF t
    <3>5. Identified(t, left)
      BY <1>1, <1>3, <2>2, <3>2, <3>3, <3>4 DEF Identified, Lists
    <3> QED
      BY <1>6, <2>3, <2>5, <3>5 DEF t, left
  <2> QED
    BY <2>4, <2>5
<1> QED
  BY <1>5, <1>6

\* add() appends the filter to the list of its identifier.
LEMMA AddTable ==
  ASSUME NEW entries \in Entries, NEW table, Identified(table, entries),
         NEW f \in Filters \ DOMAIN entries, NEW entry \in [identifier : SubscriptionIds],
         NEW i, i = entry.identifier
  PROVE  Identified(IF i = NoIdentifier THEN table ELSE With(table, i, Append(At(table, i), f)),
                With(entries, f, entry))
<1> DEFINE all == With(entries, f, entry)
<1>1. /\ table \in [Used(entries) -> Seq(Filters)]
      /\ \A j \in Used(entries) : IsInjective(table[j]) /\ ToSet(table[j]) = Having(entries, j)
  BY DEF Identified, Lists
<1>2. /\ DOMAIN all = DOMAIN entries \cup {f} /\ all[f] = entry
      /\ \A g \in DOMAIN entries : all[g] = entries[g]
  BY DEF With
<1> HIDE DEF all
<1>3. /\ \A j : j # i => Having(all, j) = Having(entries, j)
      /\ Having(all, i) = Having(entries, i) \cup {f} /\ f \notin Having(entries, i)
  BY <1>2 DEF Having
<1>4. /\ \A j : j \in Used(all) <=> j # NoIdentifier /\ Having(all, j) # {}
      /\ \A j : j \in Used(entries) <=> j # NoIdentifier /\ Having(entries, j) # {}
  BY DEF Used, Having
<1>5. CASE i = NoIdentifier
  <2>1. Used(all) = Used(entries) /\ \A j \in Used(entries) : j # i
    BY <1>3, <1>4, <1>5
  <2>2. Identified(table, all)
    BY <1>1, <1>3, <2>1 DEF Identified, Lists
  <2> QED
    BY <1>5, <2>2 DEF all
<1>6. CASE i # NoIdentifier
  <2>1. Used(all) = Used(entries) \cup {i}
    BY <1>3, <1>4, <1>6
  <2> DEFINE s == At(table, i)
             w == Append(s, f)
             t == With(table, i, w)
  <2>2. s \in Seq(Filters) /\ IsInjective(s) /\ ToSet(s) = Having(entries, i)
    <3>1. CASE i \in Used(entries)
      BY <1>1, <3>1 DEF At
    <3>2. CASE i \notin Used(entries)
      <4>1. s = <<>> /\ Having(entries, i) = {}
        BY <1>1, <1>4, <1>6, <3>2 DEF At
      <4>2. ToSet(<<>>) = {} /\ IsInjective(<<>>)
        BY DEF ToSet, IsInjective
      <4> QED
        BY <4>1, <4>2
    <3> QED
      BY <3>1, <3>2
  <2> HIDE DEF s
  <2>3. w \in Seq(Filters) /\ ToSet(w) = Having(all, i) /\ IsInjective(w)
    BY <1>3, <2>2, AppendQueue
  <2> HIDE DEF w
  <2>4. DOMAIN t = Used(all) /\ \A j \in Used(all) : t[j] = IF j = i THEN w ELSE table[j]
    BY <1>1, <2>1 DEF With
  <2>5. t = [j \in Used(all) |-> t[j]]
    BY <2>4 DEF With
  <2> HIDE DEF t
  <2>6. \A j \in Used(all) : t[j] \in Seq(Filters)
    BY <1>1, <2>1, <2>3, <2>4
  <2>7. t \in [Used(all) -> Seq(Filters)]
    BY <2>5, <2>6
  <2>8. \A j \in Used(all) : IsInjective(t[j]) /\ ToSet(t[j]) = Having(all, j)
    BY <1>1, <1>3, <2>1, <2>3, <2>4
  <2>9. Identified(t, all)
    BY <2>7, <2>8 DEF Identified, Lists
  <2> QED
    BY <1>6, <2>9 DEF t, w, s, all
<1> QED
  BY <1>5, <1>6

-----------------------------------------------------------------------------
(* An index of exactly its entries.                                        *)

Indexes == [entries : Entries, root : Tables(Paths, Seq(Filters)),
            byIdentifier : Tables(SubscriptionIds, Seq(Filters))]
Exact(x) == Trie(x.root, DOMAIN x.entries) /\ Identified(x.byIdentifier, x.entries)
ExactIndexes == {x \in Indexes : Exact(x)}

\* The entries of an index are those of some filters.
LEMMA EntriesFacts ==
  ASSUME NEW entries \in Entries
  PROVE  /\ DOMAIN entries \in SUBSET Filters
         /\ \A f \in DOMAIN entries : entries[f] \in [identifier : SubscriptionIds]
         /\ entries = [f \in DOMAIN entries |-> entries[f]]
<1>1. PICK D \in SUBSET Filters : entries \in [D -> [identifier : SubscriptionIds]]
  BY DEF Entries, Tables
<1> QED
  BY <1>1

\* A function from some of the keys is a table.
LEMMA TablesFacts ==
  ASSUME NEW K, NEW V, NEW D \in SUBSET K, NEW t \in [D -> V]
  PROVE  t \in Tables(K, V)
BY DEF Tables

\* An index is exact if its parts are.
LEMMA ExactFrom ==
  ASSUME NEW entries \in Entries, NEW root, NEW table,
         Trie(root, DOMAIN entries), Identified(table, entries)
  PROVE  [entries |-> entries, root |-> root, byIdentifier |-> table] \in ExactIndexes
<1> DEFINE x == [entries |-> entries, root |-> root, byIdentifier |-> table]
<1>1. DOMAIN entries \in SUBSET Filters /\ \A f \in DOMAIN entries : entries[f].identifier \in SubscriptionIds
  BY EntriesFacts
<1>2. root \in Tables(Paths, Seq(Filters))
  <2>1. Nodes(DOMAIN entries) \in SUBSET Paths
    <3> SUFFICES ASSUME NEW p \in Nodes(DOMAIN entries) PROVE p \in Paths
      OBVIOUS
    <3>1. CASE p = <<>>
      BY <3>1 DEF Paths
    <3>2. CASE p # <<>>
      <4>1. PICK f \in DOMAIN entries : p \in NodesOf(ActualFilter(f))
        BY <3>2 DEF Nodes
      <4> DEFINE a == ActualFilter(f)
      <4>2. a \in Seq(Levels)
        BY <1>1, ActualFacts DEF Paths
      <4> HIDE DEF a
      <4>3. PICK k \in 0 .. Len(a) : p = SubSeq(a, 1, k)
        BY <4>1 DEF NodesOf, a
      <4> QED
        BY <4>2, <4>3, PrefixFacts DEF Paths
    <3> QED
      BY <3>1, <3>2
  <2>2. root \in [Nodes(DOMAIN entries) -> Seq(Filters)]
    BY DEF Trie
  <2> QED
    BY <2>1, <2>2, TablesFacts
<1>3. table \in Tables(SubscriptionIds, Seq(Filters))
  <2>1. Used(entries) \in SUBSET SubscriptionIds
    BY <1>1 DEF Used
  <2>2. table \in [Used(entries) -> Seq(Filters)]
    BY DEF Identified
  <2> QED
    BY <2>1, <2>2, TablesFacts
<1>4. x \in Indexes
  BY <1>2, <1>3 DEF Indexes
<1>5. x.entries = entries /\ x.root = root /\ x.byIdentifier = table
  OBVIOUS
<1> HIDE DEF x
<1>6. Exact(x)
  BY <1>5 DEF Exact
<1> QED
  BY <1>4, <1>6 DEF ExactIndexes, x

\* remove() leaves an exact index of the other filters.
LEMMA RemoveExact ==
  ASSUME NEW x \in ExactIndexes, NEW f \in Filters
  PROVE  Remove_(x, f) \in ExactIndexes /\ DOMAIN Remove_(x, f).entries = DOMAIN x.entries \ {f}
<1> DEFINE entries == x.entries
           i == entries[f].identifier
           left == Restrict(entries, DOMAIN entries \ {f})
           root == RemoveEntry(x.root, ActualFilter(f), f)
           table == IF i = NoIdentifier THEN x.byIdentifier ELSE ForgetIdentifier(x.byIdentifier, i, f)
<1>1. entries \in Entries /\ Trie(x.root, DOMAIN entries) /\ Identified(x.byIdentifier, entries)
  BY DEF ExactIndexes, Indexes, Exact
<1>2. CASE f \notin DOMAIN entries
  BY <1>2 DEF Remove_
<1>3. CASE f \in DOMAIN entries
  <2>1. Remove_(x, f) = [entries |-> left, root |-> root, byIdentifier |-> table]
    BY <1>3 DEF Remove_
  <2>2. DOMAIN entries \in SUBSET Filters /\ \A g \in DOMAIN entries : entries[g] \in [identifier : SubscriptionIds]
    BY <1>1, EntriesFacts
  <2>3. DOMAIN left = DOMAIN entries \ {f} /\ left \in [DOMAIN left -> [identifier : SubscriptionIds]]
    BY <2>2 DEF Restrict
  <2>4. left \in Entries
    <3>1. DOMAIN left \in SUBSET Filters
      BY <2>2, <2>3
    <3> HIDE DEF left
    <3> QED
      BY <2>3, <3>1, TablesFacts DEF Entries
  <2> HIDE DEF entries
  <2>5. Trie(root, DOMAIN left)
    BY <1>1, <1>3, <2>2, <2>3, RemoveEntryTrie
  <2>6. Identified(table, left)
    BY <1>1, <1>3, ForgetTable
  <2> HIDE DEF left, root, table
  <2>7. [entries |-> left, root |-> root, byIdentifier |-> table] \in ExactIndexes
    BY <2>4, <2>5, <2>6, ExactFrom
  <2> QED
    BY <2>1, <2>3, <2>7 DEF entries
<1> QED
  BY <1>2, <1>3

\* add() makes an exact index with one more filter, also when the filter was in it.
LEMMA AddExact ==
  ASSUME NEW x \in ExactIndexes, NEW f \in Filters, NEW entry \in [identifier : SubscriptionIds]
  PROVE  Add(x, f, entry) \in ExactIndexes /\ DOMAIN Add(x, f, entry).entries = DOMAIN x.entries \cup {f}
<1> DEFINE old == Remove_(x, f)
           entries == old.entries
           path == ActualFilter(f)
           i == entry.identifier
           all == With(entries, f, entry)
           root == [p \in DOMAIN old.root \cup NodesOf(path) |->
                      IF p = path THEN Append(At(old.root, p), f) ELSE At(old.root, p)]
           table == IF i = NoIdentifier THEN old.byIdentifier
                    ELSE With(old.byIdentifier, i, Append(At(old.byIdentifier, i), f))
<1>1. old \in ExactIndexes /\ DOMAIN entries = DOMAIN x.entries \ {f}
  BY RemoveExact
<1>2. Add(x, f, entry) = [entries |-> all, root |-> root, byIdentifier |-> table]
  BY DEF Add
<1> HIDE DEF old
<1>3. entries \in Entries /\ Trie(old.root, DOMAIN entries) /\ Identified(old.byIdentifier, entries)
  BY <1>1 DEF ExactIndexes, Indexes, Exact
<1>4. DOMAIN entries \in SUBSET Filters /\ \A g \in DOMAIN entries : entries[g] \in [identifier : SubscriptionIds]
  BY <1>3, EntriesFacts
<1>5. f \in Filters \ DOMAIN entries
  BY <1>1
<1>6. DOMAIN all = DOMAIN entries \cup {f} /\ all \in [DOMAIN all -> [identifier : SubscriptionIds]]
  BY <1>4 DEF With
<1>7. all \in Entries
  <2>1. DOMAIN all \in SUBSET Filters
    BY <1>4, <1>6
  <2> HIDE DEF all
  <2> QED
    BY <1>6, <2>1, TablesFacts DEF Entries
<1> HIDE DEF entries
<1>8. Trie(root, DOMAIN all)
  <2> DEFINE r == old.root
             E == DOMAIN entries
  <2>1. Trie(r, E) /\ E \in SUBSET Filters /\ f \in Filters \ E
    BY <1>3, <1>4, <1>5
  <2> HIDE DEF r, E
  <2>2. Trie([p \in DOMAIN r \cup NodesOf(path) |->
                IF p = path THEN Append(At(r, p), f) ELSE At(r, p)], E \cup {f})
    BY <2>1, AddTrie
  <2> QED
    BY <1>6, <2>2 DEF r, E
<1>9. Identified(table, all)
  <2> DEFINE t == old.byIdentifier
  <2>1. Identified(t, entries) /\ entries \in Entries /\ f \in Filters \ DOMAIN entries
    BY <1>3, <1>5
  <2> HIDE DEF t
  <2>2. Identified(IF i = NoIdentifier THEN t ELSE With(t, i, Append(At(t, i), f)), With(entries, f, entry))
    BY <2>1, AddTable
  <2> QED
    BY <2>2 DEF t
<1> HIDE DEF all, root, table
<1>10. [entries |-> all, root |-> root, byIdentifier |-> table] \in ExactIndexes
  BY <1>7, <1>8, <1>9, ExactFrom
<1>11. DOMAIN all = DOMAIN x.entries \cup {f}
  BY <1>1, <1>6
<1> QED
  BY <1>2, <1>10, <1>11

\* add_many() adds the filters.
LEMMA AddManyExact ==
  ASSUME NEW x \in ExactIndexes, NEW fs \in Seq(Filters),
         NEW entry \in [identifier : SubscriptionIds]
  PROVE  /\ AddMany(x, fs, entry) \in ExactIndexes
         /\ DOMAIN AddMany(x, fs, entry).entries = DOMAIN x.entries \cup ToSet(fs)
<1> DEFINE n == Len(fs)
           Defines(g) == g = [k \in 0 .. n |-> IF k = 0 THEN x ELSE Add(g[k - 1], fs[k], entry)]
           added == CHOOSE g : Defines(g)
<1>1. n \in Nat /\ \A k \in 1 .. n : fs[k] \in Filters
  OBVIOUS
<1>2. AddMany(x, fs, entry) = added[n]
  BY Zenon DEF AddMany
<1>3. \E g : Defines(g)
  <2> DEFINE turn == [k \in 1 .. n |-> [y \in ExactIndexes |-> Add(y, fs[k], entry)]]
  <2>1. \A k \in 1 .. n : \A y \in ExactIndexes : Add(y, fs[k], entry) \in ExactIndexes
    BY <1>1, AddExact
  <2>2. turn \in [1 .. n -> [ExactIndexes -> ExactIndexes]]
    BY <2>1
  <2>3. PICK f : Looped(f, ExactIndexes, x, n, turn)
    <3> HIDE DEF turn, n
    <3> QED
      BY <1>1, <2>2, LoopExists, Zenon
  <2> HIDE DEF n
  <2>4. ASSUME NEW k \in 1 .. n PROVE f[k] = Add(f[k - 1], fs[k], entry)
    <3>1. k - 1 \in 0 .. n
      BY <1>1
    <3>2. f[k - 1] \in ExactIndexes
      BY <2>3, <3>1 DEF Looped
    <3> QED
      BY <2>3, <3>2 DEF Looped
  <2>5. ASSUME NEW k \in 0 .. n PROVE f[k] = IF k = 0 THEN x ELSE Add(f[k - 1], fs[k], entry)
    <3>1. k = 0 \/ k \in 1 .. n
      BY <1>1
    <3> QED
      BY <2>3, <2>4, <3>1 DEF Looped
  <2>6. Defines(f)
    BY <2>3, <2>5 DEF Looped
  <2> QED
    BY <2>6, Zenon
<1>4. Defines(added)
  BY <1>3, Zenon
<1>5. added[0] = x /\ \A k \in 1 .. n : added[k] = Add(added[k - 1], fs[k], entry)
  <2>1. \A k \in 0 .. n : added[k] = IF k = 0 THEN x ELSE Add(added[k - 1], fs[k], entry)
    BY <1>4, Zenon
  <2> HIDE DEF added, n
  <2>2. 0 \in 0 .. n /\ \A k \in 1 .. n : k \in 0 .. n /\ k # 0
    BY <1>1
  <2> QED
    BY <2>1, <2>2
<1> HIDE DEF added, Defines
<1> DEFINE Done(k) == {fs[j] : j \in 1 .. k}
           Good == {k \in 0 .. n : added[k] \in ExactIndexes /\ DOMAIN added[k].entries = DOMAIN x.entries \cup Done(k)}
<1>6. 0 \in Good
  <2>1. Done(0) = {}
    OBVIOUS
  <2> HIDE DEF Done
  <2> QED
    BY <1>1, <1>5, <2>1
<1>7. ASSUME NEW k \in 1 .. n, k - 1 \in Good PROVE k \in Good
  <2>1. Done(k) = Done(k - 1) \cup {fs[k]}
    <3>1. \A j \in 1 .. k : j \in 1 .. k - 1 \/ j = k
      BY <1>1
    <3>2. k \in 1 .. k /\ \A j \in 1 .. k - 1 : j \in 1 .. k
      BY <1>1
    <3> QED
      BY <3>1, <3>2
  <2> HIDE DEF Done
  <2>2. k \in 0 .. n /\ added[k - 1] \in ExactIndexes /\ DOMAIN added[k - 1].entries = DOMAIN x.entries \cup Done(k - 1)
    BY <1>1, <1>7
  <2>3. added[k] = Add(added[k - 1], fs[k], entry) /\ fs[k] \in Filters
    BY <1>1, <1>5
  <2>4. added[k] \in ExactIndexes /\ DOMAIN added[k].entries = DOMAIN added[k - 1].entries \cup {fs[k]}
    BY <2>2, <2>3, AddExact
  <2> QED
    BY <2>1, <2>2, <2>4
<1>8. n \in Good
  <2>1. \A k \in 1 .. n : k - 1 \in Good => k \in Good
    BY <1>7
  <2> HIDE DEF Good, n
  <2>2. \A k \in 0 .. n : k \in Good
    BY <1>1, <1>6, <2>1, CountUp, Zenon
  <2> QED
    BY <1>1, <2>2
<1>9. Done(n) = ToSet(fs)
  BY DEF ToSet
<1> HIDE DEF Done, n
<1> QED
  BY <1>2, <1>8, <1>9

\* A loop of remove() takes the filters out.
LEMMA RemoveManyExact ==
  ASSUME NEW x \in ExactIndexes, NEW fs \in Seq(Filters)
  PROVE  /\ RemoveMany(x, fs) \in ExactIndexes
         /\ DOMAIN RemoveMany(x, fs).entries = DOMAIN x.entries \ ToSet(fs)
<1> DEFINE n == Len(fs)
           Defines(g) == g = [k \in 0 .. n |-> IF k = 0 THEN x ELSE Remove_(g[k - 1], fs[k])]
           left == CHOOSE g : Defines(g)
<1>1. n \in Nat /\ \A k \in 1 .. n : fs[k] \in Filters
  OBVIOUS
<1>2. RemoveMany(x, fs) = left[n]
  BY Zenon DEF RemoveMany
<1>3. \E g : Defines(g)
  <2> DEFINE turn == [k \in 1 .. n |-> [y \in ExactIndexes |-> Remove_(y, fs[k])]]
  <2>1. \A k \in 1 .. n : \A y \in ExactIndexes : Remove_(y, fs[k]) \in ExactIndexes
    BY <1>1, RemoveExact
  <2>2. turn \in [1 .. n -> [ExactIndexes -> ExactIndexes]]
    BY <2>1
  <2>3. PICK f : Looped(f, ExactIndexes, x, n, turn)
    <3> HIDE DEF turn, n
    <3> QED
      BY <1>1, <2>2, LoopExists, Zenon
  <2> HIDE DEF n
  <2>4. ASSUME NEW k \in 1 .. n PROVE f[k] = Remove_(f[k - 1], fs[k])
    <3>1. k - 1 \in 0 .. n
      BY <1>1
    <3>2. f[k - 1] \in ExactIndexes
      BY <2>3, <3>1 DEF Looped
    <3> QED
      BY <2>3, <3>2 DEF Looped
  <2>5. ASSUME NEW k \in 0 .. n PROVE f[k] = IF k = 0 THEN x ELSE Remove_(f[k - 1], fs[k])
    <3>1. k = 0 \/ k \in 1 .. n
      BY <1>1
    <3> QED
      BY <2>3, <2>4, <3>1 DEF Looped
  <2>6. Defines(f)
    BY <2>3, <2>5 DEF Looped
  <2> QED
    BY <2>6, Zenon
<1>4. Defines(left)
  BY <1>3, Zenon
<1>5. left[0] = x /\ \A k \in 1 .. n : left[k] = Remove_(left[k - 1], fs[k])
  <2>1. \A k \in 0 .. n : left[k] = IF k = 0 THEN x ELSE Remove_(left[k - 1], fs[k])
    BY <1>4, Zenon
  <2> HIDE DEF left, n
  <2>2. 0 \in 0 .. n /\ \A k \in 1 .. n : k \in 0 .. n /\ k # 0
    BY <1>1
  <2> QED
    BY <2>1, <2>2
<1> HIDE DEF left, Defines
<1> DEFINE Done(k) == {fs[j] : j \in 1 .. k}
           Good == {k \in 0 .. n : left[k] \in ExactIndexes /\ DOMAIN left[k].entries = DOMAIN x.entries \ Done(k)}
<1>6. 0 \in Good
  <2>1. Done(0) = {}
    OBVIOUS
  <2> HIDE DEF Done
  <2> QED
    BY <1>1, <1>5, <2>1
<1>7. ASSUME NEW k \in 1 .. n, k - 1 \in Good PROVE k \in Good
  <2>1. Done(k) = Done(k - 1) \cup {fs[k]}
    <3>1. \A j \in 1 .. k : j \in 1 .. k - 1 \/ j = k
      BY <1>1
    <3>2. k \in 1 .. k /\ \A j \in 1 .. k - 1 : j \in 1 .. k
      BY <1>1
    <3> QED
      BY <3>1, <3>2
  <2> HIDE DEF Done
  <2>2. k \in 0 .. n /\ left[k - 1] \in ExactIndexes /\ DOMAIN left[k - 1].entries = DOMAIN x.entries \ Done(k - 1)
    BY <1>1, <1>7
  <2>3. left[k] = Remove_(left[k - 1], fs[k]) /\ fs[k] \in Filters
    BY <1>1, <1>5
  <2>4. left[k] \in ExactIndexes /\ DOMAIN left[k].entries = DOMAIN left[k - 1].entries \ {fs[k]}
    BY <2>2, <2>3, RemoveExact
  <2> QED
    BY <2>1, <2>2, <2>4
<1>8. n \in Good
  <2>1. \A k \in 1 .. n : k - 1 \in Good => k \in Good
    BY <1>7
  <2> HIDE DEF Good, n
  <2>2. \A k \in 0 .. n : k \in Good
    BY <1>1, <1>6, <2>1, CountUp, Zenon
  <2> QED
    BY <1>1, <2>2
<1>9. Done(n) = ToSet(fs)
  BY DEF ToSet
<1> HIDE DEF Done, n
<1> QED
  BY <1>2, <1>8, <1>9

-----------------------------------------------------------------------------
(* The bodies.                                                             *)

Known == DOMAIN index.entries
BodyKnown(r) == DOMAIN Body(r).index.entries

\* The bodies of the four calls on a connection that is up, by the filters they touch.
Subscribes(r) ==
  /\ Body(r).op = "subscribe" /\ Body(r).filters = r.filters /\ Body(r).observers = observers
  /\ ToSet(Body(r).more) = ToSet(r.filters) \ Known /\ BodyKnown(r) = Known \cup ToSet(r.filters)
  /\ Body(r).orphans = orphans
Unsubscribes(r) ==
  /\ Body(r).op = "unsubscribe" /\ ToSet(Body(r).filters) = ToSet(r.filters) \ observers
  /\ ToSet(Body(r).more) = ToSet(r.filters) \cap observers
  /\ BodyKnown(r) = Known \ ToSet(r.filters) /\ Body(r).observers = observers
  /\ Body(r).orphans = (orphans \ (ToSet(r.filters) \ observers)) \cup ((ToSet(r.filters) \ observers) \cap Kept)
Restores(r) ==
  /\ Body(r).op = "subscribe" /\ ToSet(Body(r).filters) = ToSet(r.filters)
  /\ ToSet(r.filters) \subseteq observers
  /\ BodyKnown(r) = Known \ ToSet(r.filters) /\ Body(r).observers = observers
  /\ Body(r).orphans = orphans
Observes(r) ==
  /\ Body(r).op = "subscribe" /\ Body(r).filters = r.filters
  /\ ToSet(r.filters) \cap (Known \cup observers) = {}
  /\ BodyKnown(r) = Known /\ Body(r).observers = observers \cup ToSet(r.filters)
  /\ Body(r).orphans = orphans
Unobserves(r) ==
  /\ Body(r).op = "unsubscribe" /\ ToSet(Body(r).filters) = ToSet(r.filters)
  /\ ToSet(r.filters) \subseteq observers /\ ToSet(r.filters) \cap Known = {}
  /\ BodyKnown(r) = Known /\ Body(r).observers = observers \ ToSet(r.filters)
  /\ Body(r).orphans = (orphans \ ToSet(r.filters)) \cup (ToSet(r.filters) \cap Kept)
Returns(r) ==
  /\ Body(r).op = None
  /\ \A f : f \notin ToSet(r.filters) => (f \in BodyKnown(r) <=> f \in Known)
                                         /\ (f \in Body(r).observers <=> f \in observers)
  /\ ~dead => Body(r).orphans = orphans /\ BodyKnown(r) \cup Body(r).observers = Known \cup observers

\* What a body does, by its phase, and that it keeps the index exact.
BodyDoes(r) ==
  /\ Body(r).phase \in Waiting \cup {"done"}
  /\ Body(r).index \in ExactIndexes /\ Body(r).more \in Seq(Filters)
  /\ Body(r).phase # "done" => ~dead /\ Body(r).filters \in Seq(Filters)
  /\ Body(r).phase = "subscribing" => Subscribes(r)
  /\ Body(r).phase = "unsubscribing" => Unsubscribes(r)
  /\ Body(r).phase = "restoring" => Restores(r)
  /\ Body(r).phase = "observing" => Observes(r)
  /\ Body(r).phase = "unobserving" => Unobserves(r)
  /\ Body(r).phase = "done" => Returns(r)

\* The filters of a request; observe and unobserve have one.
LEMMA RequestFacts ==
  ASSUME NEW r \in Requests
  PROVE  /\ r.filters \in Seq(Filters) /\ r.filters # <<>> /\ ToSet(r.filters) \subseteq Filters
         /\ [identifier |-> r.identifier] \in [identifier : SubscriptionIds]
         /\ r.kind \in {"observe", "unobserve"} =>
              r.filters = <<Head(r.filters)>> /\ ToSet(r.filters) = {Head(r.filters)}
<1>1. r.filters \in Seq(Filters) /\ r.filters # <<>>
  BY RequestsAssumption DEF Filters
<1>2. [identifier |-> r.identifier] \in [identifier : SubscriptionIds]
  BY DEF SubscriptionIds
<1>3. ToSet(r.filters) \subseteq Filters
  BY <1>1 DEF ToSet
<1>4. ASSUME r.kind \in {"observe", "unobserve"}
      PROVE  r.filters = <<Head(r.filters)>> /\ ToSet(r.filters) = {Head(r.filters)}
  <2> DEFINE s == r.filters
  <2>1. s \in Seq(Filters) /\ Len(s) = 1
    BY <1>1, <1>4, RequestsAssumption
  <2> HIDE DEF s
  <2>2. Head(s) = s[1] /\ DOMAIN s = {1}
    BY <2>1
  <2>3. s = <<Head(s)>>
    BY <2>1, <2>2
  <2>4. ToSet(s) = {Head(s)}
    BY <2>2 DEF ToSet
  <2> QED
    BY <2>3, <2>4 DEF s
<1> QED
  BY <1>1, <1>2, <1>3, <1>4

\* subscribe()
LEMMA SubscribeDoes ==
  ASSUME index \in ExactIndexes, NEW r \in Requests, r.kind = "subscribe"
  PROVE  BodyDoes(r)
<1> DEFINE added == NewEntries(r.filters)
           entry == [identifier |-> r.identifier]
           with == AddMany(index, added, entry)
<1>1. r.filters \in Seq(Filters) /\ entry \in [identifier : SubscriptionIds]
  BY RequestFacts
<1>2. added \in Seq(Filters) /\ ToSet(added) = ToSet(r.filters) \ Known
  BY <1>1, NewEntriesFacts DEF Known
<1> HIDE DEF added, entry
<1>3. with \in ExactIndexes /\ DOMAIN with.entries = Known \cup ToSet(r.filters)
  <2>1. with \in ExactIndexes /\ DOMAIN with.entries = Known \cup ToSet(added)
    BY <1>1, <1>2, AddManyExact DEF Known
  <2> QED
    BY <1>2, <2>1
<1> HIDE DEF with
<1>4. RemoveMany(with, added) \in ExactIndexes /\ DOMAIN RemoveMany(with, added).entries = Known
  <2>1. /\ RemoveMany(with, added) \in ExactIndexes
        /\ DOMAIN RemoveMany(with, added).entries = DOMAIN with.entries \ ToSet(added)
    BY <1>2, <1>3, RemoveManyExact
  <2> QED
    BY <1>2, <1>3, <2>1
<1>5. Body(r) = IF dead THEN [Returning EXCEPT !.index = RemoveMany(with, added)]
                ELSE [Sending("subscribing", "subscribe", r.filters, added) EXCEPT !.index = with]
  BY DEF Body, SubscribeBody, with, added, entry
<1>6. CASE dead
  <2>1. Body(r) = [phase |-> "done", op |-> None, filters |-> <<>>, more |-> <<>>,
               index |-> RemoveMany(with, added), observers |-> observers, orphans |-> orphans]
    BY <1>5, <1>6 DEF Returning
  <2> DEFINE x == RemoveMany(with, added)
  <2>2. /\ Body(r).phase = "done" /\ Body(r).op = None /\ Body(r).more = <<>>
        /\ Body(r).index = x /\ Body(r).observers = observers
    BY <2>1
  <2> HIDE DEF x
  <2>3. BodyKnown(r) = Known
    BY <1>4, <2>2 DEF BodyKnown, x
  <2>4. Returns(r)
    BY <1>6, <2>2, <2>3 DEF Returns
  <2>5. Body(r).index \in ExactIndexes /\ Body(r).more \in Seq(Filters)
    BY <1>4, <2>2 DEF x
  <2> QED
    BY <2>2, <2>4, <2>5 DEF BodyDoes
<1>7. CASE ~dead
  <2>1. Body(r) = [phase |-> "subscribing", op |-> "subscribe", filters |-> r.filters, more |-> added,
               index |-> with, observers |-> observers, orphans |-> orphans]
    BY <1>5, <1>7 DEF Sending, Returning
  <2>2. /\ Body(r).phase = "subscribing" /\ Body(r).op = "subscribe" /\ Body(r).filters = r.filters
        /\ Body(r).more = added /\ Body(r).index = with /\ Body(r).observers = observers
        /\ Body(r).orphans = orphans
    BY <2>1
  <2>3. Subscribes(r)
    BY <1>2, <1>3, <2>2 DEF Subscribes, BodyKnown
  <2>4. Body(r).index \in ExactIndexes /\ Body(r).more \in Seq(Filters) /\ Body(r).filters \in Seq(Filters)
    BY <1>1, <1>2, <1>3, <2>2
  <2> QED
    BY <1>7, <2>2, <2>3, <2>4 DEF BodyDoes, Waiting
<1> QED
  BY <1>6, <1>7

\* unsubscribe()
LEMMA UnsubscribeDoes ==
  ASSUME index \in ExactIndexes, NEW r \in Requests, r.kind = "unsubscribe"
  PROVE  BodyDoes(r)
<1> DEFINE observed == Inside(r.filters, observers)
           rest == Outside(r.filters, observers)
           x == RemoveMany(index, r.filters)
           F == ToSet(r.filters)
<1>1. r.filters \in Seq(Filters)
  BY RequestFacts
<1>2. /\ observed \in Seq(Filters) /\ ToSet(observed) = F \cap observers
      /\ rest \in Seq(Filters) /\ ToSet(rest) = F \ observers
  BY <1>1, SidesFacts
<1>3. x \in ExactIndexes /\ DOMAIN x.entries = Known \ F
  BY <1>1, RemoveManyExact DEF Known
<1>4. CASE dead
  <2>1. Body(r) = Returning
    BY <1>4 DEF Body, UnsubscribeBody
  <2>2. /\ Body(r).phase = "done" /\ Body(r).op = None /\ Body(r).more = <<>>
        /\ Body(r).index = index /\ Body(r).observers = observers
    BY <2>1 DEF Returning
  <2>3. Returns(r)
    BY <1>4, <2>2 DEF Returns, BodyKnown, Known
  <2>4. Body(r).index \in ExactIndexes /\ Body(r).more \in Seq(Filters)
    BY <2>2
  <2> QED
    BY <2>2, <2>3, <2>4 DEF BodyDoes
<1>5. CASE ~dead /\ rest # <<>>
  <2>1. Body(r) = [Sending("unsubscribing", "unsubscribe", rest, observed)
                     EXCEPT !.index = RemoveMany(@, r.filters),
                            !.orphans = (@ \ ToSet(rest)) \cup Warned(rest)]
    BY <1>5 DEF Body, UnsubscribeBody
  <2>2. /\ Body(r).phase = "unsubscribing" /\ Body(r).op = "unsubscribe" /\ Body(r).filters = rest
        /\ Body(r).more = observed /\ Body(r).index = x /\ Body(r).observers = observers
        /\ Body(r).orphans = (orphans \ ToSet(rest)) \cup Warned(rest)
    BY <2>1 DEF Sending, Returning
  <2> HIDE DEF x, rest, observed
  <2>3. Unsubscribes(r)
    BY <1>2, <1>3, <2>2 DEF Unsubscribes, BodyKnown, Warned
  <2>4. Body(r).index \in ExactIndexes /\ Body(r).more \in Seq(Filters) /\ Body(r).filters \in Seq(Filters)
    BY <1>2, <1>3, <2>2
  <2> QED
    BY <1>5, <2>2, <2>3, <2>4 DEF BodyDoes, Waiting
<1>6. CASE ~dead /\ rest = <<>>
  <2>1. Body(r) = [Sending("restoring", "subscribe", observed, observed)
                     EXCEPT !.index = RemoveMany(@, r.filters),
                            !.orphans = (@ \ ToSet(rest)) \cup Warned(rest)]
    BY <1>6 DEF Body, UnsubscribeBody
  <2>2. /\ Body(r).phase = "restoring" /\ Body(r).op = "subscribe" /\ Body(r).filters = observed
        /\ Body(r).more = observed /\ Body(r).index = x /\ Body(r).observers = observers
        /\ Body(r).orphans = (orphans \ ToSet(rest)) \cup Warned(rest)
    BY <2>1 DEF Sending, Returning
  <2> HIDE DEF x, rest, observed
  <2>3. ToSet(rest) = {}
    BY <1>6 DEF ToSet
  <2>4. Restores(r)
    BY <1>2, <1>3, <2>2, <2>3 DEF Restores, BodyKnown, Warned
  <2>5. Body(r).index \in ExactIndexes /\ Body(r).more \in Seq(Filters) /\ Body(r).filters \in Seq(Filters)
    BY <1>2, <1>3, <2>2
  <2> QED
    BY <1>6, <2>2, <2>4, <2>5 DEF BodyDoes, Waiting
<1> QED
  BY <1>4, <1>5, <1>6

\* add_response_observer()
LEMMA ObserveDoes ==
  ASSUME index \in ExactIndexes, NEW r \in Requests, r.kind = "observe"
  PROVE  BodyDoes(r)
<1> DEFINE topic == Head(r.filters)
<1>1. /\ r.filters \in Seq(Filters) /\ r.filters = <<topic>> /\ ToSet(r.filters) = {topic}
  BY RequestFacts
<1> HIDE DEF topic
<1>2. CASE dead \/ topic \in observers
  <2>1. Body(r) = Returning
    BY <1>2 DEF Body, ObserveBody, topic
  <2>2. /\ Body(r).phase = "done" /\ Body(r).op = None /\ Body(r).more = <<>>
        /\ Body(r).index = index /\ Body(r).observers = observers /\ Body(r).orphans = orphans
    BY <2>1 DEF Returning
  <2>3. Returns(r)
    BY <2>2 DEF Returns, BodyKnown, Known
  <2>4. Body(r).index \in ExactIndexes /\ Body(r).more \in Seq(Filters)
    BY <2>2
  <2> QED
    BY <2>2, <2>3, <2>4 DEF BodyDoes
<1>3. CASE ~dead /\ topic \notin observers /\ topic \in Known
  <2>1. Body(r) = [Returning EXCEPT !.observers = @ \cup {topic}]
    BY <1>3 DEF Body, ObserveBody, Known, topic
  <2>2. /\ Body(r).phase = "done" /\ Body(r).op = None /\ Body(r).more = <<>>
        /\ Body(r).index = index /\ Body(r).observers = observers \cup {topic} /\ Body(r).orphans = orphans
    BY <2>1 DEF Returning
  <2>3. BodyKnown(r) = Known
    BY <2>2 DEF BodyKnown, Known
  <2>4. Returns(r)
    BY <1>1, <1>3, <2>2, <2>3 DEF Returns
  <2>5. Body(r).index \in ExactIndexes /\ Body(r).more \in Seq(Filters)
    BY <2>2
  <2> QED
    BY <2>2, <2>4, <2>5 DEF BodyDoes
<1>4. CASE ~dead /\ topic \notin observers /\ topic \notin Known
  <2>1. Body(r) = [Sending("observing", "subscribe", <<topic>>, <<>>) EXCEPT !.observers = @ \cup {topic}]
    BY <1>4 DEF Body, ObserveBody, Known, topic
  <2>2. /\ Body(r).phase = "observing" /\ Body(r).op = "subscribe" /\ Body(r).filters = <<topic>>
        /\ Body(r).more = <<>> /\ Body(r).index = index /\ Body(r).observers = observers \cup {topic}
        /\ Body(r).orphans = orphans
    BY <2>1 DEF Sending, Returning
  <2>3. BodyKnown(r) = Known
    BY <2>2 DEF BodyKnown, Known
  <2>4. Observes(r)
    BY <1>1, <1>4, <2>2, <2>3 DEF Observes
  <2>5. Body(r).index \in ExactIndexes /\ Body(r).more \in Seq(Filters) /\ Body(r).filters \in Seq(Filters)
    BY <1>1, <2>2
  <2> QED
    BY <1>4, <2>2, <2>4, <2>5 DEF BodyDoes, Waiting
<1> QED
  BY <1>2, <1>3, <1>4

\* remove_response_observer()
LEMMA UnobserveDoes ==
  ASSUME index \in ExactIndexes, NEW r \in Requests, r.kind = "unobserve"
  PROVE  BodyDoes(r)
<1> DEFINE topic == Head(r.filters)
<1>1. /\ r.filters \in Seq(Filters) /\ r.filters = <<topic>> /\ ToSet(r.filters) = {topic}
  BY RequestFacts
<1> HIDE DEF topic
<1>2. CASE topic \notin observers
  <2>1. Body(r) = Returning
    BY <1>2 DEF Body, UnobserveBody, topic
  <2>2. /\ Body(r).phase = "done" /\ Body(r).op = None /\ Body(r).more = <<>>
        /\ Body(r).index = index /\ Body(r).observers = observers /\ Body(r).orphans = orphans
    BY <2>1 DEF Returning
  <2>3. Returns(r)
    BY <2>2 DEF Returns, BodyKnown, Known
  <2>4. Body(r).index \in ExactIndexes /\ Body(r).more \in Seq(Filters)
    BY <2>2
  <2> QED
    BY <2>2, <2>3, <2>4 DEF BodyDoes
<1>3. CASE topic \in observers /\ (topic \in Known \/ dead)
  <2>1. Body(r) = [Returning EXCEPT !.observers = @ \ {topic}]
    BY <1>3 DEF Body, UnobserveBody, Known, topic
  <2>2. /\ Body(r).phase = "done" /\ Body(r).op = None /\ Body(r).more = <<>>
        /\ Body(r).index = index /\ Body(r).observers = observers \ {topic} /\ Body(r).orphans = orphans
    BY <2>1 DEF Returning
  <2>3. BodyKnown(r) = Known
    BY <2>2 DEF BodyKnown, Known
  <2>4. Returns(r)
    BY <1>1, <1>3, <2>2, <2>3 DEF Returns
  <2>5. Body(r).index \in ExactIndexes /\ Body(r).more \in Seq(Filters)
    BY <2>2
  <2> QED
    BY <2>2, <2>4, <2>5 DEF BodyDoes
<1>4. CASE topic \in observers /\ topic \notin Known /\ ~dead
  <2>1. Body(r) = [Sending("unobserving", "unsubscribe", <<topic>>, <<>>)
                     EXCEPT !.observers = @ \ {topic}, !.orphans = (@ \ {topic}) \cup Warned(<<topic>>)]
    BY <1>4 DEF Body, UnobserveBody, Known, topic
  <2>2. /\ Body(r).phase = "unobserving" /\ Body(r).op = "unsubscribe" /\ Body(r).filters = <<topic>>
        /\ Body(r).more = <<>> /\ Body(r).index = index /\ Body(r).observers = observers \ {topic}
        /\ Body(r).orphans = (orphans \ {topic}) \cup Warned(<<topic>>)
    BY <2>1 DEF Sending, Returning
  <2>3. BodyKnown(r) = Known
    BY <2>2 DEF BodyKnown, Known
  <2>4. Unobserves(r)
    BY <1>1, <1>4, <2>2, <2>3 DEF Unobserves, Warned
  <2>5. Body(r).index \in ExactIndexes /\ Body(r).more \in Seq(Filters) /\ Body(r).filters \in Seq(Filters)
    BY <1>1, <2>2
  <2> QED
    BY <1>4, <2>2, <2>4, <2>5 DEF BodyDoes, Waiting
<1> QED
  BY <1>2, <1>3, <1>4

\* Every body does what its phase says.
LEMMA BodyFacts ==
  ASSUME index \in ExactIndexes, NEW r \in Requests
  PROVE  BodyDoes(r)
BY SubscribeDoes, UnsubscribeDoes, ObserveDoes, UnobserveDoes, RequestsAssumption

-----------------------------------------------------------------------------
(* The steps, as far as index, wire and broker see them.                   *)

\* No call past its locks has a filter of these.
Alone(c, filters) == \A d \in Calls \ {c} : InBody(d) => FiltersOf(d) \cap filters = {}

OthersStay(c) == DOMAIN call' = Calls /\ \A d \in Calls \ {c} : call'[d] = call[d]

\* A call that has gone through its locks runs its body; one that has not waits.
Enters(c, r) ==
  /\ call[c].phase \in {"idle", "acquiring"} /\ OthersStay(c) /\ UNCHANGED <<broker, dead>>
  /\ \/ call'[c].phase = "acquiring" /\ UNCHANGED <<index, observers, orphans, wire>>
     \/ /\ Alone(c, ToSet(r.filters))
        /\ call'[c].phase = Body(r).phase /\ call'[c].request = r /\ call'[c].more = Body(r).more
        /\ call'[c].id = NextId(c) /\ call'[c].answer = None
        /\ index' = Body(r).index /\ observers' = Body(r).observers /\ orphans' = Body(r).orphans
        /\ IF Body(r).op = None THEN UNCHANGED wire ELSE Send(Body(r).op, Body(r).filters, c)

\* A call that finds every further guard free shares no filter with a call in its body.
LEMMA PassesAlone ==
  ASSUME HoldInv, NEW c \in Calls, NEW objects \in Seq(Objects), NEW i \in 1 .. Len(objects) + 1,
         \A j \in 1 .. Len(objects) : j < i => Head(lock[objects[j]]) = c,
         JoinedUpTo(objects, i, lock) > Len(objects),
         \A o \in Pairs(guards) : \A p \in ToSet(objects) : o[1] = p[1] => o = p
  PROVE  Alone(c, {o[1] : o \in ToSet(objects)})
<1> SUFFICES ASSUME NEW d \in Calls, d # c, InBody(d), NEW f, f \in FiltersOf(d),
                    f \in {o[1] : o \in ToSet(objects)}
             PROVE  FALSE
  BY DEF Alone
<1>1. PICK o \in Pairs(guards) : o \in Objects /\ o[1] = f /\ Head(lock[o]) = d /\ lock[o] # <<>>
  BY PastLocksFirst
<1>2. o \in ToSet(objects)
  BY <1>1
<1>3. PICK j \in 1 .. Len(objects) : objects[j] = o
  BY <1>2 DEF ToSet
<1>4. ~(j < i)
  BY <1>1, <1>3
<1> DEFINE k == JoinedUpTo(objects, i, lock)
<1>5. /\ k \in i .. Len(objects) + 1
      /\ \A l \in i .. Len(objects) : l < k => lock[objects[l]] = <<>>
  <2>1. lock \in [Objects -> Seq(Calls)]
    BY DEF HoldInv, Lined
  <2> QED
    BY <2>1, JoinedFacts
<1>6. k > Len(objects) /\ j \in i .. Len(objects)
  BY <1>4
<1> HIDE DEF k
<1>7. j < k
  BY <1>5, <1>6
<1> QED
  BY <1>1, <1>3, <1>5, <1>6, <1>7

\* A call proceeds to its next suspension.
LEMMA ProceedEnters ==
  ASSUME HoldInv, NEW c \in Calls, NEW r \in Requests,
         call[c].phase \in {"idle", "acquiring"},
         NEW objects \in Seq(Objects), {o[1] : o \in ToSet(objects)} = ToSet(r.filters),
         NEW i \in 1 .. Len(objects) + 1, NEW gs, NEW us,
         \A j \in 1 .. Len(objects) : j < i => Head(lock[objects[j]]) = c,
         \A o \in Pairs(guards) : \A p \in ToSet(objects) : o[1] = p[1] => o = p,
         Proceed(c, r, objects, i, gs, us, lock)
  PROVE  Enters(c, r)
<1> DEFINE k == JoinedUpTo(objects, i, lock)
           waits == k <= Len(objects)
           body == IF waits THEN [Returning EXCEPT !.phase = "acquiring"] ELSE Body(r)
<1>1. /\ call' = [call EXCEPT ![c] = [phase |-> body.phase, request |-> r, objects |-> objects,
                    at |-> k, more |-> body.more, id |-> NextId(c), answer |-> None]]
      /\ index' = body.index /\ observers' = body.observers /\ orphans' = body.orphans
      /\ IF body.op = None THEN UNCHANGED wire ELSE Send(body.op, body.filters, c)
      /\ UNCHANGED <<broker, dead>>
  BY Zenon DEF Proceed
<1>2. DOMAIN call = Calls
  BY DEF HoldInv
<1> DEFINE record == call'[c]
<1>3. /\ OthersStay(c) /\ record.phase = body.phase /\ record.request = r /\ record.more = body.more
      /\ record.id = NextId(c) /\ record.answer = None
  <2> HIDE DEF body, k
  <2> QED
    BY <1>1, <1>2 DEF OthersStay
<1>4. CASE waits
  <2>1. /\ body.phase = "acquiring" /\ body.op = None /\ body.index = index
        /\ body.observers = observers /\ body.orphans = orphans
    BY <1>4 DEF Returning
  <2> HIDE DEF body
  <2> QED
    BY <1>1, <1>3, <2>1 DEF Enters
<1>5. CASE ~waits
  <2>1. body = Body(r)
    BY <1>5
  <2>2. k > Len(objects)
    <3>1. k \in i .. Len(objects) + 1 /\ Len(objects) \in Nat /\ i \in Nat
      <4>1. lock \in [Objects -> Seq(Calls)]
        BY DEF HoldInv, Lined
      <4> QED
        BY <4>1, JoinedFacts
    <3> HIDE DEF k
    <3> QED
      BY <1>5, <3>1
  <2>3. Alone(c, ToSet(r.filters))
    BY <2>2, PassesAlone
  <2> HIDE DEF body, k
  <2> QED
    BY <1>1, <1>3, <2>1, <2>3 DEF Enters
<1> QED
  BY <1>4, <1>5

\* hold() from the start.
LEMMA BeginEnters ==
  ASSUME HoldInv, NEW c \in Calls, NEW r \in Requests, Begin(c, r)
  PROVE  Enters(c, r)
<1> DEFINE fs == SortedSet(r.filters)
           gs == GuardsFor(c, fs)
           objects == [i \in DOMAIN fs |-> <<fs[i], gs[fs[i]]>>]
           us == [o \in Objects |-> users[o] + (IF Contains(objects, o) THEN 1 ELSE 0)]
<1>1. call[c].phase = "idle" /\ Proceed(c, r, objects, 1, gs, us, lock)
  BY DEF Begin
<1>2. fs \in Seq(Filters) /\ ToSet(fs) = ToSet(r.filters)
  BY RequestFacts, SortedFacts
<1>3. /\ DOMAIN gs = DOMAIN guards \cup ToSet(fs)
      /\ \A f \in DOMAIN gs : gs[f] = IF f \in DOMAIN guards THEN guards[f] ELSE c
  BY DEF GuardsFor
<1>4. \A f \in DOMAIN guards : guards[f] \in Calls
  <2> SUFFICES ASSUME NEW f \in DOMAIN guards PROVE guards[f] \in Calls
    OBVIOUS
  <2>1. <<f, guards[f]>> \in Pairs(guards)
    BY DEF Pairs
  <2>2. PICK d \in Calls : <<f, guards[f]>> \in ToSet(Objs[d])
    BY <2>1 DEF HoldInv, Listed
  <2>3. Objs[d] \in Seq(Objects)
    BY ObjsTyped
  <2>4. <<f, guards[f]>> \in Objects
    BY <2>2, <2>3 DEF ToSet
  <2> QED
    BY <2>4 DEF Objects
<1> HIDE DEF fs, gs
<1>5. DOMAIN fs = 1 .. Len(fs) /\ Len(fs) \in Nat
  BY <1>2
<1>6. ASSUME NEW i \in 1 .. Len(fs)
      PROVE  objects[i] \in Objects /\ objects[i] = <<fs[i], gs[fs[i]]>> /\ objects[i][1] = fs[i]
  <2>1. fs[i] \in ToSet(fs) /\ fs[i] \in Filters
    BY <1>2, <1>5 DEF ToSet
  <2>2. gs[fs[i]] \in Calls
    BY <1>3, <1>4, <2>1
  <2> QED
    BY <1>5, <2>1, <2>2 DEF Objects
<1>7. objects \in Seq(Objects) /\ Len(objects) = Len(fs)
  <2>1. objects \in [1 .. Len(fs) -> Objects]
    BY <1>5, <1>6
  <2> HIDE DEF objects
  <2> QED
    BY <1>5, <2>1
<1>8. ToSet(objects) = {objects[i] : i \in 1 .. Len(fs)}
  BY <1>5 DEF ToSet
<1>9. {o[1] : o \in ToSet(objects)} = ToSet(r.filters)
  <2>1. ToSet(fs) = {fs[i] : i \in 1 .. Len(fs)}
    BY <1>5 DEF ToSet
  <2> HIDE DEF objects
  <2> QED
    BY <1>2, <1>6, <1>8, <2>1
<1>10. ASSUME NEW o \in Pairs(guards), NEW p \in ToSet(objects), o[1] = p[1] PROVE o = p
  <2>1. PICK f \in DOMAIN guards : o = <<f, guards[f]>>
    BY DEF Pairs
  <2>2. PICK i \in 1 .. Len(fs) : p = objects[i]
    BY <1>8
  <2>3. p = <<fs[i], gs[fs[i]]>> /\ fs[i] = f
    BY <1>6, <1>10, <2>1, <2>2
  <2>4. gs[f] = guards[f]
    BY <1>3, <2>1
  <2> QED
    BY <2>1, <2>3, <2>4
<1> HIDE DEF objects
<1>11. 1 \in 1 .. Len(objects) + 1 /\ \A j \in 1 .. Len(objects) : ~(j < 1)
  BY <1>5, <1>7
<1> HIDE DEF us
<1> QED
  BY <1>1, <1>7, <1>9, <1>10, <1>11, ProceedEnters

\* The lock a call waited for was released to it.
LEMMA AcquiredEnters ==
  ASSUME HoldInv, NEW c \in Calls, Acquired(c)
  PROVE  call[c].request \in Requests /\ Enters(c, call[c].request)
<1> DEFINE objects == call[c].objects
           i == call[c].at
           r == call[c].request
<1>1. /\ call[c].phase = "acquiring" /\ Head(lock[objects[i]]) = c
      /\ Proceed(c, r, objects, i + 1, guards, users, lock)
  BY DEF Acquired
<1>2. Active(c) /\ CallFits(c)
  BY <1>1 DEF HoldInv, Active
<1>3. /\ r \in Requests /\ objects \in Seq(Objects) /\ i \in 1 .. Len(objects)
      /\ {o[1] : o \in ToSet(objects)} = ToSet(r.filters)
  BY <1>1, <1>2 DEF CallFits, FiltersOf
<1>4. Objs[c] = objects /\ Pos[c] = i
  BY <1>2 DEF Objs, Pos
<1> HIDE DEF objects, i, r
<1>5. \A j \in 1 .. Len(objects) : j < i => Head(lock[objects[j]]) = c
  BY <1>4 DEF HoldInv, Lined
<1>6. i + 1 \in 1 .. Len(objects) + 1 /\ \A j \in 1 .. Len(objects) : j < i + 1 => j < i \/ j = i
  BY <1>3
<1>7. ToSet(objects) \subseteq Pairs(guards)
  BY <1>4 DEF HoldInv, Listed
<1>8. \A o \in Pairs(guards) : \A p \in ToSet(objects) : o[1] = p[1] => o = p
  <2>1. \A o, p \in Pairs(guards) : o[1] = p[1] => o = p
    BY DEF Pairs
  <2> QED
    BY <1>7, <2>1
<1>9. \A j \in 1 .. Len(objects) : j < i + 1 => Head(lock[objects[j]]) = c
  BY <1>1, <1>5, <1>6
<1>10. Enters(c, r)
  BY <1>1, <1>3, <1>6, <1>8, <1>9, ProceedEnters
<1> QED
  BY <1>3, <1>10 DEF r

\* The answer that a call awaits arrives.
Answered(c) ==
  /\ wire # <<>> /\ c \in Registered(Head(wire)) /\ call[c].answer = None
  /\ broker' = Handled(broker, Head(wire)) /\ wire' = Tail(wire)
  /\ OthersStay(c) /\ call'[c].phase = call[c].phase /\ call'[c].request = call[c].request
  /\ call'[c].more = call[c].more /\ call'[c].id = call[c].id
  /\ call'[c].answer = IF Refused(Head(wire), c) THEN "refused" ELSE "accepted"
  /\ UNCHANGED <<index, observers, dead, orphans>>

\* unsubscribe() goes on to subscribe the observed filters again.
Restored(c) ==
  /\ call[c].phase = "unsubscribing" /\ call[c].answer # None /\ ~dead
  /\ OthersStay(c) /\ call'[c].phase = "restoring" /\ call'[c].request = call[c].request
  /\ call'[c].more = call[c].more /\ call'[c].id = NextId(c) /\ call'[c].answer = None
  /\ Send("subscribe", call[c].more, c)
  /\ UNCHANGED <<index, observers, orphans, broker, dead>>

\* A call ends, with the answer it wants or without.
Succeeds(c) ==
  /\ InBody(c) /\ call[c].answer \notin {None, "refused"}
  /\ orphans' = IF call[c].phase \in {"subscribing", "observing"}
                THEN orphans \ ToSet(call[c].request.filters) ELSE orphans
  /\ UNCHANGED <<index, observers>>
Ended(c) ==
  /\ call[c].phase \in Waiting \cup {"acquiring"} /\ call'[c].phase = "done" /\ OthersStay(c)
  /\ UNCHANGED <<wire, broker, dead>>
  /\ Undo(c) \/ Succeeds(c)

\* The connection ends.
Dies == dead' = TRUE /\ wire' = <<>> /\ UNCHANGED <<call, index, observers, orphans>>

\* The read loop hands an answer to the call that is registered for it.
LEMMA AnswerAnswers ==
  ASSUME HoldInv, NEW c \in Calls, Answer(c)
  PROVE  Answered(c)
<1> DEFINE answer == IF Refused(Head(wire), c) THEN "refused" ELSE "accepted"
           record == [call[c] EXCEPT !.answer = answer]
<1>1. /\ wire # <<>> /\ c \in Registered(Head(wire)) /\ call[c].answer = None
      /\ broker' = Handled(broker, Head(wire)) /\ wire' = Tail(wire)
      /\ call' = [call EXCEPT ![c].answer = answer]
      /\ UNCHANGED <<hold, index, observers, dead, orphans>>
  BY DEF Answer
<1>2. DOMAIN call = Calls /\ DOMAIN call[c] = Fields
  BY <1>1 DEF HoldInv, CallFits, Active, Registered
<1> HIDE DEF answer
<1>3. call'[c] = record /\ OthersStay(c)
  BY <1>1, <1>2 DEF OthersStay
<1>4. /\ record.phase = call[c].phase /\ record.request = call[c].request /\ record.answer = answer
      /\ record.more = call[c].more /\ record.id = call[c].id
  BY <1>2 DEF Fields
<1> HIDE DEF record
<1> QED
  BY <1>1, <1>3, <1>4 DEF Answered, answer

\* The end of a call touches no other.
LEMMA FinishEnds ==
  ASSUME HoldInv, NEW c \in Calls, Active(c), Finish(c)
  PROVE  call'[c].phase = "done" /\ OthersStay(c)
<1>1. DOMAIN call = Calls /\ DOMAIN call[c] = Fields
  BY DEF HoldInv, CallFits
<1>2. call' = [call EXCEPT ![c].phase = "done"]
  BY DEF Finish
<1>3. "phase" \in Fields
  BY DEF Fields
<1> QED
  BY <1>1, <1>2, <1>3 DEF OthersStay

\* A call that resumes goes on to restore the observed filters, or ends.
LEMMA ResumeGoesOn ==
  ASSUME HoldInv, NEW c \in Calls, Resume(c)
  PROVE  Restored(c) \/ Ended(c)
<1>1. InBody(c) /\ Active(c) /\ call[c].answer # None /\ UNCHANGED <<broker, dead>>
  BY DEF Resume, Active
<1>2. CASE call[c].phase = "unsubscribing" /\ call[c].more # <<>> /\ ~dead
  <2> DEFINE record == [call[c] EXCEPT !.phase = "restoring", !.id = NextId(c), !.answer = None]
  <2>1. /\ call' = [call EXCEPT ![c].phase = "restoring", ![c].id = NextId(c), ![c].answer = None]
        /\ Send("subscribe", call[c].more, c)
        /\ UNCHANGED <<hold, index, observers, orphans>>
    BY <1>2 DEF Resume
  <2>2. DOMAIN call = Calls /\ DOMAIN call[c] = Fields
    BY <1>1 DEF HoldInv, CallFits
  <2>3. call'[c] = record /\ OthersStay(c)
    BY <2>1, <2>2 DEF OthersStay
  <2>4. /\ record.phase = "restoring" /\ record.request = call[c].request /\ record.answer = None
        /\ record.more = call[c].more /\ record.id = NextId(c)
    BY <2>2 DEF Fields
  <2> HIDE DEF record
  <2> QED
    BY <1>1, <1>2, <2>1, <2>3, <2>4 DEF Restored
<1>3. CASE ~(call[c].phase = "unsubscribing" /\ call[c].more # <<>> /\ ~dead)
  <2>1. /\ Finish(c) /\ UNCHANGED wire
        /\ IF call[c].answer = "refused" THEN Undo(c)
           ELSE /\ orphans' = IF call[c].phase \in {"subscribing", "observing"}
                              THEN orphans \ ToSet(call[c].request.filters) ELSE orphans
                /\ UNCHANGED <<index, observers>>
    BY <1>3 DEF Resume
  <2>2. call'[c].phase = "done" /\ OthersStay(c)
    BY <1>1, <2>1, FinishEnds
  <2>3. Undo(c) \/ Succeeds(c)
    BY <1>1, <2>1 DEF Succeeds
  <2> QED
    BY <1>1, <2>1, <2>2, <2>3 DEF Ended, InBody
<1> QED
  BY <1>2, <1>3

\* A call that is cancelled, or fails with the connection, ends.
LEMMA GiveUpEnds ==
  ASSUME HoldInv, NEW c \in Calls, Cancel(c) \/ Fail(c)
  PROVE  Ended(c)
<1>1. call[c].phase \in Waiting \cup {"acquiring"} /\ Finish(c) /\ Undo(c) /\ UNCHANGED <<wire, broker, dead>>
  BY DEF Cancel, Fail, InBody
<1>2. Active(c)
  BY <1>1 DEF Active, InBody
<1> QED
  BY <1>1, <1>2, FinishEnds DEF Ended

\* Every step is one of these.
LEMMA StepKinds ==
  ASSUME HoldInv, Next
  PROVE  \/ \E c \in Calls : \/ \E r \in Requests : Enters(c, r)
                             \/ Answered(c) \/ Restored(c) \/ Ended(c)
         \/ Dies
<1>1. ASSUME NEW c \in Calls, NEW r \in Requests, Begin(c, r) PROVE Enters(c, r)
  BY <1>1, BeginEnters
<1>2. ASSUME NEW c \in Calls, Acquired(c) PROVE \E r \in Requests : Enters(c, r)
  BY <1>2, AcquiredEnters
<1>3. ASSUME AnswerNobody \/ Lose PROVE Dies
  BY <1>3 DEF AnswerNobody, Lose, Dies
<1> QED
  BY <1>1, <1>2, <1>3, AnswerAnswers, ResumeGoesOn, GiveUpEnds DEF Next

-----------------------------------------------------------------------------
(* The index in every state.                                               *)

\* The index is exact, and so will be what a failed subscribe() leaves of it.
IndexInv ==
  /\ index \in ExactIndexes
  /\ \A c \in Calls : InBody(c) => call[c].more \in Seq(Filters)

\* The empty index is exact.
LEMMA IndexInit == Init => IndexInv
<1> SUFFICES ASSUME Init PROVE IndexInv
  OBVIOUS
<1>1. \A c \in Calls : ~InBody(c)
  BY DEF Init, NotCalled, InBody, Waiting
<1> DEFINE entries == <<>>
           root == [p \in {<<>>} |-> <<>>]
           table == <<>>
<1>2. DOMAIN entries = {} /\ DOMAIN table = {} /\ entries \in [{} -> [identifier : SubscriptionIds]]
  OBVIOUS
<1>3. entries \in Entries
  BY <1>2, TablesFacts DEF Entries
<1>4. Nodes({}) = {<<>>}
  BY DEF Nodes
<1>5. IsInjective(<<>>) /\ ToSet(<<>>) = {} /\ <<>> \in Seq(Filters)
  BY DEF IsInjective, ToSet
<1>6. Trie(root, {})
  BY <1>4, <1>5 DEF Trie, Lists
<1>7. Used(entries) = {}
  BY <1>2 DEF Used
<1>8. Identified(table, entries)
  BY <1>2, <1>7 DEF Identified
<1>9. index = [entries |-> entries, root |-> root, byIdentifier |-> table]
  BY DEF Init, EmptyIndex
<1> HIDE DEF entries, root, table
<1>10. index \in ExactIndexes
  BY <1>2, <1>3, <1>6, <1>8, <1>9, ExactFrom
<1> QED
  BY <1>1, <1>10 DEF IndexInv

\* What a call that gives up does to the filters that have an entry.
LEMMA UndoKnown ==
  ASSUME IndexInv, NEW c \in Calls, Undo(c)
  PROVE  /\ index' \in ExactIndexes
         /\ Known' = IF call[c].phase = "subscribing" THEN Known \ ToSet(call[c].more) ELSE Known
<1>1. CASE call[c].phase = "subscribing"
  <2>1. call[c].more \in Seq(Filters) /\ index' = RemoveMany(index, call[c].more)
    BY <1>1 DEF IndexInv, InBody, Waiting, Undo
  <2> QED
    BY <1>1, <2>1, RemoveManyExact DEF IndexInv, Known
<1>2. CASE call[c].phase # "subscribing"
  BY <1>2 DEF IndexInv, Undo, Known
<1> QED
  BY <1>1, <1>2

\* Every step keeps the index exact.
LEMMA IndexStep ==
  ASSUME HoldInv, IndexInv, [Next]_vars
  PROVE  IndexInv'
<1>1. ASSUME NEW c \in Calls, NEW r \in Requests, Enters(c, r) PROVE IndexInv'
  <2>1. OthersStay(c)
    BY <1>1 DEF Enters
  <2>2. CASE call'[c].phase = "acquiring" /\ UNCHANGED index
    BY <2>1, <2>2 DEF IndexInv, OthersStay, InBody, Waiting
  <2>3. CASE call'[c].more = Body(r).more /\ index' = Body(r).index
    <3>1. Body(r).index \in ExactIndexes /\ Body(r).more \in Seq(Filters)
      BY BodyFacts DEF IndexInv, BodyDoes
    <3> QED
      BY <2>1, <2>3, <3>1 DEF IndexInv, OthersStay, InBody
  <2> QED
    BY <1>1, <2>2, <2>3 DEF Enters
<1>2. ASSUME NEW c \in Calls, Answered(c) PROVE IndexInv'
  BY <1>2 DEF Answered, IndexInv, OthersStay, InBody
<1>3. ASSUME NEW c \in Calls, Restored(c) PROVE IndexInv'
  <2>1. InBody(c)
    BY <1>3 DEF Restored, InBody, Waiting
  <2> QED
    BY <1>3, <2>1 DEF Restored, IndexInv, OthersStay, InBody
<1>4. ASSUME NEW c \in Calls, Ended(c) PROVE IndexInv'
  <2>1. index' \in ExactIndexes
    BY <1>4, UndoKnown DEF Ended, Succeeds, IndexInv
  <2> QED
    BY <1>4, <2>1 DEF Ended, IndexInv, OthersStay, InBody, Waiting
<1>5. ASSUME Dies PROVE IndexInv'
  BY <1>5 DEF Dies, IndexInv, InBody
<1>6. ASSUME UNCHANGED vars PROVE IndexInv'
  BY <1>6 DEF vars, IndexInv, InBody
<1> QED
  BY <1>1, <1>2, <1>3, <1>4, <1>5, <1>6, StepKinds

\* The index is exact in every reachable state.
LEMMA IndexAlways == Spec => [](HoldInv /\ IndexInv)
<1>1. Init => HoldInv /\ IndexInv
  BY HoldInit, IndexInit
<1>2. HoldInv /\ IndexInv /\ [Next]_vars => HoldInv' /\ IndexInv'
  BY HoldStep, IndexStep
<1> QED
  BY <1>1, <1>2, PTL DEF Spec

\* A list without repetitions is as long as the set of its members is large.
LEMMA ListsHolds ==
  ASSUME NEW T, NEW s \in Seq(T), NEW S, Lists(s, S)
  PROVE  ToSet(s) = S /\ Len(s) = Cardinality(S)
<1>1. IsInjective(s) /\ ToSet(s) = S /\ Len(s) \in 0 .. Len(s) /\ DOMAIN s = 1 .. Len(s)
  BY DEF Lists
<1>2. {s[j] : j \in 1 .. Len(s)} = S
  BY <1>1 DEF ToSet
<1>3. Cardinality({s[j] : j \in 1 .. Len(s)}) = Len(s)
  BY <1>1, LeaveQueue
<1> QED
  BY <1>1, <1>2, <1>3

\* add() and remove() in any order keep the trie and the table of identifiers exact.
THEOREM IndexExactHolds == Spec => []IndexExact
<1>1. ASSUME IndexInv PROVE IndexExact
  <2> DEFINE entries == index.entries
             root == index.root
             table == index.byIdentifier
             Holds(s, fs) == ToSet(s) = fs /\ Len(s) = Cardinality(fs)
  <2>1. entries \in Entries /\ Trie(root, DOMAIN entries) /\ Identified(table, entries)
    BY <1>1 DEF IndexInv, ExactIndexes, Exact, Indexes
  <2>2. DOMAIN entries \in SUBSET Filters
    BY <2>1, EntriesFacts
  <2> HIDE DEF entries, root, table
  <2>3. \A f \in DOMAIN entries : ActualFilter(f) = BrokerFilter(f)
    BY <2>2, ActualFacts
  <2>4. DOMAIN root = Nodes(DOMAIN entries) /\ \A p \in DOMAIN root : root[p] \in Seq(Filters)
    BY <2>1 DEF Trie
  <2>5. Nodes(DOMAIN entries) = {<<>>} \cup UNION {NodesOf(BrokerFilter(f)) : f \in DOMAIN entries}
    <3>1. \A f \in DOMAIN entries : NodesOf(ActualFilter(f)) = NodesOf(BrokerFilter(f))
      BY <2>3, Zenon
    <3> QED
      BY <3>1 DEF Nodes
  <2>6. ASSUME NEW p \in DOMAIN root
        PROVE  Holds(root[p], {f \in DOMAIN entries : BrokerFilter(f) = p})
    <3>1. {f \in DOMAIN entries : ActualFilter(f) = p} = {f \in DOMAIN entries : BrokerFilter(f) = p}
      BY <2>3
    <3>2. Lists(root[p], {f \in DOMAIN entries : BrokerFilter(f) = p})
      BY <2>1, <2>4, <3>1 DEF Trie
    <3> QED
      BY <2>4, <3>2, ListsHolds
  <2>7. DOMAIN table = Used(entries) /\ \A i \in Used(entries) : table[i] \in Seq(Filters)
    BY <2>1 DEF Identified
  <2>8. ASSUME NEW i \in Used(entries)
        PROVE  Holds(table[i], {f \in DOMAIN entries : entries[f].identifier = i})
    <3>1. Lists(table[i], {f \in DOMAIN entries : entries[f].identifier = i})
      BY <2>1 DEF Identified, Having
    <3> QED
      BY <2>7, <3>1, ListsHolds
  <2> HIDE DEF Holds
  <2>9. Used(entries) = {entries[f].identifier : f \in DOMAIN entries} \ {NoIdentifier}
    BY DEF Used
  <2> QED
    BY <2>4, <2>5, <2>6, <2>7, <2>8, <2>9 DEF IndexExact, entries, root, table, Holds
<1> QED
  BY <1>1, IndexAlways, PTL

-----------------------------------------------------------------------------
(* The requests on the wire.                                               *)

Sendable == [op : {"subscribe", "unsubscribe"}, filters : Seq(Filters), id : Nat, call : Calls]
OnWire == ToSet(wire)

\* The filters of the request of a call past its locks.
Carries(q, c) ==
  /\ call[c].phase \in {"subscribing", "observing"} => q.filters = call[c].request.filters
  /\ call[c].phase = "restoring" => ToSet(q.filters) \subseteq FiltersOf(c) \cap observers
  /\ call[c].phase \in {"unsubscribing", "unobserving"} => ToSet(q.filters) = FiltersOf(c) \ observers

\* A request is of a call that has sent it, and while the call awaits its answer the two agree.
Sent(q) ==
  LET c == q.call IN
  /\ call[c].phase \notin {"idle", "acquiring"}
  /\ call[c].phase = "unsubscribing" => q.op = "unsubscribe"
  /\ InBody(c) /\ Table(c) = q.op => q.id = call[c].id /\ Carries(q, c)

\* A call past its locks has an identifier of its own, and a request on the wire until
\* its answer arrives.
Awaits(c) ==
  /\ call[c].id \in Nat /\ call[c].answer \in {None, "accepted", "refused"}
  /\ call[c].phase = "subscribing" => ToSet(call[c].more) \subseteq FiltersOf(c)
  /\ call[c].phase = "unsubscribing" => ToSet(call[c].more) \subseteq FiltersOf(c) \cap observers
  /\ \A d \in Calls : InBody(d) /\ call[d].id = call[c].id => d = c
  /\ ~dead /\ call[c].answer = None => \E q \in OnWire : q.call = c /\ q.op = Table(c)

WireInv ==
  /\ wire \in Seq(Sendable)
  /\ \A q \in OnWire : Sent(q)
  /\ \A c \in Calls : InBody(c) => Awaits(c)

\* No call has given up a request that is on the wire.
Clean == ~dead /\ \A q \in OnWire : ~Stray(q)

\* What the broker has of a filter that no call past its locks names, and of one that a
\* call does.
Settled(f) ==
  /\ f \in Known \cup observers => f \in broker
  /\ f \in broker => f \in Known \cup observers \cup orphans
Busy(c, f) ==
  /\ call[c].phase = "subscribing" =>
       /\ f \in Known
       /\ f \notin ToSet(call[c].more) \/ f \in observers \/ call[c].answer = "accepted" => f \in broker
  /\ call[c].phase = "observing" =>
       /\ f \in observers /\ f \notin Known
       /\ call[c].answer = "accepted" => f \in broker
  /\ call[c].phase \in {"unsubscribing", "restoring", "unobserving"} =>
       /\ f \notin Known
       /\ f \in observers => f \in broker
       /\ f \in Kept => f \in observers \cup orphans
       /\ call[c].phase = "restoring" \/ call[c].answer # None
            => (f \in broker => f \in observers \cup orphans)

BrokerInv ==
  Clean => /\ \A c \in Calls : InBody(c) => \A f \in FiltersOf(c) : Busy(c, f)
           /\ \A f : (\A c \in Calls : InBody(c) => f \notin FiltersOf(c)) => Settled(f)

\* acquire() returns an identifier that no other call past its locks has.
LEMMA NextIdFacts ==
  ASSUME NEW c \in Calls
  PROVE  /\ NextId(c) \in Nat
         /\ \A d \in Calls \ {c} : InBody(d) => call[d].id # NextId(c)
<1> DEFINE others == {d \in Calls \ {c} : InBody(d)}
           used == {call[d].id : d \in others}
           n == Cardinality(Calls)
           free == (1 .. n) \ used
<1>1. IsFiniteSet(Calls) /\ n \in Nat /\ IsFiniteSet(Calls \ {c}) /\ Cardinality(Calls \ {c}) = n - 1
  BY CallsAssumption, FS_CardinalityType, FS_RemoveElement
<1>2. IsFiniteSet(others) /\ Cardinality(others) <= n - 1 /\ Cardinality(others) \in Nat
  BY <1>1, FS_Subset, FS_CardinalityType
<1>3. IsFiniteSet(used) /\ Cardinality(used) <= Cardinality(others) /\ Cardinality(used) \in Nat
  <2> DEFINE f == [d \in others |-> call[d].id]
  <2>1. f \in Surjection(others, used)
    BY DEF Surjection
  <2> HIDE DEF others, used, f
  <2>2. IsFiniteSet(used) /\ Cardinality(used) <= Cardinality(others)
    BY <1>2, <2>1, FS_Surjection
  <2> QED
    BY <2>2, FS_CardinalityType
<1>4. IsFiniteSet(1 .. n) /\ Cardinality(1 .. n) = n
  BY <1>1, FS_Interval
<1> HIDE DEF used, others, n
<1>5. free # {}
  <2> SUFFICES ASSUME 1 .. n \subseteq used PROVE FALSE
    OBVIOUS
  <2>1. Cardinality(1 .. n) <= Cardinality(used)
    <3> DEFINE T == 1 .. n
    <3>1. T \in SUBSET used
      OBVIOUS
    <3> HIDE DEF T
    <3>2. Cardinality(T) <= Cardinality(used)
      BY <1>3, <3>1, FS_Subset
    <3> QED
      BY <3>2 DEF T
  <2> QED
    BY <1>1, <1>2, <1>3, <1>4, <2>1
<1>6. free \in SUBSET Nat
  OBVIOUS
<1>7. Min(free) \in free
  BY <1>5, <1>6, LeastNatural
<1>8. NextId(c) = Min(free)
  BY DEF NextId, free, used, others, n
<1>9. NextId(c) \in Nat /\ NextId(c) \notin used
  BY <1>6, <1>7, <1>8
<1> QED
  BY <1>9 DEF used, others

\* What a sending body sends.
LEMMA BodySends ==
  ASSUME index \in ExactIndexes, NEW r \in Requests, Body(r).phase # "done"
  PROVE  /\ Body(r).phase \in Waiting /\ Body(r).op \in {"subscribe", "unsubscribe"} /\ Body(r).op # None
         /\ Body(r).op = IF Body(r).phase \in {"unsubscribing", "unobserving"} THEN "unsubscribe" ELSE "subscribe"
         /\ Body(r).filters \in Seq(Filters) /\ ~dead
<1>1. BodyDoes(r)
  BY BodyFacts
<1>2. Body(r).phase \in Waiting /\ ~dead /\ Body(r).filters \in Seq(Filters)
  BY <1>1 DEF BodyDoes
<1>3. Body(r).op = IF Body(r).phase \in {"unsubscribing", "unobserving"} THEN "unsubscribe" ELSE "subscribe"
  BY <1>1, <1>2 DEF BodyDoes, Waiting, Subscribes, Unsubscribes, Restores, Observes, Unobserves
<1> QED
  BY <1>2, <1>3 DEF None

\* A body changes nothing of the filters it does not name.
LEMMA BodyElsewhere ==
  ASSUME index \in ExactIndexes, NEW r \in Requests, NEW f, f \notin ToSet(r.filters)
  PROVE  /\ f \in BodyKnown(r) <=> f \in Known
         /\ f \in Body(r).observers <=> f \in observers
         /\ ~dead => (f \in Body(r).orphans <=> f \in orphans)
<1>1. BodyDoes(r)
  BY BodyFacts
<1>2. CASE Body(r).phase = "done"
  BY <1>1, <1>2 DEF BodyDoes, Returns
<1>3. CASE Body(r).phase = "subscribing"
  BY <1>1, <1>3 DEF BodyDoes, Subscribes
<1>4. CASE Body(r).phase = "unsubscribing"
  BY <1>1, <1>4 DEF BodyDoes, Unsubscribes
<1>5. CASE Body(r).phase = "restoring"
  BY <1>1, <1>5 DEF BodyDoes, Restores
<1>6. CASE Body(r).phase = "observing"
  BY <1>1, <1>6 DEF BodyDoes, Observes
<1>7. CASE Body(r).phase = "unobserving"
  BY <1>1, <1>7 DEF BodyDoes, Unobserves
<1> QED
  BY <1>1, <1>2, <1>3, <1>4, <1>5, <1>6, <1>7 DEF BodyDoes, Waiting

\* A step of one call leaves the others and their requests as they are.
LEMMA OthersFacts ==
  ASSUME NEW c \in Calls, OthersStay(c), NEW d \in Calls, d # c
  PROVE  /\ call'[d] = call[d] /\ (InBody(d)' <=> InBody(d))
         /\ Table(d)' = Table(d) /\ FiltersOf(d)' = FiltersOf(d)
BY DEF OthersStay, InBody, Table, FiltersOf

ObserversStay(c) ==
  \A d \in Calls \ {c} : InBody(d) => \A f \in FiltersOf(d) : f \in observers' <=> f \in observers

\* A request of another call stays in agreement with it.
LEMMA SentStays ==
  ASSUME NEW c \in Calls, OthersStay(c), ObserversStay(c),
         NEW q \in Sendable, q.call # c, Sent(q)
  PROVE  Sent(q)'
<1> DEFINE d == q.call
<1>1. d \in Calls /\ d # c
  BY DEF Sendable
<1>2. /\ call'[d] = call[d] /\ (InBody(d)' <=> InBody(d))
      /\ Table(d)' = Table(d) /\ FiltersOf(d)' = FiltersOf(d)
  BY <1>1, OthersFacts
<1>3. ASSUME InBody(d), Carries(q, d) PROVE Carries(q, d)'
  BY <1>1, <1>2, <1>3 DEF Carries, ObserversStay
<1> QED
  BY <1>2, <1>3 DEF Sent

\* Another call past its locks still has its own identifier and its request.
LEMMA AwaitsStays ==
  ASSUME NEW c \in Calls, OthersStay(c), ObserversStay(c), dead' = dead,
         NEW d \in Calls, d # c, InBody(d), Awaits(d),
         InBody(c)' => call'[c].id # call[d].id,
         \A q \in OnWire : q.call = d /\ q.op = Table(d) => q \in OnWire'
  PROVE  Awaits(d)'
<1>1. /\ call'[d] = call[d] /\ (InBody(d)' <=> InBody(d))
      /\ Table(d)' = Table(d) /\ FiltersOf(d)' = FiltersOf(d)
  BY OthersFacts
<1>2. /\ call'[d].id \in Nat /\ call'[d].answer \in {None, "accepted", "refused"}
  BY <1>1 DEF Awaits
<1>3. /\ call'[d].phase = "subscribing" => ToSet(call'[d].more) \subseteq FiltersOf(d)'
      /\ call'[d].phase = "unsubscribing" => ToSet(call'[d].more) \subseteq FiltersOf(d)' \cap observers'
  BY <1>1 DEF Awaits, ObserversStay
<1>4. ASSUME NEW e \in Calls, InBody(e)', call'[e].id = call'[d].id PROVE e = d
  <2>1. CASE e = c
    BY <1>1, <1>4, <2>1
  <2>2. CASE e # c
    <3>1. InBody(e) /\ call[e].id = call[d].id
      BY <1>1, <1>4, <2>2, OthersFacts
    <3> QED
      BY <3>1 DEF Awaits
  <2> QED
    BY <2>1, <2>2
<1>5. ASSUME ~dead', call'[d].answer = None PROVE \E q \in OnWire' : q.call = d /\ q.op = Table(d)'
  BY <1>1, <1>5 DEF Awaits
<1> QED
  BY <1>2, <1>3, <1>4, <1>5 DEF Awaits

\* Wire and observers as a call that enters leaves them.
LEMMA EntersStays ==
  ASSUME IndexInv, NEW c \in Calls, NEW r \in Requests, Enters(c, r)
  PROVE  ObserversStay(c) /\ OthersStay(c) /\ ~InBody(c) /\ dead' = dead
<1>1. ~InBody(c) /\ OthersStay(c) /\ dead' = dead
  BY DEF Enters, InBody, Waiting
<1>2. CASE UNCHANGED observers
  BY <1>1, <1>2 DEF ObserversStay
<1>3. CASE Alone(c, ToSet(r.filters)) /\ observers' = Body(r).observers
  <2> SUFFICES ASSUME NEW d \in Calls \ {c}, InBody(d), NEW f \in FiltersOf(d)
               PROVE  f \in observers' <=> f \in observers
    BY <1>1 DEF ObserversStay
  <2>1. f \notin ToSet(r.filters)
    BY <1>3 DEF Alone
  <2> QED
    BY <1>3, <2>1, BodyElsewhere DEF IndexInv
<1> QED
  BY <1>1, <1>2, <1>3 DEF Enters

\* A call that enters has nothing on the wire.
LEMMA NothingSent ==
  ASSUME WireInv, NEW c \in Calls, call[c].phase \in {"idle", "acquiring"}, NEW q \in OnWire
  PROVE  q.call # c
BY DEF WireInv, Sent

\* The members of the wire are requests.
LEMMA OnWireTyped ==
  ASSUME WireInv, NEW q \in OnWire
  PROVE  q \in Sendable /\ q.call \in Calls
<1>1. wire \in Seq(Sendable)
  BY DEF WireInv
<1>2. q \in Sendable
  BY <1>1 DEF OnWire, ToSet
<1> QED
  BY <1>2 DEF Sendable

\* A call sends a request: the ones that were on the wire remain.
LEMMA SendGrows ==
  ASSUME WireInv, NEW c \in Calls, NEW op \in {"subscribe", "unsubscribe"}, NEW fs \in Seq(Filters),
         Send(op, fs, c)
  PROVE  \E q \in Sendable :
           /\ q.op = op /\ q.filters = fs /\ q.id = NextId(c) /\ q.call = c
           /\ wire' \in Seq(Sendable) /\ OnWire' = OnWire \cup {q}
<1> DEFINE q == [op |-> op, filters |-> fs, id |-> NextId(c), call |-> c]
<1>1. q \in Sendable /\ q.op = op /\ q.filters = fs /\ q.id = NextId(c) /\ q.call = c
  BY NextIdFacts DEF Sendable
<1>2. wire' = Append(wire, q) /\ wire \in Seq(Sendable)
  BY DEF Send, WireInv
<1> HIDE DEF q
<1>3. wire' \in Seq(Sendable) /\ ToSet(wire') = ToSet(wire) \cup {q}
  BY <1>1, <1>2, AppendQueue
<1> QED
  BY <1>1, <1>3 DEF OnWire

\* The request of a call that enters is what its phase says.
LEMMA EntersSent ==
  ASSUME index \in ExactIndexes, NEW c \in Calls, NEW r \in Requests, Body(r).phase # "done",
         NEW q, q.op = Body(r).op, q.filters = Body(r).filters, q.id = NextId(c), q.call = c,
         call'[c].phase = Body(r).phase, call'[c].request = r, call'[c].id = NextId(c),
         observers' = Body(r).observers
  PROVE  Sent(q)' /\ q.op = Table(c)'
<1>1. BodyDoes(r) /\ Body(r).phase \in Waiting
  BY BodyFacts, BodySends
<1>2. q.op = Table(c)'
  BY BodySends DEF Table
<1>3. Carries(q, c)'
  <2>1. CASE Body(r).phase = "subscribing"
    BY <1>1, <2>1 DEF BodyDoes, Subscribes, Carries
  <2>2. CASE Body(r).phase = "unsubscribing"
    BY <1>1, <2>2 DEF BodyDoes, Unsubscribes, Carries, FiltersOf
  <2>3. CASE Body(r).phase = "restoring"
    BY <1>1, <2>3 DEF BodyDoes, Restores, Carries, FiltersOf
  <2>4. CASE Body(r).phase = "observing"
    BY <1>1, <2>4 DEF BodyDoes, Observes, Carries
  <2>5. CASE Body(r).phase = "unobserving"
    BY <1>1, <2>5 DEF BodyDoes, Unobserves, Carries, FiltersOf
  <2> QED
    BY <1>1, <2>1, <2>2, <2>3, <2>4, <2>5 DEF Waiting
<1>4. call'[c].phase \notin {"idle", "acquiring"}
  BY <1>1 DEF Waiting
<1>5. call'[c].phase = "unsubscribing" => q.op = "unsubscribe"
  BY <1>1 DEF BodyDoes, Unsubscribes
<1> QED
  BY <1>2, <1>3, <1>4, <1>5 DEF Sent

\* A call that enters sends at most one request, under an identifier of its own.
LEMMA EntersWire ==
  ASSUME IndexInv, WireInv, NEW c \in Calls, NEW r \in Requests, Enters(c, r)
  PROVE  WireInv'
<1>1. ObserversStay(c) /\ OthersStay(c) /\ ~InBody(c) /\ dead' = dead
  BY EntersStays
<1>2. \A q \in OnWire : q \in Sendable /\ q.call # c /\ Sent(q)
  BY NothingSent, OnWireTyped DEF Enters, WireInv
<1>3. \A q \in OnWire : Sent(q)'
  BY <1>1, <1>2, SentStays
<1>4. CASE UNCHANGED wire /\ ~InBody(c)'
  <2>1. OnWire' = OnWire
    BY <1>4 DEF OnWire
  <2>2. ASSUME NEW d \in Calls, InBody(d)' PROVE Awaits(d)'
    <3>1. d # c /\ InBody(d)
      BY <1>1, <1>4, <2>2, OthersFacts
    <3>2. Awaits(d)
      BY <3>1 DEF WireInv
    <3> QED
      BY <1>1, <1>4, <2>1, <3>1, <3>2, AwaitsStays
  <2> QED
    BY <1>3, <1>4, <2>1, <2>2 DEF WireInv
<1>5. CASE /\ call'[c].phase = Body(r).phase /\ call'[c].request = r /\ call'[c].more = Body(r).more
           /\ call'[c].id = NextId(c) /\ call'[c].answer = None /\ observers' = Body(r).observers
           /\ IF Body(r).op = None THEN UNCHANGED wire ELSE Send(Body(r).op, Body(r).filters, c)
  <2>0. index \in ExactIndexes /\ BodyDoes(r)
    BY BodyFacts DEF IndexInv
  <2>1. CASE Body(r).phase = "done"
    <3>1. UNCHANGED wire /\ ~InBody(c)'
      BY <1>5, <2>0, <2>1 DEF BodyDoes, Returns, InBody, Waiting
    <3> QED
      BY <1>4, <3>1
  <2>2. CASE Body(r).phase # "done"
    <3>1. /\ Body(r).op \in {"subscribe", "unsubscribe"} /\ Body(r).filters \in Seq(Filters)
          /\ Send(Body(r).op, Body(r).filters, c) /\ Body(r).phase \in Waiting
      BY <1>5, <2>0, <2>2, BodySends
    <3>2. PICK q \in Sendable :
            /\ q.op = Body(r).op /\ q.filters = Body(r).filters /\ q.id = NextId(c) /\ q.call = c
            /\ wire' \in Seq(Sendable) /\ OnWire' = OnWire \cup {q}
      BY <3>1, SendGrows
    <3>3. Sent(q)' /\ q.op = Table(c)'
      BY <1>5, <2>0, <2>2, <3>2, EntersSent
    <3>4. NextId(c) \in Nat /\ \A d \in Calls \ {c} : InBody(d) => call[d].id # NextId(c)
      BY NextIdFacts
    <3>5. ASSUME NEW d \in Calls, InBody(d)', d # c PROVE Awaits(d)' /\ call'[d].id # call'[c].id
      <4>1. InBody(d) /\ call'[d] = call[d]
        BY <1>1, <3>5, OthersFacts
      <4>2. Awaits(d) /\ call'[c].id # call[d].id
        BY <1>5, <3>4, <3>5, <4>1 DEF WireInv
      <4>3. \A p \in OnWire : p \in OnWire'
        BY <3>2
      <4> QED
        BY <1>1, <3>5, <4>1, <4>2, <4>3, AwaitsStays
    <3>6. Awaits(c)'
      <4>1. /\ call'[c].phase = "subscribing" => ToSet(call'[c].more) \subseteq FiltersOf(c)'
            /\ call'[c].phase = "unsubscribing" => ToSet(call'[c].more) \subseteq FiltersOf(c)' \cap observers'
        BY <1>5, <2>0 DEF BodyDoes, Subscribes, Unsubscribes, FiltersOf
      <4>2. \E p \in OnWire' : p.call = c /\ p.op = Table(c)'
        BY <3>2, <3>3
      <4> QED
        BY <1>5, <3>4, <3>5, <4>1, <4>2 DEF Awaits
    <3> QED
      BY <1>3, <3>2, <3>3, <3>5, <3>6 DEF WireInv
  <2> QED
    BY <2>1, <2>2
<1>6. call'[c].phase = "acquiring" => ~InBody(c)'
  BY DEF InBody, Waiting
<1> QED
  BY <1>4, <1>5, <1>6 DEF Enters

\* The answer to a call that awaits it is for its own request, or leaves that on the wire.
LEMMA AnsweredWire ==
  ASSUME WireInv, NEW c \in Calls, Answered(c)
  PROVE  WireInv'
<1> DEFINE q == Head(wire)
<1>1. /\ InBody(c) /\ Table(c) = q.op /\ call[c].id = q.id /\ OthersStay(c) /\ dead' = dead
      /\ call'[c].phase = call[c].phase /\ call'[c].request = call[c].request
      /\ call'[c].more = call[c].more /\ call'[c].id = call[c].id
      /\ call'[c].answer \in {"accepted", "refused"} /\ observers' = observers
  BY DEF Answered, Registered
<1>2. wire' \in Seq(Sendable) /\ q \in OnWire /\ OnWire = OnWire' \cup {q}
  <2>1. wire \in Seq(Sendable) /\ wire # <<>> /\ wire' = Tail(wire)
    BY DEF WireInv, Answered
  <2> QED
    BY <2>1, TailQueue DEF OnWire
<1> HIDE DEF q
<1>3. InBody(c)' /\ Table(c)' = Table(c) /\ FiltersOf(c)' = FiltersOf(c) /\ Awaits(c)
  BY <1>1 DEF InBody, Table, FiltersOf, WireInv
<1>4. ObserversStay(c)
  BY <1>1 DEF ObserversStay
<1>5. ASSUME NEW p \in OnWire' PROVE Sent(p)'
  <2>1. p \in OnWire /\ p \in Sendable /\ Sent(p)
    BY <1>2, OnWireTyped DEF WireInv
  <2>2. CASE p.call # c
    BY <1>1, <1>4, <2>1, <2>2, SentStays
  <2>3. CASE p.call = c
    <3>1. Carries(p, c) => Carries(p, c)'
      BY <1>1, <1>3 DEF Carries
    <3> QED
      BY <1>1, <1>3, <2>1, <2>3, <3>1 DEF Sent
  <2> QED
    BY <2>2, <2>3
<1>6. ASSUME NEW d \in Calls, InBody(d)', d # c PROVE Awaits(d)'
  <2>1. InBody(d) /\ Table(d)' = Table(d)
    BY <1>1, <1>6, OthersFacts
  <2>2. Awaits(d) /\ call[c].id # call[d].id
    BY <1>1, <1>6, <2>1 DEF WireInv, Awaits
  <2>3. ASSUME NEW p \in OnWire, p.call = d, p.op = Table(d) PROVE p \in OnWire'
    <3>1. Sent(p)
      BY DEF WireInv
    <3>2. p.id = call[d].id
      BY <2>1, <2>3, <3>1 DEF Sent
    <3>3. p # q
      BY <1>1, <2>2, <3>2
    <3> QED
      BY <1>2, <3>3
  <2> QED
    BY <1>1, <1>4, <1>6, <2>1, <2>2, <2>3, AwaitsStays
<1>7. Awaits(c)'
  <2>1. ASSUME NEW d \in Calls, InBody(d)', call'[d].id = call'[c].id PROVE d = c
    <3>1. d # c => InBody(d) /\ call[d].id = call[c].id
      BY <1>1, <2>1, OthersFacts
    <3> QED
      BY <1>3, <3>1 DEF Awaits
  <2>2. call'[c].answer # None
    BY <1>1 DEF None
  <2> QED
    BY <1>1, <1>3, <2>1, <2>2 DEF Awaits
<1> QED
  BY <1>2, <1>5, <1>6, <1>7 DEF WireInv

\* The second request of unsubscribe() takes the place of the first.
LEMMA RestoredWire ==
  ASSUME IndexInv, WireInv, NEW c \in Calls, Restored(c)
  PROVE  WireInv'
<1>1. /\ call[c].phase = "unsubscribing" /\ OthersStay(c) /\ dead' = dead /\ observers' = observers
      /\ call'[c].phase = "restoring" /\ call'[c].request = call[c].request
      /\ call'[c].id = NextId(c) /\ call'[c].answer = None
      /\ Send("subscribe", call[c].more, c)
  BY DEF Restored
<1>2. InBody(c) /\ InBody(c)' /\ Table(c)' = "subscribe" /\ FiltersOf(c)' = FiltersOf(c)
  BY <1>1 DEF InBody, Waiting, Table, FiltersOf
<1>3. Awaits(c) /\ call[c].more \in Seq(Filters)
  BY <1>2 DEF WireInv, IndexInv
<1>4. PICK q \in Sendable :
        /\ q.op = "subscribe" /\ q.filters = call[c].more /\ q.id = NextId(c) /\ q.call = c
        /\ wire' \in Seq(Sendable) /\ OnWire' = OnWire \cup {q}
  BY <1>1, <1>3, SendGrows
<1>5. ObserversStay(c)
  BY <1>1 DEF ObserversStay
<1>6. NextId(c) \in Nat /\ \A d \in Calls \ {c} : InBody(d) => call[d].id # NextId(c)
  BY NextIdFacts
<1>7. ASSUME NEW p \in OnWire PROVE Sent(p)'
  <2>1. p \in Sendable /\ Sent(p)
    BY OnWireTyped DEF WireInv
  <2>2. CASE p.call # c
    BY <1>1, <1>5, <2>1, <2>2, SentStays
  <2>3. CASE p.call = c
    BY <1>1, <1>2, <2>1, <2>3 DEF Sent
  <2> QED
    BY <2>2, <2>3
<1>8. Sent(q)'
  <2>1. ToSet(q.filters) \subseteq FiltersOf(c)' \cap observers'
    BY <1>1, <1>2, <1>3, <1>4 DEF Awaits
  <2>2. Carries(q, c)'
    BY <1>1, <2>1 DEF Carries
  <2> QED
    BY <1>1, <1>2, <1>4, <2>2 DEF Sent
<1>9. ASSUME NEW d \in Calls, InBody(d)', d # c PROVE Awaits(d)' /\ call'[d].id # call'[c].id
  <2>1. InBody(d) /\ call'[d] = call[d]
    BY <1>1, <1>9, OthersFacts
  <2>2. Awaits(d) /\ call'[c].id # call[d].id
    BY <1>1, <1>6, <1>9, <2>1 DEF WireInv
  <2>3. \A p \in OnWire : p \in OnWire'
    BY <1>4
  <2> QED
    BY <1>1, <1>5, <1>9, <2>1, <2>2, <2>3, AwaitsStays
<1>10. Awaits(c)'
  <2>1. \E p \in OnWire' : p.call = c /\ p.op = Table(c)'
    BY <1>2, <1>4
  <2> QED
    BY <1>1, <1>6, <1>9, <2>1 DEF Awaits
<1> QED
  BY <1>4, <1>7, <1>8, <1>9, <1>10 DEF WireInv

\* What a call that ends does to the filters it does not name.
LEMMA EndedElsewhere ==
  ASSUME IndexInv, NEW c \in Calls, Ended(c), NEW f, InBody(c) => f \notin FiltersOf(c),
         call[c].phase = "subscribing" => ToSet(call[c].more) \subseteq FiltersOf(c)
  PROVE  /\ f \in Known' <=> f \in Known
         /\ f \in observers' <=> f \in observers
         /\ f \in orphans' <=> f \in orphans
<1>1. CASE Undo(c)
  <2>1. CASE InBody(c)
    <3>1. f \notin FiltersOf(c) /\ (call[c].phase = "subscribing" => f \notin ToSet(call[c].more))
      BY <2>1
    <3> QED
      BY <1>1, <3>1, UndoKnown DEF Undo, FiltersOf
  <2>2. CASE ~InBody(c)
    <3>1. call[c].phase \notin {"subscribing", "observing"}
      BY <2>2 DEF InBody, Waiting
    <3> QED
      BY <1>1, <3>1, UndoKnown DEF Undo
  <2> QED
    BY <2>1, <2>2
<1>2. CASE Succeeds(c)
  BY <1>2 DEF Succeeds, FiltersOf, Known
<1> QED
  BY <1>1, <1>2 DEF Ended

\* A call that ends leaves the observers of the other calls alone.
LEMMA EndedStays ==
  ASSUME HoldInv, NEW c \in Calls, Ended(c)
  PROVE  ObserversStay(c) /\ OthersStay(c) /\ ~InBody(c)' /\ dead' = dead /\ wire' = wire
<1>1. OthersStay(c) /\ ~InBody(c)' /\ dead' = dead /\ wire' = wire
  BY DEF Ended, InBody, Waiting
<1>2. CASE UNCHANGED observers
  BY <1>1, <1>2 DEF ObserversStay
<1>3. CASE call[c].phase = "observing" /\ observers' = observers \ FiltersOf(c)
  <2>1. InBody(c) /\ Exclusion
    BY <1>3, PastLocksExclude DEF InBody, Waiting
  <2> QED
    BY <1>1, <1>3, <2>1 DEF ObserversStay, Exclusion
<1> QED
  BY <1>1, <1>2, <1>3 DEF Ended, Undo, Succeeds, FiltersOf

\* The request of a call that has ended agrees with any outcome.
LEMMA EndedWire ==
  ASSUME HoldInv, WireInv, NEW c \in Calls, Ended(c)
  PROVE  WireInv'
<1>1. ObserversStay(c) /\ OthersStay(c) /\ ~InBody(c)' /\ dead' = dead /\ wire' = wire
  BY EndedStays
<1>2. OnWire' = OnWire /\ call'[c].phase = "done"
  BY <1>1 DEF OnWire, Ended
<1>3. ASSUME NEW p \in OnWire PROVE Sent(p)'
  <2>1. p \in Sendable /\ Sent(p)
    BY OnWireTyped DEF WireInv
  <2>2. CASE p.call # c
    BY <1>1, <2>1, <2>2, SentStays
  <2>3. CASE p.call = c
    BY <1>1, <1>2, <2>3 DEF Sent
  <2> QED
    BY <2>2, <2>3
<1>4. ASSUME NEW d \in Calls, InBody(d)' PROVE Awaits(d)'
  <2>1. d # c /\ InBody(d)
    BY <1>1, <1>4, OthersFacts
  <2>2. Awaits(d)
    BY <2>1 DEF WireInv
  <2> QED
    BY <1>1, <1>2, <2>1, <2>2, AwaitsStays
<1> QED
  BY <1>1, <1>2, <1>3, <1>4 DEF WireInv

\* The end of the connection empties the wire.
LEMMA DiesWire ==
  ASSUME WireInv, Dies
  PROVE  WireInv'
<1>1. dead' /\ wire' = <<>> /\ UNCHANGED <<call, index, observers, orphans>>
  BY DEF Dies
<1>2. wire' \in Seq(Sendable) /\ OnWire' = {}
  BY <1>1 DEF OnWire, ToSet
<1>3. ASSUME NEW c \in Calls, InBody(c)' PROVE Awaits(c)'
  <2>1. InBody(c) /\ Awaits(c)
    BY <1>1, <1>3 DEF WireInv, InBody
  <2> QED
    BY <1>1, <2>1 DEF Awaits, FiltersOf, InBody
<1> QED
  BY <1>2, <1>3 DEF WireInv

\* Nothing is on the wire before the first call.
LEMMA WireInit == Init => WireInv
<1> SUFFICES ASSUME Init PROVE WireInv
  OBVIOUS
<1>1. \A c \in Calls : ~InBody(c)
  BY DEF Init, NotCalled, InBody, Waiting
<1>2. wire \in Seq(Sendable) /\ OnWire = {}
  BY DEF Init, OnWire, ToSet
<1> QED
  BY <1>1, <1>2 DEF WireInv

\* Every step keeps the calls and their requests in agreement.
LEMMA WireStep ==
  ASSUME HoldInv, IndexInv, WireInv, [Next]_vars
  PROVE  WireInv'
<1>1. CASE UNCHANGED vars
  <2>1. UNCHANGED <<call, observers, wire, dead>> /\ OnWire' = OnWire
    BY <1>1 DEF vars, OnWire
  <2>2. \A c \in Calls : /\ InBody(c)' <=> InBody(c)
                         /\ Table(c)' = Table(c) /\ FiltersOf(c)' = FiltersOf(c)
    BY <2>1 DEF InBody, Table, FiltersOf
  <2>3. \A c \in Calls : Awaits(c) => Awaits(c)'
    BY <2>1, <2>2 DEF Awaits
  <2>4. ASSUME NEW q \in OnWire PROVE Sent(q)'
    <3>1. q.call \in Calls /\ Sent(q)
      BY OnWireTyped DEF WireInv
    <3>2. Carries(q, q.call) => Carries(q, q.call)'
      BY <2>1, <2>2, <3>1 DEF Carries
    <3> QED
      BY <2>1, <2>2, <3>1, <3>2 DEF Sent
  <2> QED
    BY <2>1, <2>2, <2>3, <2>4 DEF WireInv
<1>2. CASE Next
  BY <1>2, StepKinds, EntersWire, AnsweredWire, RestoredWire, EndedWire, DiesWire
<1> QED
  BY <1>1, <1>2

-----------------------------------------------------------------------------
(* No step but the end of the connection clears the wire of what a call    *)
(* gave up.                                                                *)

\* A request of another call is given up before a step if it is after.
LEMMA StrayStays ==
  ASSUME NEW c \in Calls, OthersStay(c), NEW q \in Sendable, q.call # c
  PROVE  Stray(q)' <=> Stray(q)
<1>1. q.call \in Calls
  BY DEF Sendable
<1> QED
  BY <1>1, OthersFacts DEF Stray

\* The request that is answered in a clean state is that of the call.
LEMMA HeadIsOwn ==
  ASSUME WireInv, NEW c \in Calls, Answered(c), ~Stray(Head(wire))
  PROVE  Head(wire).call = c /\ Carries(Head(wire), c)
<1> DEFINE q == Head(wire)
<1>1. InBody(c) /\ Table(c) = q.op /\ call[c].id = q.id
  BY DEF Answered, Registered
<1>2. q \in OnWire
  <2>1. wire \in Seq(Sendable) /\ wire # <<>>
    BY DEF WireInv, Answered
  <2> QED
    BY <2>1, TailQueue DEF OnWire
<1>3. q.call \in Calls /\ Sent(q) /\ ~Stray(q)
  BY <1>2, OnWireTyped DEF WireInv
<1> HIDE DEF q
<1>4. InBody(q.call) /\ call[q.call].id = call[c].id /\ Carries(q, q.call)
  BY <1>1, <1>3 DEF Stray, Sent
<1>5. q.call = c
  BY <1>1, <1>3, <1>4 DEF WireInv, Awaits
<1> QED
  BY <1>4, <1>5 DEF q

\* A state without given-up requests follows only on one without: an answer that reaches
\* a call by a reused identifier leaves the request of that call on the wire instead.
LEMMA CleanBefore ==
  ASSUME HoldInv, IndexInv, WireInv, Next, Clean'
  PROVE  Clean
<1>1. ASSUME NEW c \in Calls, NEW r \in Requests, Enters(c, r) PROVE Clean
  <2>1. ObserversStay(c) /\ OthersStay(c) /\ ~InBody(c) /\ dead' = dead
    BY <1>1, EntersStays
  <2>2. \A q \in OnWire : q \in Sendable /\ q.call # c
    BY <1>1, NothingSent, OnWireTyped DEF Enters
  <2>3. \A q \in OnWire : q \in OnWire'
    <3>1. CASE UNCHANGED wire
      BY <3>1 DEF OnWire
    <3>2. CASE Body(r).op # None /\ Send(Body(r).op, Body(r).filters, c)
      <4>1. BodyDoes(r) /\ index \in ExactIndexes
        BY BodyFacts DEF IndexInv
      <4>2. Body(r).phase # "done"
        BY <3>2, <4>1 DEF BodyDoes, Returns
      <4>3. Body(r).op \in {"subscribe", "unsubscribe"} /\ Body(r).filters \in Seq(Filters)
        BY <4>1, <4>2, BodySends
      <4> QED
        BY <3>2, <4>3, SendGrows
    <3> QED
      BY <1>1, <3>1, <3>2 DEF Enters
  <2>4. \A q \in OnWire : ~Stray(q)
    BY <2>1, <2>2, <2>3, StrayStays DEF Clean
  <2> QED
    BY <2>1, <2>4 DEF Clean
<1>2. ASSUME NEW c \in Calls, Answered(c) PROVE Clean
  <2> DEFINE q == Head(wire)
  <2>1. /\ InBody(c) /\ Table(c) = q.op /\ call[c].id = q.id /\ OthersStay(c) /\ dead' = dead
        /\ call[c].answer = None /\ call'[c].answer # None
    BY <1>2 DEF Answered, Registered, None
  <2>2. q \in OnWire /\ OnWire = OnWire' \cup {q}
    <3>1. wire \in Seq(Sendable) /\ wire # <<>> /\ wire' = Tail(wire)
      BY <1>2 DEF WireInv, Answered
    <3> QED
      BY <3>1, TailQueue DEF OnWire
  <2> HIDE DEF q
  <2>3. \A p \in OnWire' : p.call # c
    BY <2>1 DEF Clean, Stray
  <2>4. \A p \in OnWire' : ~Stray(p)
    <3>1. \A p \in OnWire' : p \in Sendable
      BY <2>2, OnWireTyped
    <3> QED
      BY <2>1, <2>3, <3>1, StrayStays DEF Clean
  <2>5. \E p \in OnWire : p.call = c /\ p.op = Table(c)
    BY <2>1 DEF Clean, WireInv, Awaits
  <2>6. q.call = c
    BY <2>2, <2>3, <2>5
  <2>7. ~Stray(q)
    BY <2>1, <2>6 DEF Stray
  <2> QED
    BY <2>1, <2>2, <2>4, <2>7 DEF Clean
<1>3. ASSUME NEW c \in Calls, Restored(c) PROVE Clean
  <2>1. /\ call[c].phase = "unsubscribing" /\ OthersStay(c) /\ dead' = dead
        /\ call'[c].phase = "restoring" /\ Send("subscribe", call[c].more, c)
    BY <1>3 DEF Restored
  <2>2. call[c].more \in Seq(Filters)
    BY <2>1 DEF IndexInv, InBody, Waiting
  <2>3. \A q \in OnWire : q \in OnWire'
    BY <2>1, <2>2, SendGrows
  <2>4. \A q \in OnWire : q.call # c
    <3> SUFFICES ASSUME NEW q \in OnWire, q.call = c PROVE FALSE
      OBVIOUS
    <3>1. q.op = "unsubscribe"
      BY <2>1 DEF WireInv, Sent
    <3>2. Table(c)' = "subscribe"
      BY <2>1 DEF Table
    <3>3. Stray(q)'
      BY <3>1, <3>2 DEF Stray
    <3> QED
      BY <2>3, <3>3 DEF Clean
  <2>5. \A q \in OnWire : ~Stray(q)
    BY <2>1, <2>3, <2>4, OnWireTyped, StrayStays DEF Clean
  <2> QED
    BY <2>1, <2>5 DEF Clean
<1>4. ASSUME NEW c \in Calls, Ended(c) PROVE Clean
  <2>1. OthersStay(c) /\ ~InBody(c)' /\ dead' = dead /\ OnWire' = OnWire
    BY <1>4, EndedStays DEF OnWire
  <2>2. \A q \in OnWire : q.call # c
    BY <2>1 DEF Clean, Stray
  <2>3. \A q \in OnWire : ~Stray(q)
    BY <2>1, <2>2, OnWireTyped, StrayStays DEF Clean
  <2> QED
    BY <2>1, <2>3 DEF Clean
<1>5. ASSUME Dies PROVE Clean
  BY <1>5 DEF Dies, Clean
<1> QED
  BY <1>1, <1>2, <1>3, <1>4, <1>5, StepKinds

-----------------------------------------------------------------------------
(* The broker.                                                             *)

\* A step leaves a filter as it is.
Unmoved(f) ==
  /\ f \in Known' <=> f \in Known
  /\ f \in observers' <=> f \in observers
  /\ f \in orphans' <=> f \in orphans
  /\ f \in broker' <=> f \in broker

\* A step of one call that moves only filters of its own disturbs no others.
LEMMA BrokerOthers ==
  ASSUME BrokerInv, Clean, NEW c \in Calls, OthersStay(c), NEW F, Alone(c, F),
         \A f : f \notin F => Unmoved(f), InBody(c) => FiltersOf(c) \subseteq F
  PROVE  /\ \A d \in Calls \ {c} : InBody(d)' => \A f \in FiltersOf(d)' : Busy(d, f)'
         /\ \A f : f \notin F /\ (\A d \in Calls \ {c} : InBody(d)' => f \notin FiltersOf(d)')
                     => Settled(f)'
<1>1. ASSUME NEW d \in Calls \ {c}, InBody(d)', NEW f \in FiltersOf(d)' PROVE Busy(d, f)'
  <2>1. InBody(d) /\ call'[d] = call[d] /\ f \in FiltersOf(d)
    BY <1>1, OthersFacts
  <2>2. Busy(d, f) /\ Unmoved(f)
    BY <2>1 DEF BrokerInv, Alone
  <2> QED
    BY <2>1, <2>2 DEF Busy, Unmoved
<1>2. ASSUME NEW f, f \notin F, \A d \in Calls \ {c} : InBody(d)' => f \notin FiltersOf(d)'
      PROVE  Settled(f)'
  <2>1. \A d \in Calls : InBody(d) => f \notin FiltersOf(d)
    <3> SUFFICES ASSUME NEW d \in Calls, InBody(d) PROVE f \notin FiltersOf(d)
      OBVIOUS
    <3>1. CASE d = c
      BY <1>2, <3>1
    <3>2. CASE d # c
      BY <1>2, <3>2, OthersFacts
    <3> QED
      BY <3>1, <3>2
  <2>2. Settled(f) /\ Unmoved(f)
    BY <1>2, <2>1 DEF BrokerInv
  <2> QED
    BY <2>2 DEF Settled, Unmoved
<1> QED
  BY <1>1, <1>2

\* The filters of a call are busy after a step of it, or settled if it is over.
LEMMA BrokerAfter ==
  ASSUME BrokerInv, Clean, NEW c \in Calls, OthersStay(c), NEW F, Alone(c, F),
         \A f : f \notin F => Unmoved(f), InBody(c) => FiltersOf(c) \subseteq F,
         InBody(c)' => FiltersOf(c)' = F /\ \A f \in F : Busy(c, f)',
         ~InBody(c)' => \A f \in F : Settled(f)'
  PROVE  BrokerInv'
<1>1. ASSUME NEW d \in Calls, InBody(d)', NEW f \in FiltersOf(d)' PROVE Busy(d, f)'
  <2>1. CASE d = c
    BY <1>1, <2>1
  <2>2. CASE d # c
    BY <1>1, <2>2, BrokerOthers
  <2> QED
    BY <2>1, <2>2
<1>2. ASSUME NEW f, \A d \in Calls : InBody(d)' => f \notin FiltersOf(d)' PROVE Settled(f)'
  <2>1. CASE f \in F
    BY <1>2, <2>1
  <2>2. CASE f \notin F
    BY <1>2, <2>2, BrokerOthers
  <2> QED
    BY <2>1, <2>2
<1> QED
  BY <1>1, <1>2 DEF BrokerInv

\* The filters that a call enters with are settled.
LEMMA EntersBroker ==
  ASSUME IndexInv, BrokerInv, Clean, NEW c \in Calls, NEW r \in Requests, Enters(c, r)
  PROVE  BrokerInv'
<1>1. OthersStay(c) /\ ~InBody(c) /\ ~dead /\ broker' = broker
  BY EntersStays DEF Clean, Enters
<1>2. CASE call'[c].phase = "acquiring" /\ UNCHANGED <<index, observers, orphans>>
  <2>1. ~InBody(c)' /\ Alone(c, {}) /\ \A f : Unmoved(f)
    BY <1>1, <1>2 DEF InBody, Waiting, Alone, Unmoved, Known
  <2> QED
    BY <1>1, <2>1, BrokerAfter
<1>3. CASE /\ Alone(c, ToSet(r.filters))
           /\ call'[c].phase = Body(r).phase /\ call'[c].request = r /\ call'[c].more = Body(r).more
           /\ call'[c].answer = None
           /\ index' = Body(r).index /\ observers' = Body(r).observers /\ orphans' = Body(r).orphans
  <2> DEFINE F == ToSet(r.filters)
  <2>1. index \in ExactIndexes /\ BodyDoes(r) /\ Known' = BodyKnown(r)
    BY <1>3, BodyFacts DEF IndexInv, Known, BodyKnown
  <2>2. \A f : f \notin F => Unmoved(f)
    BY <1>1, <1>3, <2>1, BodyElsewhere DEF Unmoved
  <2>3. \A f \in F : Settled(f)
    <3>1. \A f \in F : \A d \in Calls : InBody(d) => f \notin FiltersOf(d)
      BY <1>1, <1>3 DEF Alone
    <3> QED
      BY <3>1 DEF BrokerInv
  <2>4. InBody(c)' => FiltersOf(c)' = F
    BY <1>3 DEF FiltersOf
  <2> HIDE DEF F
  <2>5. ASSUME NEW f \in F, InBody(c)' PROVE Busy(c, f)'
    <3>0. Settled(f) /\ call'[c].answer # "accepted" /\ call'[c].answer = None /\ f \in ToSet(r.filters)
      BY <1>3, <2>3 DEF None, F
    <3>1. CASE Body(r).phase = "subscribing"
      <4>1. f \in Known' /\ observers' = observers /\ (f \notin ToSet(call'[c].more) => f \in Known)
        BY <1>3, <2>1, <3>0, <3>1 DEF BodyDoes, Subscribes
      <4> QED
        BY <1>1, <1>3, <3>0, <3>1, <4>1 DEF Busy, Settled
    <3>2. CASE Body(r).phase = "unsubscribing"
      <4>1. f \notin Known' /\ observers' = observers /\ (f \in Kept => f \in observers' \cup orphans')
        BY <1>3, <2>1, <3>0, <3>2 DEF BodyDoes, Unsubscribes
      <4> QED
        BY <1>1, <1>3, <3>0, <3>2, <4>1 DEF Busy, Settled
    <3>3. CASE Body(r).phase = "restoring"
      <4>1. f \notin Known' /\ observers' = observers /\ f \in observers
        BY <1>3, <2>1, <3>0, <3>3 DEF BodyDoes, Restores
      <4> QED
        BY <1>1, <1>3, <3>0, <3>3, <4>1 DEF Busy, Settled
    <3>4. CASE Body(r).phase = "observing"
      <4>1. f \notin Known' /\ f \in observers'
        BY <1>3, <2>1, <3>0, <3>4 DEF BodyDoes, Observes
      <4> QED
        BY <1>1, <1>3, <3>0, <3>4, <4>1 DEF Busy
    <3>5. CASE Body(r).phase = "unobserving"
      <4>1. f \notin Known' /\ f \notin observers' /\ (f \in Kept => f \in orphans')
        BY <1>3, <2>1, <3>0, <3>5 DEF BodyDoes, Unobserves
      <4> QED
        BY <1>1, <1>3, <3>0, <3>5, <4>1 DEF Busy
    <3> QED
      BY <1>3, <2>5, <3>1, <3>2, <3>3, <3>4, <3>5 DEF InBody, Waiting
  <2>6. ASSUME NEW f \in F, ~InBody(c)' PROVE Settled(f)'
    <3>1. Body(r).phase = "done"
      BY <1>3, <2>1, <2>6 DEF BodyDoes, InBody
    <3>2. Known' \cup observers' = Known \cup observers /\ orphans' = orphans
      BY <1>1, <1>3, <2>1, <3>1 DEF BodyDoes, Returns
    <3>3. Settled(f)
      BY <2>3
    <3> QED
      BY <1>1, <3>2, <3>3 DEF Settled
  <2>7. Alone(c, F)
    BY <1>3 DEF F
  <2> QED
    BY <1>1, <2>2, <2>4, <2>5, <2>6, <2>7, BrokerAfter
<1> QED
  BY <1>2, <1>3 DEF Enters

\* A call past its locks is alone with its filters.
LEMMA PastLocksAlone ==
  ASSUME HoldInv, NEW c \in Calls, InBody(c)
  PROVE  Alone(c, FiltersOf(c))
BY PastLocksExclude DEF Exclusion, Alone

\* The broker handles the request of a call.
LEMMA AnsweredBroker ==
  ASSUME HoldInv, WireInv, BrokerInv, Clean, NEW c \in Calls, Answered(c)
  PROVE  BrokerInv'
<1> DEFINE q == Head(wire)
           F == FiltersOf(c)
<1>1. /\ InBody(c) /\ Table(c) = q.op /\ OthersStay(c) /\ call[c].answer = None
      /\ call'[c].phase = call[c].phase /\ call'[c].request = call[c].request
      /\ call'[c].more = call[c].more
      /\ call'[c].answer = (IF Refused(q, c) THEN "refused" ELSE "accepted")
      /\ broker' = Handled(broker, q) /\ UNCHANGED <<index, observers, orphans>>
  BY DEF Answered, Registered
<1>2. q \in OnWire /\ q \in Sendable
  <2>1. wire \in Seq(Sendable) /\ wire # <<>>
    BY DEF WireInv, Answered
  <2> QED
    BY <2>1, TailQueue DEF OnWire
<1>3. Carries(q, c)
  BY <1>2, HeadIsOwn DEF Clean
<1> HIDE DEF q
<1>4. q.op = IF call[c].phase \in {"unsubscribing", "unobserving"} THEN "unsubscribe" ELSE "subscribe"
  BY <1>1 DEF Table
<1>5. ToSet(q.filters) \subseteq F
  BY <1>1, <1>3 DEF Carries, FiltersOf, InBody, Waiting
<1>6. \A f : f \notin F => Unmoved(f)
  <2>1. \A f : f \notin F => (f \in broker' <=> f \in broker)
    BY <1>1, <1>5 DEF Handled
  <2> QED
    BY <1>1, <2>1 DEF Unmoved, Known
<1>7. /\ InBody(c)' /\ FiltersOf(c)' = F /\ Known' = Known
      /\ observers' = observers /\ orphans' = orphans
  BY <1>1 DEF InBody, FiltersOf, Known
<1>8. ASSUME NEW f \in F PROVE Busy(c, f)'
  <2>0. Busy(c, f)
    BY <1>1 DEF BrokerInv
  <2>1. CASE call[c].phase \in {"subscribing", "observing"}
    <3>1. broker' = broker \cup (ToSet(q.filters) \ Rejected) /\ q.filters = call[c].request.filters
      BY <1>1, <1>3, <1>4, <2>1 DEF Handled, Carries
    <3>2. ASSUME call'[c].answer = "accepted" PROVE f \in broker'
      <4>1. ~Refused(q, c) /\ q.op = "subscribe"
        BY <1>1, <1>4, <2>1, <3>2
      <4>2. q.filters \in Seq(Filters)
        BY <1>2 DEF Sendable
      <4>3. PICK i \in DOMAIN q.filters : q.filters[i] = f
        BY <3>1 DEF FiltersOf, ToSet
      <4>4. i <= Len(call[c].request.filters)
        BY <3>1, <4>2, <4>3
      <4>5. f \notin Rejected
        BY <4>1, <4>3, <4>4 DEF Refused
      <4> QED
        BY <3>1, <4>5 DEF FiltersOf
    <3> QED
      BY <1>1, <1>7, <2>0, <2>1, <3>1, <3>2 DEF Busy
  <2>2. CASE call[c].phase = "restoring"
    <3>1. broker' = broker \cup (ToSet(q.filters) \ Rejected) /\ ToSet(q.filters) \subseteq observers
      BY <1>1, <1>3, <1>4, <2>2 DEF Handled, Carries
    <3> QED
      BY <1>1, <1>7, <2>0, <2>2, <3>1 DEF Busy
  <2>3. CASE call[c].phase \in {"unsubscribing", "unobserving"}
    <3>1. broker' = broker \ (ToSet(q.filters) \ Kept) /\ ToSet(q.filters) = F \ observers
      BY <1>1, <1>3, <1>4, <2>3 DEF Handled, Carries
    <3> HIDE DEF F
    <3> QED
      BY <1>1, <1>7, <2>0, <2>3, <3>1 DEF Busy
  <2> QED
    BY <1>1, <2>1, <2>2, <2>3 DEF InBody, Waiting
<1>9. Alone(c, F)
  BY <1>1, PastLocksAlone
<1> HIDE DEF F
<1> QED
  BY <1>1, <1>6, <1>7, <1>8, <1>9, BrokerAfter DEF F

\* unsubscribe() has its answer: what the broker still has of its filters is observed.
LEMMA RestoredBroker ==
  ASSUME HoldInv, BrokerInv, Clean, NEW c \in Calls, Restored(c)
  PROVE  BrokerInv'
<1>1. /\ call[c].phase = "unsubscribing" /\ call[c].answer # None /\ OthersStay(c)
      /\ call'[c].phase = "restoring" /\ call'[c].request = call[c].request
      /\ UNCHANGED <<index, observers, orphans, broker>>
  BY DEF Restored
<1>2. InBody(c) /\ InBody(c)' /\ FiltersOf(c)' = FiltersOf(c)
  BY <1>1 DEF InBody, Waiting, FiltersOf
<1>3. \A f : Unmoved(f)
  BY <1>1 DEF Unmoved, Known
<1>4. ASSUME NEW f \in FiltersOf(c) PROVE Busy(c, f)'
  <2>1. Busy(c, f)
    BY <1>2 DEF BrokerInv
  <2> QED
    BY <1>1, <2>1 DEF Busy, Known
<1>5. Alone(c, FiltersOf(c))
  BY <1>2, PastLocksAlone
<1> QED
  BY <1>1, <1>2, <1>3, <1>4, <1>5, BrokerAfter

\* A call that ends without an answer leaves its request on the wire.
LEMMA EndedAnswered ==
  ASSUME HoldInv, WireInv, NEW c \in Calls, Ended(c), InBody(c), Clean'
  PROVE  call[c].answer # None
<1> SUFFICES ASSUME call[c].answer = None PROVE FALSE
  OBVIOUS
<1>1. ~InBody(c)' /\ OnWire' = OnWire /\ dead' = dead
  BY EndedStays DEF OnWire
<1>2. PICK q \in OnWire : q.call = c
  BY <1>1 DEF Clean, WireInv, Awaits
<1>3. Stray(q)'
  BY <1>1, <1>2 DEF Stray
<1> QED
  BY <1>1, <1>2, <1>3 DEF Clean

\* What a call leaves when it ends.
LEMMA EndedBroker ==
  ASSUME HoldInv, IndexInv, WireInv, BrokerInv, Clean, NEW c \in Calls, Ended(c), Clean'
  PROVE  BrokerInv'
<1>1. OthersStay(c) /\ ~InBody(c)' /\ broker' = broker
  BY EndedStays DEF Ended
<1>2. call[c].phase = "subscribing" => ToSet(call[c].more) \subseteq FiltersOf(c)
  BY DEF WireInv, Awaits, InBody, Waiting
<1>3. \A f : (InBody(c) => f \notin FiltersOf(c)) => Unmoved(f)
  BY <1>1, <1>2, EndedElsewhere DEF Unmoved
<1>4. CASE ~InBody(c)
  <2>1. Alone(c, {})
    BY DEF Alone
  <2> QED
    BY <1>1, <1>3, <1>4, <2>1, BrokerAfter
<1>5. CASE InBody(c)
  <2> DEFINE F == FiltersOf(c)
  <2>1. Alone(c, F) /\ call[c].answer # None /\ Awaits(c)
    BY <1>5, PastLocksAlone, EndedAnswered DEF WireInv
  <2>2. ASSUME NEW f \in F PROVE Settled(f)'
    <3>1. Busy(c, f)
      BY <1>5 DEF BrokerInv
    <3>2. CASE Undo(c)
      <4>0. Known' = IF call[c].phase = "subscribing" THEN Known \ ToSet(call[c].more) ELSE Known
        BY <3>2, UndoKnown
      <4>1. CASE call[c].phase = "subscribing"
        <5>1. /\ observers' = observers /\ f \in orphans' /\ Known' = Known \ ToSet(call[c].more)
          BY <3>2, <4>0, <4>1 DEF Undo, FiltersOf
        <5> QED
          BY <1>1, <3>1, <4>1, <5>1 DEF Busy, Settled
      <4>2. CASE call[c].phase = "observing"
        <5>1. f \notin observers' /\ f \in orphans' /\ Known' = Known
          BY <3>2, <4>0, <4>2 DEF Undo, FiltersOf
        <5> QED
          BY <1>1, <3>1, <4>2, <5>1 DEF Busy, Settled
      <4>3. CASE call[c].phase \in {"unsubscribing", "restoring", "unobserving"}
        <5>1. observers' = observers /\ orphans' = orphans /\ Known' = Known
          BY <3>2, <4>0, <4>3 DEF Undo
        <5> QED
          BY <1>1, <2>1, <3>1, <4>3, <5>1 DEF Busy, Settled
      <4> QED
        BY <1>5, <4>1, <4>2, <4>3 DEF InBody, Waiting
    <3>3. CASE Succeeds(c)
      <4>1. call[c].answer = "accepted" /\ observers' = observers /\ Known' = Known
        BY <2>1, <3>3 DEF Succeeds, Awaits, Known
      <4>2. CASE call[c].phase \in {"subscribing", "observing"}
        BY <1>1, <3>1, <4>1, <4>2 DEF Busy, Settled
      <4>3. CASE call[c].phase \in {"unsubscribing", "restoring", "unobserving"}
        <5>1. orphans' = orphans
          BY <3>3, <4>3 DEF Succeeds
        <5> QED
          BY <1>1, <2>1, <3>1, <4>1, <4>3, <5>1 DEF Busy, Settled
      <4> QED
        BY <1>5, <4>2, <4>3 DEF InBody, Waiting
    <3> QED
      BY <3>2, <3>3 DEF Ended
  <2> HIDE DEF F
  <2>3. InBody(c) => FiltersOf(c) \subseteq F
    BY DEF F
  <2>4. \A f : f \notin F => Unmoved(f)
    BY <1>3 DEF F
  <2> QED
    BY <1>1, <2>1, <2>2, <2>3, <2>4, BrokerAfter
<1> QED
  BY <1>4, <1>5

\* The broker has nothing before the first call.
LEMMA BrokerInit == Init => BrokerInv
<1> SUFFICES ASSUME Init PROVE BrokerInv
  OBVIOUS
<1>1. \A c \in Calls : ~InBody(c)
  BY DEF Init, NotCalled, InBody, Waiting
<1>2. Known = {} /\ observers = {} /\ broker = {}
  BY DEF Init, Known, EmptyIndex
<1> QED
  BY <1>1, <1>2 DEF BrokerInv, Settled

\* Every step keeps the broker in agreement with the filters.
LEMMA BrokerStep ==
  ASSUME HoldInv, IndexInv, WireInv, BrokerInv, [Next]_vars
  PROVE  BrokerInv'
<1>1. CASE UNCHANGED vars
  <2>1. UNCHANGED <<call, index, observers, wire, broker, dead, orphans>> /\ OnWire' = OnWire
    BY <1>1 DEF vars, OnWire
  <2>2. \A c \in Calls : (InBody(c)' <=> InBody(c)) /\ FiltersOf(c)' = FiltersOf(c)
    BY <2>1 DEF InBody, FiltersOf
  <2>3. Clean' <=> Clean
    BY <2>1 DEF Clean, Stray, InBody, Table
  <2>4. \A f : Settled(f)' <=> Settled(f)
    BY <2>1 DEF Settled, Known
  <2>5. \A c \in Calls : \A f : Busy(c, f)' <=> Busy(c, f)
    BY <2>1 DEF Busy, Known
  <2> QED
    BY <2>2, <2>3, <2>4, <2>5 DEF BrokerInv
<1>2. CASE Next /\ ~Clean'
  BY <1>2 DEF BrokerInv
<1>3. CASE Next /\ Clean'
  <2>1. Clean
    BY <1>3, CleanBefore
  <2>2. ~Dies
    BY <1>3 DEF Clean, Dies
  <2> QED
    BY <1>3, <2>1, <2>2, StepKinds, EntersBroker, AnsweredBroker, RestoredBroker, EndedBroker
<1> QED
  BY <1>1, <1>2, <1>3

\* The broker agrees with the filters in every reachable state.
LEMMA BrokerAlways == Spec => [](HoldInv /\ IndexInv /\ WireInv /\ BrokerInv)
<1>1. Init => HoldInv /\ IndexInv /\ WireInv /\ BrokerInv
  BY HoldInit, IndexInit, WireInit, BrokerInit
<1>2. HoldInv /\ IndexInv /\ WireInv /\ BrokerInv /\ [Next]_vars
        => HoldInv' /\ IndexInv' /\ WireInv' /\ BrokerInv'
  BY HoldStep, IndexStep, WireStep, BrokerStep
<1> QED
  BY <1>1, <1>2, PTL DEF Spec

\* What the broker has after each of the requests on the wire.
Holding(w, start) ==
  CHOOSE g : g = [n \in 0 .. Len(w) |-> IF n = 0 THEN start ELSE Handled(g[n - 1], w[n])]

\* The requests name none of these filters.
Spared(w, F) == \A q \in ToSet(w) : ToSet(q.filters) \cap F = {}

\* Of the filters that none of the requests names, the broker keeps what it has.
LEMMA WireHandled ==
  ASSUME NEW w \in Seq(Sendable), NEW start, NEW F, Spared(w, F)
  PROVE  Holding(w, start)[Len(w)] \cap F = start \cap F
<1> DEFINE m == Len(w)
           Defines(g) == g = [n \in 0 .. m |-> IF n = 0 THEN start ELSE Handled(g[n - 1], w[n])]
           held == CHOOSE g : Defines(g)
           all == start \cup Filters
           turn == [n \in 1 .. m |-> [b \in SUBSET all |-> Handled(b, w[n])]]
<1>1. m \in Nat /\ DOMAIN w = 1 .. m /\ \A n \in 1 .. m : w[n] \in Sendable /\ w[n] \in ToSet(w)
  BY DEF ToSet
<1>2. \A n \in 1 .. m, b \in SUBSET all : Handled(b, w[n]) \in SUBSET all
  <2> SUFFICES ASSUME NEW n \in 1 .. m, NEW b \in SUBSET all PROVE Handled(b, w[n]) \in SUBSET all
    OBVIOUS
  <2>1. w[n].filters \in Seq(Filters)
    BY <1>1 DEF Sendable
  <2>2. ToSet(w[n].filters) \subseteq Filters
    BY <2>1 DEF ToSet
  <2> QED
    BY <2>2 DEF Handled
<1>3. turn \in [1 .. m -> [SUBSET all -> SUBSET all]] /\ start \in SUBSET all
  BY <1>2
<1>4. PICK f : Looped(f, SUBSET all, start, m, turn)
  BY <1>1, <1>3, LoopExists
<1>5. Defines(f)
  <2>1. f \in [0 .. m -> SUBSET all] /\ f[0] = start /\ \A n \in 1 .. m : f[n] = turn[n][f[n - 1]]
    BY <1>4 DEF Looped
  <2>2. \A n \in 1 .. m : n - 1 \in 0 .. m
    BY <1>1
  <2>3. \A n \in 1 .. m : f[n] = Handled(f[n - 1], w[n])
    BY <2>1, <2>2
  <2> HIDE DEF turn
  <2>4. \A n \in 0 .. m : f[n] = IF n = 0 THEN start ELSE Handled(f[n - 1], w[n])
    BY <2>1, <2>3
  <2> QED
    BY <2>1, <2>4
<1>6. Defines(held)
  BY <1>5, Zenon
<1>7. held[0] = start /\ \A n \in 1 .. m : held[n] = Handled(held[n - 1], w[n])
  <2>1. \A n \in 0 .. m : held[n] = IF n = 0 THEN start ELSE Handled(held[n - 1], w[n])
    BY <1>6, Zenon
  <2> HIDE DEF held, m
  <2>2. 0 \in 0 .. m /\ \A n \in 1 .. m : n \in 0 .. m /\ n # 0
    BY <1>1
  <2> QED
    BY <2>1, <2>2
<1>8. held = Holding(w, start)
  BY Zenon DEF Holding
<1> HIDE DEF held, Defines
<1> DEFINE Good == {n \in 0 .. m : held[n] \cap F = start \cap F}
<1>9. 0 \in Good
  BY <1>1, <1>7
<1>10. ASSUME NEW n \in 1 .. m, n - 1 \in Good PROVE n \in Good
  <2>1. n \in 0 .. m /\ held[n] = Handled(held[n - 1], w[n]) /\ held[n - 1] \cap F = start \cap F
    BY <1>1, <1>7, <1>10
  <2>2. ToSet(w[n].filters) \cap F = {}
    BY <1>1 DEF Spared
  <2>3. Handled(held[n - 1], w[n]) \cap F = start \cap F
    BY <2>1, <2>2 DEF Handled
  <2> QED
    BY <2>1, <2>3
<1>11. m \in Good
  <2>1. \A n \in 1 .. m : n - 1 \in Good => n \in Good
    BY <1>10
  <2> HIDE DEF Good, m
  <2>2. \A n \in 0 .. m : n \in Good
    BY <1>1, <1>9, <2>1, CountUp, Zenon
  <2> QED
    BY <1>1, <2>2
<1> HIDE DEF m
<1>12. held[m] \cap F = start \cap F
  BY <1>11
<1> QED
  BY <1>8, <1>12 DEF m

\* Once the wire is empty, the broker has the filters that are owned, and no others but
\* those of a SUBSCRIBE whose call failed or of an UNSUBSCRIBE that it refused.
THEOREM BrokerAgreesHolds == Spec => []BrokerAgrees
<1>1. ASSUME WireInv, BrokerInv PROVE BrokerAgrees
  <2> DEFINE held == Holding(wire, broker)
             finally == held[Len(wire)]
             busy == UNION {FiltersOf(c) : c \in {d \in Calls : InBody(d)}}
             settled == Filters \ busy
  <2>1. SUFFICES ASSUME ~dead, \A i \in DOMAIN wire : ~Stray(wire[i])
                 PROVE  /\ Owned \cap settled \subseteq finally
                        /\ finally \cap settled \subseteq Owned \cup orphans
    BY Zenon DEF BrokerAgrees, Holding
  <2>2. Clean /\ wire \in Seq(Sendable)
    BY <1>1, <2>1 DEF Clean, OnWire, ToSet, WireInv
  <2>3. Spared(wire, settled)
    <3> SUFFICES ASSUME NEW q \in OnWire PROVE ToSet(q.filters) \cap settled = {}
      BY DEF OnWire, Spared
    <3>1. q.call \in Calls /\ Sent(q) /\ ~Stray(q)
      BY <1>1, <2>2, OnWireTyped DEF WireInv, Clean
    <3>2. InBody(q.call) /\ Carries(q, q.call)
      BY <3>1 DEF Sent, Stray
    <3>3. ToSet(q.filters) \subseteq FiltersOf(q.call)
      BY <3>2 DEF Carries, InBody, Waiting, FiltersOf
    <3> QED
      BY <3>1, <3>2, <3>3
  <2> HIDE DEF settled, held
  <2>4. finally \cap settled = broker \cap settled
    <3>1. wire \in Seq(Sendable)
      BY <2>2
    <3>2. Holding(wire, broker)[Len(wire)] \cap settled = broker \cap settled
      BY <2>3, <3>1, WireHandled
    <3> QED
      BY <3>2 DEF held
  <2>5. \A f \in settled : Settled(f)
    BY <1>1, <2>2 DEF BrokerInv, settled
  <2> HIDE DEF finally
  <2> QED
    BY <2>4, <2>5 DEF Settled, Owned, Known
<1> QED
  BY <1>1, BrokerAlways, PTL

=============================================================================
