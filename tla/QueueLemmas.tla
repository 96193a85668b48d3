------------------------------ MODULE QueueLemmas ------------------------------
(***************************************************************************)
(* Facts about the queues of the models: lists of waiters, the queues of   *)
(* asyncio locks and semaphores, whose members are distinct.               *)
(***************************************************************************)
EXTENDS Integers, SequencesExt, FiniteSetTheorems, WellFoundedInduction, TLAPS

\* A nonempty set of naturals has a least element, which Min returns.
LEMMA LeastNatural ==
  ASSUME NEW S \in SUBSET Nat, S # {}
  PROVE  Min(S) \in S /\ \A j \in S : Min(S) <= j
<1>1. \E x \in S : \A y \in S : <<y, x>> \notin OpToRel(<, Nat)
  BY WFMin, NatLessThanWellFounded, Zenon
<1>2. PICK x \in S : \A y \in S : <<y, x>> \notin OpToRel(<, Nat)
  BY <1>1
<1>3. \A y \in S : ~(y < x)
  <2>1. ASSUME NEW y \in S, y < x PROVE <<y, x>> \in {ss \in Nat \X Nat : ss[1] < ss[2]}
    BY <2>1
  <2> QED
    BY <1>2, <2>1 DEF OpToRel
<1>4. \A y \in S : x =< y
  BY <1>3
<1> QED
  BY <1>4 DEF Min

\* list.remove() of the first member that equals the one at position k.
LEMMA RemoveFirstAt ==
  ASSUME NEW S, NEW s \in Seq(S), NEW k \in 1 .. Len(s),
         \A i \in 1 .. Len(s) : s[i] = s[k] => k <= i
  PROVE  RemoveFirst(s, s[k]) = SubSeq(s, 1, k - 1) \o SubSeq(s, k + 1, Len(s))
<1> DEFINE I == {i \in 1 .. Len(s) : s[i] = s[k]}
<1>1. I \in SUBSET Nat /\ k \in I
  OBVIOUS
<1>2. Min(I) = k
  BY <1>1, LeastNatural
<1>3. SelectInSeq(s, LAMBDA v : v = s[k]) = Min(I)
  BY <1>1 DEF SelectInSeq
<1> QED
  BY <1>2, <1>3 DEF RemoveFirst, RemoveAt

\* The members of a concatenation.
LEMMA ConcatMembers ==
  ASSUME NEW S, NEW a \in Seq(S), NEW b \in Seq(S)
  PROVE  /\ a \o b \in Seq(S) /\ Len(a \o b) = Len(a) + Len(b)
         /\ \A i \in 1 .. Len(a) : (a \o b)[i] = a[i]
         /\ \A i \in 1 .. Len(b) : (a \o b)[Len(a) + i] = b[i]
OBVIOUS

\* Whoever stands behind the one that leaves moves up by one.
LEMMA RemoveFirstFacts ==
  ASSUME NEW S, NEW s \in Seq(S), NEW k \in 1 .. Len(s),
         \A i \in 1 .. Len(s) : s[i] = s[k] => k <= i
  PROVE  /\ RemoveFirst(s, s[k]) \in Seq(S)
         /\ Len(RemoveFirst(s, s[k])) = Len(s) - 1
         /\ \A i \in 1 .. Len(s) - 1 :
              RemoveFirst(s, s[k])[i] = IF i < k THEN s[i] ELSE s[i + 1]
<1> DEFINE front == SubSeq(s, 1, k - 1)
           back == SubSeq(s, k + 1, Len(s))
<1>1. RemoveFirst(s, s[k]) = front \o back
  BY RemoveFirstAt
<1>2. /\ front \in Seq(S) /\ Len(front) = k - 1
      /\ \A i \in 1 .. k - 1 : front[i] = s[i]
  OBVIOUS
<1>3. /\ back \in Seq(S) /\ Len(back) = Len(s) - k
      /\ \A i \in 1 .. Len(s) - k : back[i] = s[k + i]
  OBVIOUS
<1>4. front \in Seq(S) /\ back \in Seq(S)
  BY <1>2, <1>3
<1> HIDE DEF front, back
<1>5. /\ front \o back \in Seq(S) /\ Len(front \o back) = Len(front) + Len(back)
      /\ \A i \in 1 .. Len(front) : (front \o back)[i] = front[i]
      /\ \A i \in 1 .. Len(back) : (front \o back)[Len(front) + i] = back[i]
  BY <1>4, ConcatMembers
<1>6. ASSUME NEW i \in 1 .. Len(s) - 1
      PROVE  (front \o back)[i] = IF i < k THEN s[i] ELSE s[i + 1]
  <2>1. CASE i < k
    BY <1>2, <1>3, <1>5, <2>1
  <2>2. CASE ~(i < k)
    <3> DEFINE j == i - Len(front)
    <3>1. j \in 1 .. Len(s) - k /\ k + j = i + 1 /\ i = Len(front) + j
      BY <1>2, <2>2
    <3> HIDE DEF j
    <3>2. (front \o back)[Len(front) + j] = back[j] /\ back[j] = s[k + j]
      BY <1>3, <1>5, <3>1
    <3> QED
      BY <2>2, <3>1, <3>2
  <2> QED
    BY <2>1, <2>2
<1> QED
  BY <1>1, <1>2, <1>3, <1>5, <1>6

\* Removing what is not in the list leaves it as it is.
LEMMA RemoveFirstAbsent ==
  ASSUME NEW S, NEW s \in Seq(S), NEW e, \A i \in 1 .. Len(s) : s[i] # e
  PROVE  RemoveFirst(s, e) = s
BY DEF RemoveFirst

-----------------------------------------------------------------------------
(* Queues of distinct members, by the set of their members.                *)

\* Who joins the queue goes behind everybody.
LEMMA AppendQueue ==
  ASSUME NEW S, NEW s \in Seq(S), NEW e \in S
  PROVE  /\ Append(s, e) \in Seq(S) /\ Append(s, e) # <<>>
         /\ ToSet(Append(s, e)) = ToSet(s) \cup {e}
         /\ Head(Append(s, e)) = IF s = <<>> THEN e ELSE Head(s)
         /\ IsInjective(s) /\ e \notin ToSet(s) => IsInjective(Append(s, e))
<1> DEFINE t == Append(s, e)
<1>1. /\ t \in Seq(S) /\ Len(t) = Len(s) + 1 /\ DOMAIN t = 1 .. Len(s) + 1
      /\ \A i \in 1 .. Len(s) : t[i] = s[i]
      /\ t[Len(s) + 1] = e
      /\ DOMAIN s = 1 .. Len(s) /\ Len(s) \in Nat
  OBVIOUS
<1>2. t # <<>> /\ Head(t) = IF s = <<>> THEN e ELSE Head(s)
  <2>1. CASE s = <<>>
    BY <2>1
  <2>2. CASE s # <<>>
    BY <1>1, <2>2
  <2> QED
    BY <2>1, <2>2
<1> HIDE DEF t
<1>3. \A i \in 1 .. Len(s) + 1 : i \in 1 .. Len(s) \/ i = Len(s) + 1
  BY <1>1
<1>4. ToSet(t) = ToSet(s) \cup {e}
  BY <1>1, <1>3 DEF ToSet
<1>5. ASSUME IsInjective(s), e \notin ToSet(s) PROVE IsInjective(t)
  <2> SUFFICES ASSUME NEW i \in 1 .. Len(s) + 1, NEW j \in 1 .. Len(s) + 1, t[i] = t[j]
               PROVE  i = j
    BY <1>1 DEF IsInjective
  <2>1. \A k \in 1 .. Len(s) : t[k] \in ToSet(s) /\ t[k] # e
    BY <1>1, <1>5 DEF ToSet
  <2>2. CASE i \in 1 .. Len(s) /\ j \in 1 .. Len(s)
    BY <1>1, <1>5, <2>2 DEF IsInjective
  <2> QED
    BY <1>1, <1>3, <2>1, <2>2
<1> QED
  BY <1>1, <1>2, <1>4, <1>5 DEF t

\* The first leaves.
LEMMA TailQueue ==
  ASSUME NEW S, NEW s \in Seq(S), s # <<>>
  PROVE  /\ Tail(s) \in Seq(S) /\ Head(s) \in S /\ Head(s) \in ToSet(s)
         /\ ToSet(s) = ToSet(Tail(s)) \cup {Head(s)}
         /\ IsInjective(s) => IsInjective(Tail(s)) /\ Head(s) \notin ToSet(Tail(s))
<1> DEFINE t == Tail(s)
<1>1. /\ t \in Seq(S) /\ Len(t) = Len(s) - 1 /\ DOMAIN t = 1 .. Len(s) - 1
      /\ \A i \in 1 .. Len(s) - 1 : t[i] = s[i + 1]
      /\ DOMAIN s = 1 .. Len(s) /\ Len(s) \in Nat \ {0}
      /\ Head(s) = s[1] /\ s[1] \in S
  OBVIOUS
<1> HIDE DEF t
<1>2. Head(s) \in ToSet(s)
  BY <1>1 DEF ToSet
<1>3. \A i \in 1 .. Len(s) : i = 1 \/ (i - 1 \in 1 .. Len(s) - 1 /\ t[i - 1] = s[i])
  BY <1>1
<1>4. ToSet(s) \subseteq ToSet(t) \cup {Head(s)}
  BY <1>1, <1>3 DEF ToSet
<1>5. ToSet(t) \subseteq ToSet(s)
  <2>1. \A i \in 1 .. Len(s) - 1 : i + 1 \in 1 .. Len(s) /\ t[i] = s[i + 1]
    BY <1>1
  <2> QED
    BY <1>1, <2>1 DEF ToSet
<1>6. ASSUME IsInjective(s) PROVE IsInjective(t) /\ Head(s) \notin ToSet(t)
  <2>1. IsInjective(t)
    <3> SUFFICES ASSUME NEW i \in 1 .. Len(s) - 1, NEW j \in 1 .. Len(s) - 1, t[i] = t[j]
                 PROVE  i = j
      BY <1>1 DEF IsInjective
    <3>1. i + 1 \in 1 .. Len(s) /\ j + 1 \in 1 .. Len(s) /\ s[i + 1] = s[j + 1]
      BY <1>1
    <3>2. i + 1 = j + 1
      BY <1>1, <1>6, <3>1 DEF IsInjective
    <3> QED
      BY <3>2
  <2>2. \A i \in 1 .. Len(s) - 1 : t[i] # s[1]
    BY <1>1, <1>6 DEF IsInjective
  <2> QED
    BY <1>1, <2>1, <2>2 DEF ToSet
<1> QED
  BY <1>1, <1>2, <1>4, <1>5, <1>6 DEF t

\* Who gives up leaves from where it stands.
LEMMA RemoveQueue ==
  ASSUME NEW S, NEW s \in Seq(S), IsInjective(s), NEW e
  PROVE  /\ RemoveFirst(s, e) \in Seq(S)
         /\ ToSet(RemoveFirst(s, e)) = ToSet(s) \ {e}
         /\ IsInjective(RemoveFirst(s, e))
         /\ s # <<>> /\ Head(s) # e =>
              RemoveFirst(s, e) # <<>> /\ Head(RemoveFirst(s, e)) = Head(s)
<1> DEFINE t == RemoveFirst(s, e)
<1>1. DOMAIN s = 1 .. Len(s) /\ Len(s) \in Nat
  OBVIOUS
<1>2. CASE e \notin ToSet(s)
  <2>1. \A i \in 1 .. Len(s) : s[i] # e
    BY <1>1, <1>2 DEF ToSet
  <2>2. t = s
    BY <2>1, RemoveFirstAbsent
  <2> QED
    BY <1>2, <2>2
<1>3. CASE e \in ToSet(s)
  <2>1. PICK k \in 1 .. Len(s) : e = s[k]
    BY <1>1, <1>3 DEF ToSet
  <2>2. \A i \in 1 .. Len(s) : s[i] = s[k] => i = k
    BY <1>1 DEF IsInjective
  <2>3. \A i \in 1 .. Len(s) : s[i] = s[k] => k <= i
    BY <2>2
  <2>4. /\ t \in Seq(S) /\ Len(t) = Len(s) - 1
        /\ \A i \in 1 .. Len(s) - 1 : t[i] = IF i < k THEN s[i] ELSE s[i + 1]
    BY <2>1, <2>3, RemoveFirstFacts
  <2> HIDE DEF t
  <2>5. DOMAIN t = 1 .. Len(s) - 1
    BY <2>4
  <2>6. \A i \in 1 .. Len(s) : i # k => s[i] \in ToSet(t)
    <3> SUFFICES ASSUME NEW i \in 1 .. Len(s), i # k PROVE s[i] \in ToSet(t)
      OBVIOUS
    <3>1. CASE i < k
      BY <2>4, <2>5, <3>1 DEF ToSet
    <3>2. CASE i > k
      <4>1. i - 1 \in 1 .. Len(s) - 1 /\ t[i - 1] = s[i]
        BY <2>4, <3>2
      <4> QED
        BY <2>5, <4>1 DEF ToSet
    <3> QED
      BY <3>1, <3>2
  <2>7. \A i \in 1 .. Len(s) - 1 : \E j \in 1 .. Len(s) : j # k /\ t[i] = s[j]
    BY <2>4
  <2>8. ToSet(t) = ToSet(s) \ {e}
    <3>1. \A x \in ToSet(s) \ {e} : x \in ToSet(t)
      BY <1>1, <2>1, <2>6 DEF ToSet
    <3>2. \A i \in 1 .. Len(s) - 1 : t[i] \in ToSet(s) \ {e}
      BY <1>1, <2>1, <2>2, <2>7 DEF ToSet
    <3>3. \A x \in ToSet(t) : x \in ToSet(s) \ {e}
      BY <2>5, <3>2 DEF ToSet
    <3> QED
      BY <3>1, <3>3
  <2>9. IsInjective(t)
    BY <1>1, <2>4, <2>5 DEF IsInjective
  <2>10. ASSUME s # <<>>, Head(s) # e PROVE t # <<>> /\ Head(t) = Head(s)
    <3>1. k # 1 /\ Head(s) = s[1]
      BY <2>1, <2>10
    <3>2. 1 \in 1 .. Len(s) - 1 /\ t[1] = s[1]
      BY <2>1, <2>4, <3>1
    <3> QED
      BY <2>4, <3>1, <3>2
  <2> QED
    BY <2>4, <2>8, <2>9, <2>10 DEF t
<1> QED
  BY <1>2, <1>3

\* The first n leave together.
LEMMA LeaveQueue ==
  ASSUME NEW S, NEW s \in Seq(S), IsInjective(s), NEW n \in 0 .. Len(s)
  PROVE  /\ SubSeq(s, n + 1, Len(s)) \in Seq(S)
         /\ IsInjective(SubSeq(s, n + 1, Len(s)))
         /\ ToSet(SubSeq(s, n + 1, Len(s))) = ToSet(s) \ {s[j] : j \in 1 .. n}
         /\ {s[j] : j \in 1 .. n} \subseteq ToSet(s)
         /\ IsFiniteSet({s[j] : j \in 1 .. n}) /\ Cardinality({s[j] : j \in 1 .. n}) = n
         /\ n = Len(s) => SubSeq(s, n + 1, Len(s)) = <<>>
<1> DEFINE t == SubSeq(s, n + 1, Len(s))
           gone == {s[j] : j \in 1 .. n}
<1>1. DOMAIN s = 1 .. Len(s) /\ Len(s) \in Nat /\ \A i \in 1 .. Len(s) : s[i] \in S
  OBVIOUS
<1>2. /\ t \in Seq(S) /\ Len(t) = Len(s) - n
      /\ \A i \in 1 .. Len(s) - n : t[i] = s[n + i]
  OBVIOUS
<1>3. n = Len(s) => t = <<>>
  BY <1>2
<1> HIDE DEF t
<1>4. DOMAIN t = 1 .. Len(s) - n
  BY <1>2
<1>5. \A i, j \in 1 .. Len(s) : s[i] = s[j] => i = j
  BY <1>1 DEF IsInjective
<1>6. \A i \in 1 .. Len(s) - n : n + i \in 1 .. Len(s)
  BY <1>1
<1>7. IsInjective(t)
  <2> SUFFICES ASSUME NEW i \in 1 .. Len(s) - n, NEW j \in 1 .. Len(s) - n, t[i] = t[j]
               PROVE  i = j
    BY <1>4 DEF IsInjective
  <2>1. n + i = n + j
    BY <1>2, <1>5, <1>6
  <2> QED
    BY <1>1, <2>1
<1>8. ToSet(t) \subseteq ToSet(s) \ gone
  <2> SUFFICES ASSUME NEW i \in 1 .. Len(s) - n PROVE t[i] \in ToSet(s) \ gone
    BY <1>4 DEF ToSet
  <2>1. t[i] = s[n + i] /\ n + i \in 1 .. Len(s)
    BY <1>2, <1>6
  <2>2. \A j \in 1 .. n : s[j] # s[n + i]
    BY <1>1, <1>5, <1>6
  <2> QED
    BY <1>1, <2>1, <2>2 DEF ToSet
<1>9. ToSet(s) \ gone \subseteq ToSet(t)
  <2> SUFFICES ASSUME NEW i \in 1 .. Len(s), s[i] \notin gone PROVE s[i] \in ToSet(t)
    BY <1>1 DEF ToSet
  <2>1. i \notin 1 .. n
    OBVIOUS
  <2>2. i - n \in 1 .. Len(s) - n /\ n + (i - n) = i
    BY <1>1, <2>1
  <2>3. t[i - n] = s[i]
    BY <1>2, <2>2
  <2> QED
    BY <1>4, <2>2, <2>3 DEF ToSet
<1>10. gone \subseteq ToSet(s)
  BY <1>1 DEF ToSet
<1>11. IsFiniteSet(gone) /\ Cardinality(gone) = n
  <2> DEFINE f == [j \in 1 .. n |-> s[j]]
  <2>1. f \in Bijection(1 .. n, gone)
    BY <1>1, <1>5 DEF Bijection, Injection, Surjection, IsInjective
  <2>2. ExistsBijection(1 .. n, gone)
    BY <2>1 DEF ExistsBijection
  <2>3. IsFiniteSet(1 .. n) /\ Cardinality(1 .. n) = n
    BY <1>1, FS_Interval
  <2> HIDE DEF gone
  <2> QED
    BY <2>2, <2>3, FS_Bijection
<1> HIDE DEF gone
<1>12. ToSet(t) = ToSet(s) \ gone
  BY <1>8, <1>9
<1> QED
  BY <1>2, <1>3, <1>7, <1>10, <1>11, <1>12 DEF t, gone

-----------------------------------------------------------------------------
(* Loops.                                                                  *)

\* What holds before a loop and is kept by each of its n turns holds after each of them.
LEMMA CountUp ==
  ASSUME NEW n \in Nat, NEW Good, 0 \in Good, \A k \in 1 .. n : k - 1 \in Good => k \in Good
  PROVE  \A k \in 0 .. n : k \in Good
<1> DEFINE Bad == {k \in 0 .. n : k \notin Good}
<1> SUFFICES ASSUME Bad # {} PROVE FALSE
  OBVIOUS
<1>1. PICK m \in Bad : \A j \in Bad : m <= j
  <2>1. Bad \in SUBSET Nat
    OBVIOUS
  <2> QED
    BY <2>1, LeastNatural
<1>2. m \in 1 .. n /\ m - 1 \in 0 .. n /\ ~(m <= m - 1)
  <2>1. m # 0
    OBVIOUS
  <2> QED
    BY <1>1, <2>1
<1>3. m - 1 \in Good
  BY <1>1, <1>2
<1> QED
  BY <1>2, <1>3

\* The states that a loop of n turns goes through.
Looped(f, S, start, n, turn) ==
  f \in [0 .. n -> S] /\ f[0] = start /\ \A k \in 1 .. n : f[k] = turn[k][f[k - 1]]

\* A loop goes through some sequence of states.
LEMMA LoopExists ==
  ASSUME NEW S, NEW start \in S, NEW n \in Nat, NEW turn \in [1 .. n -> [S -> S]]
  PROVE  \E f : Looped(f, S, start, n, turn)
<1> DEFINE Runs(f, m) == f[0] = start /\ \A k \in 1 .. m : f[k] = turn[k][f[k - 1]]
           Good == {m \in 0 .. n : \E f \in [0 .. m -> S] : Runs(f, m)}
<1>1. 0 \in Good
  <2> DEFINE f == [k \in 0 .. 0 |-> start]
  <2>1. f \in [0 .. 0 -> S] /\ Runs(f, 0)
    OBVIOUS
  <2> HIDE DEF f, Runs
  <2> QED
    BY <2>1
<1>2. ASSUME NEW m \in 1 .. n, m - 1 \in Good PROVE m \in Good
  <2>1. PICK f \in [0 .. m - 1 -> S] : Runs(f, m - 1)
    BY <1>2
  <2> DEFINE next == turn[m][f[m - 1]]
             g == [k \in 0 .. m |-> IF k = m THEN next ELSE f[k]]
  <2>2. m \in Nat /\ m # 0 /\ m - 1 \in 0 .. m - 1
    OBVIOUS
  <2>3. f[m - 1] \in S /\ turn[m] \in [S -> S]
    BY <2>1, <2>2
  <2>4. next \in S
    BY <2>3
  <2> HIDE DEF next
  <2>5. g \in [0 .. m -> S]
    BY <2>1, <2>2, <2>4
  <2>6. g[0] = start
    BY <2>1, <2>2
  <2>7. ASSUME NEW k \in 1 .. m PROVE g[k] = turn[k][g[k - 1]]
    <3>1. g[k - 1] = f[k - 1]
      BY <2>2
    <3>2. CASE k = m
      BY <3>1, <3>2 DEF next
    <3>3. CASE k # m
      <4>1. k \in 1 .. m - 1 /\ g[k] = f[k]
        BY <2>2, <3>3
      <4> QED
        BY <2>1, <3>1, <4>1
    <3> QED
      BY <3>2, <3>3
  <2>8. Runs(g, m)
    BY <2>6, <2>7
  <2> HIDE DEF g, Runs
  <2> QED
    BY <2>5, <2>8
<1> HIDE DEF Good
<1>3. \A m \in 0 .. n : m \in Good
  <2>1. \A m \in 1 .. n : m - 1 \in Good => m \in Good
    BY <1>2
  <2> QED
    BY <1>1, <2>1, CountUp, Zenon
<1>4. n \in Good
  BY <1>3
<1> QED
  BY <1>4 DEF Good, Looped

=============================================================================
