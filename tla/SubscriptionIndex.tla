--------------------------- MODULE SubscriptionIndex ---------------------------
(***************************************************************************)
(* subscription_index.py: the trie of subscribed filters, the table of     *)
(* subscription identifiers, and the choice of the one subscription that   *)
(* receives a message.                                                     *)
(*                                                                         *)
(* An index is a record: entries maps a filter to its SubscriptionEntry,   *)
(* root maps the path of every _Node, the levels that lead to it, to its   *)
(* entries, and byIdentifier maps an identifier to the filters that have   *)
(* it, in the order they were added.  The children of a node are the paths *)
(* one level longer; whether a child is in `children' or in                *)
(* `wildcard_children' follows from its level.                             *)
(***************************************************************************)
EXTENDS TopicMatching, SequencesExt

NoIdentifier == 0
NoRecipient == <<>>
EmptyIndex == [entries |-> <<>>, root |-> [p \in {<<>>} |-> <<>>], byIdentifier |-> <<>>]

\* _actual_filter(), and the path of a filter in the trie.
ActualFilter(f) ==
  LET actual == SharedFilterToActual(f) IN IF actual = <<"">> THEN f ELSE actual

NodesOf(path) == {SubSeq(path, 1, k) : k \in 0 .. Len(path)}
At(table, key) == IF key \in DOMAIN table THEN table[key] ELSE <<>>
With(table, key, value) ==
  [k \in DOMAIN table \cup {key} |-> IF k = key THEN value ELSE table[k]]

\* The members of a list at the positions I, in their order: a list comprehension.
Picked(s, I) ==
  LET kept[k \in 0 .. Len(s)] ==
        IF k = 0 THEN <<>>
        ELSE IF k \in I THEN Append(kept[k - 1], s[k]) ELSE kept[k - 1]
  IN  kept[Len(s)]

Without(s, f) == Picked(s, {k \in DOMAIN s : s[k] # f})

\* Mutant: a node with children of its own is pruned.
PrunableWithChildren(root, path) == path \in DOMAIN root /\ root[path] = <<>>

Prunable(root, path) ==
  /\ root[path] = <<>>
  /\ \A other \in DOMAIN root : Len(other) = Len(path) + 1 => ~IsPrefix(path, other)

\* _remove_entry(): the entry goes, and on the way back every node it leaves empty.
Pop(root, node) == IF Prunable(root, node) THEN Restrict(root, DOMAIN root \ {node}) ELSE root

RemoveEntry(root, path, f) ==
  LET popped[k \in 0 .. Len(path)] ==
        IF k = 0 THEN [root EXCEPT ![path] = Without(@, f)]
        ELSE Pop(popped[k - 1], SubSeq(path, 1, Len(path) + 1 - k))
  IN  popped[Len(path)]

ForgetIdentifier(table, i, f) ==
  IF Without(table[i], f) = <<>> THEN Restrict(table, DOMAIN table \ {i})
  ELSE [table EXCEPT ![i] = Without(@, f)]

Remove_(index, f) ==
  IF f \notin DOMAIN index.entries THEN index
  ELSE LET i == index.entries[f].identifier IN
       [entries |-> Restrict(index.entries, DOMAIN index.entries \ {f}),
        root |-> RemoveEntry(index.root, ActualFilter(f), f),
        byIdentifier |-> IF i = NoIdentifier THEN index.byIdentifier
                         ELSE ForgetIdentifier(index.byIdentifier, i, f)]

Add(index, f, entry) ==
  LET old == Remove_(index, f)
      path == ActualFilter(f)
      i == entry.identifier
  IN [entries |-> With(old.entries, f, entry),
      root |-> [p \in DOMAIN old.root \cup NodesOf(path) |->
                  IF p = path THEN Append(At(old.root, p), f) ELSE At(old.root, p)],
      byIdentifier |-> IF i = NoIdentifier THEN old.byIdentifier
                       ELSE With(old.byIdentifier, i, Append(At(old.byIdentifier, i), f))]

AddMany(index, fs, entry) ==
  LET added[k \in 0 .. Len(fs)] == IF k = 0 THEN index ELSE Add(added[k - 1], fs[k], entry)
  IN  added[Len(fs)]

RemoveMany(index, fs) ==
  LET left[k \in 0 .. Len(fs)] == IF k = 0 THEN index ELSE Remove_(left[k - 1], fs[k])
  IN  left[Len(fs)]

\* _collect(): the walk down the trie along the levels of t.
Collect(root, t) ==
  LET walk[path \in DOMAIN root] ==
        LET below(level) == LET p == Append(path, level) IN
                            IF p \in DOMAIN root THEN walk[p] ELSE <<>>
        IN At(root, Append(path, "#")) \o
           (IF Len(path) = Len(t) THEN root[path]
            ELSE below(t[Len(path) + 1]) \o below("+"))
  IN  walk[<<>>]

MatchingAmong(fs, t) == SelectSeq(fs, LAMBDA f : TopicMatches(ActualFilter(f), t))

Specificity(f) == FilterSpecificity(ActualFilter(f))

\* _select_from(): the most specific candidates; the first of them receives.
SelectFrom(candidates) ==
  SelectSeq(candidates,
            LAMBDA f : \A g \in ToSet(candidates) : ~RanksBelow(Specificity(g), Specificity(f)))

\* Mutant: the first match, not the best one.
SelectFirst(index, t) == MatchingAmong(Collect(index.root, t), t)

\* match() and select().  match() also sorts, which does not change the winners.
Select(index, t) == SelectFrom(MatchingAmong(Collect(index.root, t), t))

\* The broker's identifier decides; without a subscription that has it, the topic.
SelectByIdentifier(index, t, i) ==
  LET identified == At(index.byIdentifier, i)
      matching == MatchingAmong(identified, t)
  IN IF identified = <<>> THEN Select(index, t)
     ELSE SelectFrom(IF matching # <<>> THEN matching ELSE identified)

\* _select_subscription(): the recipient, as a sequence of at most one filter.
SelectSubscription(index, t, i) ==
  LET winners == IF i = NoIdentifier THEN Select(index, t)
                 ELSE SelectByIdentifier(index, t, i)
  IN  IF winners = <<>> THEN NoRecipient ELSE <<Head(winners)>>

=============================================================================
