----------------------------- MODULE TopicMatching -----------------------------
(***************************************************************************)
(* topic_matching.py: which filters match a topic, and which of two        *)
(* filters is the more specific one.  A topic and a filter are the         *)
(* sequences of their levels, what split("/") returns: never empty.        *)
(***************************************************************************)
EXTENDS Integers, Sequences

CONSTANTS
  DollarLevels,    \* the levels that begin with "$"
  StrippedPrefixes \* stripped_prefixes of MQTTClient, levels such as "$queue"

Dollar(levels) == Head(levels) \in DollarLevels

\* The filter the broker matches: without $share/<group>/ or a decorator.  One
\* that has nothing behind it is left alone.
SharedFilterToActual(f) ==
  IF Head(f) = "$share" /\ Len(f) >= 3 THEN SubSeq(f, 3, Len(f))
  ELSE IF Head(f) \in StrippedPrefixes /\ Len(f) >= 2 THEN Tail(f)
  ELSE f

\* _match_parts(), which walks along both.
MatchParts(f, t) ==
  LET rest[i \in 1 .. Len(f) + 1] ==
        IF i > Len(f) THEN i > Len(t)
        ELSE \/ f[i] = "#"
             \/ i <= Len(t) /\ f[i] \in {"+", t[i]} /\ rest[i + 1]
  IN  rest[1]

TopicMatches(f, t) == Dollar(t) = Dollar(f) /\ MatchParts(f, t)

SegmentRank(level) == CASE level = "#" -> 2 [] level = "+" -> 1 [] OTHER -> 0

\* a < b for tuples of ranks: the first difference decides, then the length.
RanksBelow(a, b) ==
  \E i \in 1 .. Len(b) :
    /\ \A j \in 1 .. i - 1 : j <= Len(a) /\ a[j] = b[j]
    /\ i > Len(a) \/ a[i] < b[i]

FilterSpecificity(f) == [i \in DOMAIN f |-> SegmentRank(f[i])]

-----------------------------------------------------------------------------
(* The rules of MQTT (4.7 of the standard), to compare with.               *)

\* "#" stands for any number of levels at the end, none included, "+" for exactly
\* one; a wildcard in the first place does not match a topic that begins with "$".
Matches(f, t) ==
  /\ \A i \in DOMAIN f : f[i] = "#" \/ (i <= Len(t) /\ f[i] \in {"+", t[i]})
  /\ Len(t) > Len(f) => f[Len(f)] = "#"
  /\ Dollar(t) => Head(f) \notin {"+", "#"}

=============================================================================
