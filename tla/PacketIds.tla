------------------------------ MODULE PacketIds ------------------------------
(***************************************************************************)
(* PacketIdPool of state.py: the allocator of MQTT packet identifiers.     *)
(*                                                                         *)
(* A pool is a record of the two attributes of the class: next is the      *)
(* identifier the search starts from, inUse the identifiers handed out.    *)
(* MaxId stands for 65535, the largest identifier.                         *)
(***************************************************************************)
EXTENDS Integers, FiniteSets, FiniteSetsExt

CONSTANT MaxId

ASSUME MaxIdAssumption == MaxId \in Nat \ {0}

PacketId == 1 .. MaxId

Pool == [next : PacketId, inUse : SUBSET PacketId]

EmptyPool == [next |-> 1, inUse |-> {}]

\* Mutant: the successor does not wrap.
SuccWithoutWrap(id) == id + 1

\* `pid % 65535 + 1': the cyclic successor.
Succ(id) == (id % MaxId) + 1

\* acquire() raises RuntimeError instead of searching.
Exhausted(pool) == Cardinality(pool.inUse) >= MaxId

FreeIds(pool) == PacketId \ pool.inUse

\* Where the while loop of acquire() stops: the first free identifier met when
\* counting up from next and wrapping from MaxId to 1.
NextFree(pool) ==
  LET ahead == {i \in FreeIds(pool) : i >= pool.next}
  IN  IF ahead # {} THEN Min(ahead) ELSE Min(FreeIds(pool))

Acquire(pool) ==
  [next  |-> Succ(NextFree(pool)),
   inUse |-> pool.inUse \cup {NextFree(pool)}]

\* Mutant: release() leaves the search where it is.
ReleaseKeepsNext(pool, id) == [pool EXCEPT !.inUse = @ \ {id}]

Release(pool, id) ==
  [next  |-> IF id < pool.next THEN id ELSE pool.next,
   inUse |-> pool.inUse \ {id}]

=============================================================================
