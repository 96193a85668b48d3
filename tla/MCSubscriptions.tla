---------------------------- MODULE MCSubscriptions ----------------------------
(* The instance of Subscriptions that TLC checks.                          *)
EXTENDS Subscriptions

AB == <<"a", "b">>
APlus == <<"a", "+">>
AHash == <<"a", "#">>
Hash == <<"#">>
Sys == <<"$SYS", "#">>
Shared == <<"$share", "g", "a", "+">>
Queue == <<"$queue", "a", "b">>

MCDollarLevels == {"$SYS", "$share", "$queue"}
MCStrippedPrefixes == {"$queue"}
MCOrder == <<Hash, Sys, Queue, Shared, AHash, APlus, AB>>
MCRejected == {Sys}
MCKept == {AHash}
MCDecorated == Shared :> APlus @@ Queue :> AB
MCTopics == {<<"a">>, <<"b">>, AB, <<"a", "c">>, <<"b", "b">>, <<"a", "b", "c">>, <<"$SYS", "x">>}

Asks(kind, filters, i) == [kind |-> kind, filters |-> filters, identifier |-> i]
MCRequests ==
  {Asks("subscribe", <<AB, AHash>>, 1),
   Asks("subscribe", <<Hash, AB, Hash>>, 2),
   Asks("subscribe", <<APlus, Shared, Sys>>, 1),
   Asks("subscribe", <<Shared, Queue>>, NoIdentifier),
   Asks("unsubscribe", <<AHash, AB>>, NoIdentifier),
   Asks("unsubscribe", <<Shared, APlus>>, NoIdentifier),
   Asks("observe", <<AB>>, NoIdentifier),
   Asks("unobserve", <<AB>>, NoIdentifier)}

Interchangeable == Permutations(Calls)

=============================================================================
