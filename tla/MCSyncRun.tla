------------------------------ MODULE MCSyncRun ------------------------------
(***************************************************************************)
(* Instances of SyncRun for TLC: configuration files with one or two       *)
(* entries, each with its own query engine, as Config builds them.         *)
(***************************************************************************)
EXTENDS SyncRun

CONSTANTS ip1, ip2, l1, l2, q1, q2

Server(i, p) == [ip |-> i, port |-> p, in6 |-> FALSE]
A == Server(ip1, 7777)
B == Server(ip2, 7777)
Neighbour == Server(ip1, 7778)

AandB == {A, B}
AandNeighbour == {A, Neighbour}

(* One entry, or two that list the same servers. *)
Entries(engines, kinds, queryKinds, handlers, list) ==
  [params |-> engines,
   queryEngine |-> [l \in ListEngines |-> IF l = l1 THEN q1 ELSE q2],
   kind |-> [l \in ListEngines |-> IF l = l1 THEN kinds[1] ELSE kinds[2]],
   queryKind |-> [q \in QueryEngines |-> IF q = q1 THEN queryKinds[1] ELSE queryKinds[2]],
   outputHandlers |-> handlers,
   listing |-> [l \in ListEngines |-> list]]

OneEntry(kind, queryKind, list) ==
  Entries(<<l1>>, <<kind, kind>>, <<queryKind, queryKind>>, QueryEngines, list)
TwoEntries(kinds, queryKinds, handlers) ==
  Entries(<<l1, l2>>, kinds, queryKinds, handlers, <<A>>)

MasterServer == OneEntry("goa0", "goa0", <<A, B>>)
ApiAndMaster == TwoEntries(<<"http", "sbv2">>, <<"goa0", "samp">>, {q2})
File == Entries(<<l1>>, <<"file", "file">>, <<"qr2", "qr2">>, {}, <<A>>)
OtherMaster == OneEntry("ut2k", "qr2", <<A, A>>)
Refresh == TwoEntries(<<"refresh", "refresh">>, <<"qr2", "samp">>, {q1, q2})

EveryKindOfEntry == {MasterServer, ApiAndMaster, File, OtherMaster, Refresh}
OneOfEach == {OneEntry("goa0", "goa0", <<A, B>>), OneEntry("refresh", "qr2", <<A, B>>)}
ShortList == {OneEntry("goa0", "goa0", <<A, B>>)}
Neighbours == {OneEntry("ut2k", "ut2k", <<A, Neighbour>>)}
=============================================================================
