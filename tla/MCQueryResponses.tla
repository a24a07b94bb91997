-------------------------- MODULE MCQueryResponses --------------------------
(***************************************************************************)
(* Instances of QueryResponses for TLC: each query engine, with and        *)
(* without an output handler, and answers with empty, short and long       *)
(* strings, with colours, with a key given twice.                          *)
(***************************************************************************)
EXTENDS QueryResponses

UT2K(version, handler) == [kind |-> "ut2k", version_id |-> version, outputHandler |-> handler]
Other(kind, handler) == [kind |-> kind, outputHandler |-> handler]

EveryEngine ==
  {UT2K(UT2004_VERSION, TRUE), UT2K(121, TRUE), UT2K(121, FALSE)}
    \cup {Other(k, h) : k \in {"samp", "qr2", "goa0"}, h \in BOOLEAN}

T == <<84>>
Text == <<84, 101>>
Coloured == <<84, Esc, 101, 84>>
Long == [i \in 1..27 |-> 84]

(* With Coloured and T it fills the buffer of 27 bytes. *)
UT2KInfo(hostname, mapname, players) ==
  <<121, 0, 5, <<>>, 6, 7, hostname, mapname, <<>>, players, 2, 9>>

EveryAnswer ==
  [ut2k |-> {UT2KInfo(Coloured, <<>>, 1), UT2KInfo(Coloured, T, 2),
             [UT2KInfo(T, T, 2) EXCEPT ![2] = 1],
             [UT2KInfo(<<>>, T, 1) EXCEPT ![1] = UT2004_VERSION] \o <<8, Text>>},
   samp |-> {<<Magic, 4, 0, 1, 2, T, <<>>, Text>>, <<Magic, 4, 3, 1, 2, <<>>, Text, T>>,
             <<0, 4, 0, 1, 2, T, T, T>>},
   qr2  |-> {<<>>, << <<T, Text>>, <<Text, <<>>>>, <<T, T>> >>, << <<Text, T>> >>, << <<T, Long>> >>},
   goa0 |-> {<<>>, << <<T, Text>>, <<Text, <<>>>>, <<T, T>> >>,
             << <<Text, T>>, <<QueryID, T>> >>}]
=============================================================================
