--------------------------- MODULE MCListSessions ---------------------------
(***************************************************************************)
(* Instances of ListSessions for TLC: the same short list in each of the   *)
(* forms a master server may send it.                                      *)
(***************************************************************************)
EXTENDS ListSessions

CONSTANTS h1, h2

Server(h, p, q) == [host |-> h, port |-> <<p, q>>]
ThreeServers == <<Server(h1, "1", "2"), Server(h2, "2", "1"), Server(h1, "2", "2")>>

TheChallenge == <<"A", "B">>

(* The text from a master server of the kind that sends invalid data, the  *)
(* second server with an IPv6 address or not, and the compressed list from *)
(* one that does not; a parameter that asks for more than the reply buffer *)
(* holds.                                                                  *)
GOAText(in6) ==
  [kind |-> "goa", NoCompressedList |-> TRUE, MaxChallengeLen |-> 2,
   junk |-> <<Backslash, "x">>, IPv6Hosts |-> in6]
GOARecords(max) ==
  [kind |-> "goa", NoCompressedList |-> FALSE, MaxChallengeLen |-> max,
   junk |-> <<>>, IPv6Hosts |-> {}]
GOA == {GOAText({}), GOAText({h2}), GOARecords(0), GOARecords(18)}

(* An entry with nothing but its address, one with every part but rules,   *)
(* one with rules; and a list that the reader does not take.               *)
SBV2 ==
  {[kind |-> "sbv2", defaultPort |-> <<"1", "2">>, fields |-> <<"byte", "string", "short">>,
    popular |-> p, flags |-> <<"plain", "most", "rules">>,
    bits |-> [plain |-> {},
              most |-> {"NONSTANDARD_PORT", "PRIVATE_IP", "NONSTANDARD_PRIVATE_PORT",
                        "ICMP_IP", "HAS_KEYS"},
              rules |-> {"NONSTANDARD_PORT", "HAS_FULL_RULES"}]] : p \in {Zero, "1"}}

(* A client with and without verification, and one that is denied. *)
UTMS ==
  {[kind |-> "utms", verifies |-> v, approves |-> a] : v, a \in BOOLEAN}

EverySession == GOA \cup SBV2 \cup UTMS
=============================================================================
