------------------------ MODULE MCSyncStatusMonitor ------------------------
(***************************************************************************)
(* Instances of SyncStatusMonitor for TLC.                                 *)
(***************************************************************************)
EXTENDS SyncStatusMonitor

CONSTANTS ip1, ip2, ip3

(* Three servers, written as a master server of IPv4 addresses writes them. *)
PlainAddresses ==
  {[ip |-> i, port |-> 7777, in6 |-> FALSE] : i \in {ip1, ip2, ip3}}

(* One server, which a list names in both forms. *)
MappedAddresses == {[ip |-> ip1, port |-> 7777, in6 |-> f] : f \in BOOLEAN}
=============================================================================
