---------------------------- MODULE ListDelivery ----------------------------
(***************************************************************************)
(* What a list session promises: the servers of the master's list are      *)
(* handled one by one in the master's order.  The session may end anywhere *)
(* in the list, and the last server it handles may then have lost digits   *)
(* of its port.                                                            *)
(***************************************************************************)
EXTENDS SequencesExt

CONSTANT Listing   \* the servers of the list: a host and the digits of a port

VARIABLES
  handled,   \* the servers handled so far
  over       \* whether the session has ended

deliveryVars == <<handled, over>>

DeliveryInit == handled = <<>> /\ over = FALSE

Deliver ==
  /\ ~over
  /\ Len(handled) < Len(Listing)
  /\ handled' = Append(handled, Listing[Len(handled) + 1])
  /\ over' \in BOOLEAN

(* Some leading digits of the port are all that arrived. *)
DeliverCut ==
  /\ ~over
  /\ Len(handled) < Len(Listing)
  /\ LET next == Listing[Len(handled) + 1] IN
       \E p \in Prefixes(next.port) \ {<<>>} :
         handled' = Append(handled, [next EXCEPT !.port = p])
  /\ over' = TRUE

End == ~over /\ over' = TRUE /\ UNCHANGED handled

DeliveryNext == Deliver \/ DeliverCut \/ End

DeliverySpec == DeliveryInit /\ [][DeliveryNext]_deliveryVars
=============================================================================
