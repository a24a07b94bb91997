---------------------------- MODULE QueryTracker ----------------------------
(***************************************************************************)
(* What the status monitor promises about queries, without its list: every *)
(* query is idle or pending; a pending one was sent a number of times, is  *)
(* sent again until its attempts are used up, and is settled, by an answer *)
(* or by giving up, as a whole.                                            *)
(***************************************************************************)
EXTENDS Naturals

CONSTANTS Queries, MAX_ATTEMPTS

VARIABLE attempts   \* 0: not pending, n: pending and sent n times

TrackerInit == attempts = [k \in Queries |-> 0]

Begin(k) ==
  /\ attempts[k] = 0
  /\ attempts' = [attempts EXCEPT ![k] = 1]

Resend(k) ==
  /\ attempts[k] \in 1..MAX_ATTEMPTS
  /\ attempts' = [attempts EXCEPT ![k] = @ + 1]

Settle(k) ==
  /\ attempts[k] # 0
  /\ attempts' = [attempts EXCEPT ![k] = 0]

TrackerNext == \E k \in Queries : Begin(k) \/ Resend(k) \/ Settle(k)

TrackerSpec == TrackerInit /\ [][TrackerNext]_attempts
=============================================================================
