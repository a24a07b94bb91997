---------------------------- MODULE ListSessions ----------------------------
(***************************************************************************)
(* A session of any kind of list engine with its master server: one of the *)
(* three components runs, the variables of the others stay as they are.    *)
(***************************************************************************)
EXTENDS GOAListReader, SBV2Session, UTMSSession

vars == <<sessionVars, readerVars, sbv2Vars, utmsVars>>

ListSessionsInit ==
  /\ session \in Sessions
  /\ CASE session.kind = "goa"  -> SessionInit("auth", Greeting)
       [] session.kind = "sbv2" -> SessionInit("request", <<>>)
       [] session.kind = "utms" -> SessionInit("challenge", Message(CompactString(ChallengeText)))
  /\ ReaderInit
  /\ SBV2Init
  /\ UTMSInit

Ended == over /\ UNCHANGED vars

ListSessionsNext ==
  \/ MasterCloses /\ UNCHANGED <<readerVars, sbv2Vars, utmsVars>>
  \/ session.kind = "goa" /\ ReaderNext /\ UNCHANGED <<sbv2Vars, utmsVars>>
  \/ session.kind = "sbv2" /\ SBV2Next /\ UNCHANGED <<readerVars, utmsVars>>
  \/ session.kind = "utms" /\ UTMSNext /\ UNCHANGED <<readerVars, sbv2Vars>>
  \/ Ended

ListSessionsSpec == ListSessionsInit /\ [][ListSessionsNext]_vars

(***************************************************************************)
(* A reader handles what it has read, and a Read on a connection that      *)
(* Shutdown has closed returns an error.                                   *)
(***************************************************************************)
Works ==
  \/ session.kind = "goa" /\ Handles /\ UNCHANGED <<sbv2Vars, utmsVars>>
  \/ session.kind = "sbv2" /\ SBV2Works /\ UNCHANGED <<readerVars, utmsVars>>

ReadsFail ==
  /\ connClosed
  /\ \/ session.kind = "goa" /\ Fails /\ UNCHANGED <<sbv2Vars, utmsVars>>
     \/ session.kind = "sbv2" /\ SBV2Fails /\ UNCHANGED <<readerVars, utmsVars>>
     \/ session.kind = "utms" /\ WaitFails /\ UNCHANGED <<readerVars, sbv2Vars>>

FairListSessionsSpec == ListSessionsSpec /\ WF_vars(Works) /\ WF_vars(ReadsFail)

-----------------------------------------------------------------------------
(* Properties. *)

(* Every variable has its type; GOA: while a pass is on, its last piece is *)
(* still to be kept.                                                       *)
SessionTypeOK ==
  /\ session \in Sessions
  /\ {closed, connClosed, validated, shortRead, lost} \subseteq BOOLEAN
  /\ CASE session.kind = "goa"  -> ReaderTypeOK
       [] session.kind = "sbv2" -> SBV2TypeOK
       [] session.kind = "utms" -> UTMSTypeOK

InStep ==
  CASE session.kind = "goa"  -> ReaderInStep
    [] session.kind = "sbv2" -> SBV2InStep
    [] session.kind = "utms" -> UTMSInStep

GotAll ==
  CASE session.kind = "goa"  -> ReaderGotAll
    [] session.kind = "sbv2" -> SBV2GotAll
    [] session.kind = "utms" -> UTMSGotAll

Delivery == INSTANCE ListDelivery WITH Listing <- Listing, handled <- handled, over <- over

(* A session of any kind behaves as a delivery of the list: the servers    *)
(* are handled in its order, none is left out or invented, only the last   *)
(* may have lost digits of its port.  That holds wherever the connection   *)
(* fails or is closed, and: for the textual GOA list however it is cut     *)
(* into Reads, greeting included; for the compressed one as long as each   *)
(* Read returns a record; for SBV2 however it is cut, until Shutdown takes *)
(* the cipher state away; for UTMS as long as no length is read in part.   *)
DeliversInOrder ==
  /\ Delivery!DeliveryInit
  /\ [][InStep' => Delivery!DeliveryNext]_(Delivery!deliveryVars)

(* A session that got all the master server sends has handled its whole    *)
(* list, and ended without a panic.                                        *)
WholeListHandled == (over /\ GotAll) => (pc = "done" /\ handled = Listing)

(* A session panics only for one of these: GOA at a MaxChallengeLen that   *)
(* does not fit its reply buffer, or at an IPv6 server of the text, and    *)
(* then having handled every server before that one; SBV2 at a failed Read *)
(* while it decrypts; UTMS at a length that was read in part.              *)
PanicNeedsFailure ==
  pc = "panic" =>
    \/ session.kind = "goa" /\ ReaderMayPanic
    \/ session.kind = "sbv2" /\ gotFatalError /\ enctypeXData # "none"
    \/ session.kind = "utms" /\ shortRead

(* A reader whose connection Shutdown closes does not go on for ever: GOA  *)
(* leaves its loop on the error, UTMS returns, and the string and rule     *)
(* loops of SBV2, which do not look at the error, meet a zero or panic.    *)
ShutdownEndsReader == connClosed ~> over
=============================================================================
