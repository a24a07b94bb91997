---------------------------- MODULE MasterSession ---------------------------
(***************************************************************************)
(* What the list engines that talk to a master server have in common: one  *)
(* TCP stream, which Read delivers in pieces and which either side may     *)
(* close, and the servers the engine passes on.                            *)
(*                                                                         *)
(* The stream is a sequence of symbols.  A host is one symbol for its four *)
(* bytes, as the code takes it in one piece or skips it; whatever a cut    *)
(* between two bytes can spoil, a port or a length, is two.                *)
(***************************************************************************)
EXTENDS Naturals, SequencesExt

CONSTANTS
  Hosts,
  Digits,
  Listing,           \* the list of the master server
  Sessions           \* the sessions to look at: the kind of the engine, its
                     \* parameters, and what its master server does

Address == [host : Hosts, port : Seq(Digits) \ {<<>>}]

ASSUME ListingAssumption ==
  /\ Listing \in Seq(Address)
  /\ \A i \in 1..Len(Listing) : Len(Listing[i].port) = 2

(* The three engines whose think talks to a master server over TCP. *)
ASSUME KindAssumption == \A s \in Sessions : s.kind \in {"goa", "sbv2", "utms"}

(* The value of a symbol as a length or a count. *)
Zero == "0"
Numerals == <<Zero, "1", "2", "3", "4", "5", "6", "7", "8", "9">>
Big == 99     \* bound: the value of any other symbol, more than is ever sent
Value(c) == IF c \in ToSet(Numerals) THEN CHOOSE n \in 0..9 : Numerals[n + 1] = c ELSE Big

VARIABLES
  session,        \* the session this is; it does not change
  pc,             \* where think stands
  stream,         \* what was sent and not read
  closed,         \* the master server has closed its side
  connClosed,     \* Shutdown has closed the connection
  handled,        \* history: the addresses passed to BeginQuery
  validated,      \* history: the master server has sent its list
  shortRead,      \* history: a Read returned less than what belongs together
  lost            \* history: part of what the master sends never arrives

networkVars == <<stream, closed, connClosed>>
histories == <<validated, shortRead, lost>>
sessionVars == <<session, pc, networkVars, handled, histories>>

SessionInit(first, greeting) ==
  /\ pc = first
  /\ stream = greeting
  /\ closed = FALSE
  /\ connClosed = FALSE
  /\ handled = <<>>
  /\ validated = FALSE
  /\ shortRead = FALSE
  /\ lost = FALSE

over == pc \in {"done", "panic"}

(* Where the master server still owes something for a request to come. *)
Owed == pc \in {"auth", "request", "challenge", "validation", "verification"}

(* The master server closes; of what is under way any part may be lost. *)
MasterCloses ==
  /\ ~closed
  /\ ~over
  /\ closed' = TRUE
  /\ \E n \in 0..Len(stream) :
       /\ stream' = SubSeq(stream, 1, n)
       /\ lost' = (lost \/ Owed \/ n < Len(stream))
  /\ UNCHANGED <<session, pc, connClosed, handled, validated, shortRead>>

(* One Read into a buffer of that size: the next n symbols. *)
Reads(n, size) ==
  /\ ~connClosed
  /\ n \in 1..size
  /\ n <= Len(stream)

Chunk(n) == SubSeq(stream, 1, n)
Remaining(n) == SubSeq(stream, n + 1, Len(stream))

(* A Read that does not return data: the other side or Shutdown has closed *)
(* the connection, or it broke.  Nothing can be read from it any more.     *)
ReadErr ==
  /\ closed' = TRUE
  /\ stream' = <<>>
  /\ lost' = TRUE
  /\ UNCHANGED <<session, connClosed, validated, shortRead>>

(* connection.Close() of a Shutdown. *)
CloseConnection ==
  /\ ~connClosed
  /\ connClosed' = TRUE
  /\ UNCHANGED <<session, pc, stream, closed, handled, histories>>

Handle(a) == handled' = Append(handled, a)
=============================================================================
