---------------------------- MODULE GOAListReader ---------------------------
(***************************************************************************)
(* think of GOA0ServerListEngine.go: the session of a GOA list engine with *)
(* its master server.                                                      *)
(*                                                                         *)
(* Each of the two words basic\ and secure\ is one symbol; the mark \ip\ is *)
(* four, so that it can be cut.  A record of the compressed list is three  *)
(* symbols for its six bytes: the host and the two bytes of the port.      *)
(***************************************************************************)
EXTENDS MasterSession

CONSTANTS
  Challenge,         \* what the master server takes of its challenge
  ChallengeRoom,     \* the bytes of the reply buffer behind secure\
  ReadSize           \* bound: the symbols one Read of the text returns

GOASessions == {s \in Sessions : s.kind = "goa"}

(* Only a list that comes as text has room for an IPv6 address. *)
ASSUME ReaderAssumption ==
  /\ \A s \in GOASessions :
       /\ s.NoCompressedList \in BOOLEAN
       /\ s.junk \in Seq(STRING)
       /\ ~s.NoCompressedList => s.IPv6Hosts = {}
       /\ \/ s.MaxChallengeLen = Len(Challenge)
          \/ s.MaxChallengeLen = 0 /\ s.junk = <<>>
          \/ s.MaxChallengeLen \in Nat /\ s.MaxChallengeLen > ChallengeRoom
       /\ Len(Challenge \o s.junk) <= ChallengeRoom
  /\ ChallengeRoom \in Nat
  /\ Challenge \in Seq(STRING) \ {<<>>}
  /\ ReadSize \in Nat \ {0}

Backslash == "\\"
IpMark == <<Backslash, "i", "p", Backslash>>

(* An address has no backslash in it, and what comes with the challenge    *)
(* neither an address nor a mark, not even one that the list would finish. *)
ASSUME SeparatorAssumption ==
  /\ Backslash \notin Hosts \cup Digits
  /\ \A s \in GOASessions :
       LET extra == Challenge \o s.junk \o <<Backslash>> IN
       /\ \A i \in 1..Len(extra) : extra[i] \notin Hosts
       /\ \A i \in 1..Len(extra) - 3 : SubSeq(extra, i, i + 3) # IpMark

FinalText == <<Backslash, "final", Backslash>>
FinalRecord == <<Backslash, "fi", "nal">>
RecordLen == 3

VARIABLES
  ipStringAccum,  \* the text received and not handled
  splitData,      \* what is left of the pieces of this pass
  serverListResponse  \* the buffer of the compressed list

textVars == <<ipStringAccum, splitData>>
readerVars == <<textVars, serverListResponse>>

NoCompressedList == session.NoCompressedList
MaxChallengeLen == session.MaxChallengeLen

(* The hosts whose address is an IPv6 one. *)
IPv6Hosts == session.IPv6Hosts

Greeting == <<"basic", "secure">> \o Challenge \o session.junk

(* The list as the master server sends it. *)
TextEntry(a) == IpMark \o <<a.host, ":">> \o a.port
Record(a) == <<a.host>> \o a.port
ListText ==
  IF NoCompressedList
    THEN FlattenSeq([i \in 1..Len(Listing) |-> TextEntry(Listing[i])]) \o FinalText
    ELSE FlattenSeq([i \in 1..Len(Listing) |-> Record(Listing[i])]) \o FinalRecord

ReaderInit ==
  /\ ipStringAccum = <<>>
  /\ splitData = <<>>
  /\ serverListResponse = [i \in 1..RecordLen |-> Zero]

(* A Read fails, which sends think from one place to another. *)
ReadFails(from, to) ==
  /\ pc = from
  /\ pc' = to
  /\ ReadErr
  /\ UNCHANGED <<handled, readerVars>>

(* What follows secure\ in the reply, or as much of it as the parameter    *)
(* says; behind a short reply come the zeros of its buffer, at the first   *)
(* of which gsseckey takes the challenge to end.                           *)
ChallengeIn(reply) ==
  LET rest == SubSeq(reply, 3, Len(reply)) IN
  IF MaxChallengeLen # 0 /\ MaxChallengeLen < Len(rest)
    THEN SubSeq(rest, 1, MaxChallengeLen)
    ELSE rest

(* The challenge is read and answered.  The master server sends its list   *)
(* if the answer validates; what is left of its greeting comes before.     *)
Authenticate(n) ==
  /\ pc = "auth"
  /\ Reads(n, Len(Greeting))
  /\ Contains(Chunk(n), "secure") => MaxChallengeLen <= ChallengeRoom
  /\ LET reply == Chunk(n)
         rest == Remaining(n)
         accepted == ~closed /\ ChallengeIn(reply) = Challenge
     IN IF Contains(reply, "secure")
          THEN /\ pc' = "list"
               /\ validated' = accepted
               /\ stream' = IF accepted THEN rest \o ListText ELSE rest
          ELSE /\ pc' = "done"
               /\ stream' = rest
               /\ UNCHANGED validated
  /\ shortRead' = (n < Len(Greeting))
  /\ UNCHANGED <<session, closed, connClosed, handled, lost, readerVars>>

(* A slice past the end of the reply buffer: panic. *)
ChallengePanics(n) ==
  /\ pc = "auth"
  /\ Reads(n, Len(Greeting))
  /\ Contains(Chunk(n), "secure")
  /\ MaxChallengeLen > ChallengeRoom
  /\ pc' = "panic"
  /\ UNCHANGED <<session, networkVars, handled, histories, readerVars>>

(* The greeting cannot be read, or the answer not be written. *)
AuthenticateFails == ReadFails("auth", "done")

-----------------------------------------------------------------------------
(* ReadUncompressedList *)

EndsWithMark(s) == Len(s) >= 4 /\ SubSeq(s, Len(s) - 3, Len(s)) = IpMark

(* strings.Split at \ip\. *)
Split(text) ==
  LET pieces[n \in 0..Len(text)] ==
        IF n = 0 THEN <<<<>>>>
        ELSE LET before == pieces[n - 1]
                 s == Append(Last(before), text[n])
             IN IF EndsWithMark(s)
                  THEN Append(Append(Front(before), SubSeq(s, 1, Len(s) - 4)), <<>>)
                  ELSE Append(Front(before), s)
  IN pieces[Len(text)]

(* What netip.ParseAddrPort takes. *)
IsAddrPort(s) ==
  /\ Len(s) >= 3
  /\ s[1] \in Hosts
  /\ s[2] = ":"
  /\ \A i \in 3..Len(s) : s[i] \in Digits

IsIPv6Entry(s) == IsAddrPort(s) /\ s[1] \in IPv6Hosts

(* BeginQuery, which panics instead at an IPv6 entry (EntryPanics). *)
handleIPString(s) ==
  /\ ~IsIPv6Entry(s)
  /\ handled' = IF IsAddrPort(s)
               THEN Append(handled, [host |-> s[1], port |-> SubSeq(s, 3, Len(s))])
               ELSE handled

UpToBackslash(s) ==
  LET i == SelectInSeq(s, LAMBDA c : c = Backslash) IN
  IF i = 0 THEN s ELSE SubSeq(s, 1, i - 1)

(* What the code handles behind its loop: the piece that was kept. *)
TailPiece == UpToBackslash(SubSeq(ipStringAccum, 5, Len(ipStringAccum)))

ReadText(n) ==
  /\ NoCompressedList
  /\ pc = "list"
  /\ Reads(n, ReadSize)
  /\ stream' = Remaining(n)
  /\ splitData' = Split(ipStringAccum \o Chunk(n))
  /\ pc' = "split"
  /\ UNCHANGED <<session, closed, connClosed, ipStringAccum, serverListResponse, handled,
                 histories>>

(* Mutant: the last piece is handled like the others. *)
HandlePieceAll ==
  /\ pc = "split"
  /\ Len(splitData) > 0
  /\ handleIPString(Head(splitData))
  /\ splitData' = Tail(splitData)
  /\ UNCHANGED <<session, pc, networkVars, ipStringAccum, serverListResponse, histories>>

(* A piece in front of the last one. *)
HandlePiece ==
  /\ pc = "split"
  /\ Len(splitData) > 1
  /\ handleIPString(Head(splitData))
  /\ splitData' = Tail(splitData)
  /\ UNCHANGED <<session, pc, networkVars, ipStringAccum, serverListResponse, histories>>

(* Mutant: what the pass leaves is dropped. *)
DropPiece ==
  /\ pc = "split"
  /\ Len(splitData) = 1
  /\ ipStringAccum' = <<>>
  /\ splitData' = <<>>
  /\ pc' = "list"
  /\ UNCHANGED <<session, networkVars, serverListResponse, handled, histories>>

(* As4 does not take the address of an IPv6 entry: panic. *)
EntryPanics ==
  /\ \/ pc = "split" /\ Len(splitData) > 1 /\ IsIPv6Entry(Head(splitData))
     \/ pc = "tail" /\ Len(ipStringAccum) >= 4 /\ IsIPv6Entry(TailPiece)
  /\ pc' = "panic"
  /\ UNCHANGED <<session, networkVars, handled, histories, readerVars>>

(* The last piece may go on in the next Read and is kept, with its mark. *)
KeepPiece ==
  /\ pc = "split"
  /\ Len(splitData) = 1
  /\ ipStringAccum' = IpMark \o splitData[1]
  /\ splitData' = <<>>
  /\ pc' = "list"
  /\ UNCHANGED <<session, networkVars, serverListResponse, handled, histories>>

(* Nothing is left and nothing will come. *)
TextEnds ==
  /\ NoCompressedList
  /\ pc = "list"
  /\ closed /\ stream = <<>>
  /\ pc' = "tail"
  /\ UNCHANGED <<session, networkVars, handled, histories, readerVars>>

(* Mutant: the error does not end the loop. *)
TextReadFailsOnce ==
  /\ NoCompressedList
  /\ ReadFails("list", "list")

TextReadFails ==
  /\ NoCompressedList
  /\ ReadFails("list", "tail")

HandleTail ==
  /\ pc = "tail"
  /\ pc' = "done"
  /\ IF Len(ipStringAccum) >= 4
       THEN handleIPString(TailPiece)
       ELSE UNCHANGED handled
  /\ UNCHANGED <<session, networkVars, histories, readerVars>>

-----------------------------------------------------------------------------
(* ReadCompressedResponse *)

(* The buffer keeps what a short Read does not overwrite. *)
Filled(chunk) ==
  chunk \o SubSeq(serverListResponse, Len(chunk) + 1, RecordLen)

AddrOf(record) == [host |-> record[1], port |-> <<record[2], record[3]>>]

(* Any Read that returns something is taken for a record. *)
ReadRecord(n) ==
  /\ ~NoCompressedList
  /\ pc = "list"
  /\ Reads(n, RecordLen)
  /\ stream' = Remaining(n)
  /\ serverListResponse' = Filled(Chunk(n))
  /\ shortRead' = (shortRead \/ n < RecordLen)
  /\ IF serverListResponse' = FinalRecord
       THEN pc' = "done" /\ UNCHANGED handled
       ELSE pc' = "list" /\ handled' = Append(handled, AddrOf(serverListResponse'))
  /\ UNCHANGED <<session, closed, connClosed, textVars, validated, lost>>

RecordsEnd ==
  /\ ~NoCompressedList
  /\ pc = "list"
  /\ closed /\ stream = <<>>
  /\ pc' = "done"
  /\ UNCHANGED <<session, networkVars, handled, histories, readerVars>>

RecordReadFails ==
  /\ ~NoCompressedList
  /\ ReadFails("list", "done")

-----------------------------------------------------------------------------

Handles == HandlePiece \/ EntryPanics \/ KeepPiece \/ HandleTail

Fails == AuthenticateFails \/ TextReadFails \/ RecordReadFails

ReaderNext ==
  \/ \E n \in 1..(Len(Greeting) + Len(ListText)) :
       Authenticate(n) \/ ChallengePanics(n) \/ ReadText(n) \/ ReadRecord(n)
  \/ Handles
  \/ TextEnds
  \/ RecordsEnd
  \/ Fails
  \/ CloseConnection /\ UNCHANGED readerVars

(* The text may be cut anywhere, the compressed list must come record by   *)
(* record.                                                                 *)
ReaderInStep == NoCompressedList \/ ~shortRead

(* The text in any pieces, once the challenge was read as a whole, and     *)
(* nothing in the session that the reader panics at.                       *)
ReaderGotAll ==
  /\ ~lost
  /\ ~shortRead \/ (NoCompressedList /\ validated)
  /\ MaxChallengeLen <= ChallengeRoom
  /\ \A i \in 1..Len(Listing) : Listing[i].host \notin IPv6Hosts

(* What GOA panics at: a MaxChallengeLen of more than the reply buffer     *)
(* holds, and an IPv6 server in the text, all before it being handled.     *)
ReaderMayPanic ==
  \/ MaxChallengeLen > ChallengeRoom
  \/ /\ NoCompressedList
     /\ Len(handled) < Len(Listing)
     /\ Listing[Len(handled) + 1].host \in IPv6Hosts

(* While a pass is on, its last piece is still to be kept. *)
ReaderTypeOK ==
  /\ pc \in {"auth", "list", "split", "tail", "done", "panic"}
  /\ pc # "panic" => (pc = "split") = (splitData # <<>>)
  /\ Len(serverListResponse) = RecordLen
=============================================================================
