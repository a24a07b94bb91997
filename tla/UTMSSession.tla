----------------------------- MODULE UTMSSession ----------------------------
(***************************************************************************)
(* readMessage of UTMSServerListEngine.go: the session of a UT2K list      *)
(* engine with its master server.  Every message has its length before it, *)
(* a little-endian number; numbers of four or two bytes are two symbols.   *)
(* Compact strings are a length that counts the final zero, the            *)
(* characters, and the zero.                                               *)
(***************************************************************************)
EXTENDS MasterSession

(* Bound: the number of servers is one numeral. *)
ASSUME UTMSAssumption == (\E s \in Sessions : s.kind = "utms") => Len(Listing) <= 9

(* A little-endian pair. *)
LittleEndian(c, d) == Value(c) + 10 * Value(d)
Number(n) == <<Numerals[n + 1], Zero>>

(* What the master server sends. *)
Message(payload) == Number(Len(payload)) \o payload
CompactString(s) == <<Numerals[Len(s) + 2]>> \o s \o <<Zero>>
ChallengeText == <<"c">>
Approval == <<IF session.approves THEN "APPROVED" ELSE "DENIED">>
Entry(a) == <<a.host, "game port">> \o Reverse(a.port)
ServerList ==
  Message(Number(Len(Listing)) \o <<"compressed">>)
    \o FlattenSeq([i \in 1..Len(Listing) |-> Message(Entry(Listing[i]))])

VARIABLES
  reading,    \* "length" or "data": the part of the message waitForData is at
  length,     \* of the message that is being read
  incoming,   \* what was read of it
  numServers  \* how many are still to come

utmsVars == <<reading, length, incoming, numServers>>

UTMSInit ==
  /\ reading = "length"
  /\ length = 0
  /\ incoming = <<>>
  /\ numServers = 0

(* sendBuffer, and what the master server sends in return.  A write that   *)
(* fails is left to the next Read.                                         *)
Request(reply, rest) == stream' = IF closed \/ connClosed THEN rest ELSE rest \o reply

-----------------------------------------------------------------------------
(* The messages.  The slices of the code end the process when the buffer   *)
(* is too short for them.                                                  *)

Panic(rest) ==
  /\ pc' = "panic"
  /\ stream' = rest
  /\ UNCHANGED <<handled, validated, numServers>>

HasCompactString(b) == b # <<>> /\ Value(b[1]) \in 1..Len(b)
ReadCompactString(b) == SubSeq(b, 2, Value(b[1]))

(* readChallenge and writeClientInfo. *)
OnChallenge(b, rest) ==
  /\ HasCompactString(b)
  /\ pc' = "validation"
  /\ Request(Message(CompactString(Approval)), rest)
  /\ UNCHANGED <<handled, validated, numServers>>

SendListRequest(rest) ==
  /\ pc' = "list"
  /\ Request(ServerList, rest)
  /\ validated' = ~(closed \/ connClosed)
  /\ UNCHANGED <<handled, numServers>>

Refused(rest) ==
  /\ pc' = "done"
  /\ stream' = rest
  /\ UNCHANGED <<handled, validated, numServers>>

(* readValidation: an older client sends its request at once, a newer one  *)
(* has its verification data verified first.                               *)
OnValidation(b, rest) ==
  /\ HasCompactString(b)
  /\ IF ReadCompactString(b) # <<"APPROVED">>
       THEN Refused(rest)
       ELSE IF ~session.verifies
         THEN SendListRequest(rest)
         ELSE /\ pc' = "verification"
              /\ Request(Message(CompactString(<<"VERIFIED">>)), rest)
              /\ UNCHANGED <<handled, validated, numServers>>

OnVerification(b, rest) ==
  /\ HasCompactString(b)
  /\ IF ReadCompactString(b) = <<"VERIFIED">> THEN SendListRequest(rest) ELSE Refused(rest)

(* readListResponse *)
OnList(b, rest) ==
  /\ Len(b) >= 2
  /\ numServers' = LittleEndian(b[1], b[2])
  /\ pc' = IF numServers' = 0 THEN "done" ELSE "server"
  /\ stream' = rest
  /\ UNCHANGED <<handled, validated>>

OnServer(b, rest) ==
  /\ Len(b) >= 4
  /\ Handle([host |-> b[1], port |-> <<b[4], b[3]>>])
  /\ numServers' = numServers - 1
  /\ pc' = IF numServers' = 0 THEN "done" ELSE "server"
  /\ stream' = rest
  /\ UNCHANGED validated

Fits(b) ==
  CASE pc = "list"   -> Len(b) >= 2
    [] pc = "server" -> Len(b) >= 4
    [] OTHER         -> HasCompactString(b)

OnMessage(b, rest) ==
  \/ pc = "challenge" /\ OnChallenge(b, rest)
  \/ pc = "validation" /\ OnValidation(b, rest)
  \/ pc = "verification" /\ OnVerification(b, rest)
  \/ pc = "list" /\ OnList(b, rest)
  \/ pc = "server" /\ OnServer(b, rest)
  \/ ~Fits(b) /\ Panic(rest)

-----------------------------------------------------------------------------
(* waitForData *)

(* One Read; the rest of the length is zero if it was short. *)
ReadLength(n) ==
  /\ ~over
  /\ reading = "length"
  /\ Reads(n, 2)
  /\ length' = LittleEndian(stream[1], IF n = 2 THEN stream[2] ELSE Zero)
  /\ shortRead' = (shortRead \/ n = 1)
  /\ stream' = Remaining(n)
  /\ reading' = "data"
  /\ incoming' = <<>>
  /\ UNCHANGED <<session, pc, closed, connClosed, handled, validated, lost, numServers>>

(* Mutant: the message is handled before all of it was read. *)
ReadDataOnce(n) ==
  /\ reading = "data"
  /\ Reads(n, length)
  /\ incoming' = Chunk(n)
  /\ reading' = "length"
  /\ OnMessage(incoming', Remaining(n))
  /\ UNCHANGED <<session, closed, connClosed, shortRead, lost, length>>

(* One Read of the loop, which ends with the message.  An empty message    *)
(* takes nothing off the stream.                                           *)
ReadData(n) ==
  /\ reading = "data"
  /\ IF length = 0 THEN n = 0 /\ ~connClosed ELSE Reads(n, length - Len(incoming))
  /\ incoming' = incoming \o Chunk(n)
  /\ IF Len(incoming') >= length
       THEN reading' = "length" /\ OnMessage(incoming', Remaining(n))
       ELSE /\ stream' = Remaining(n)
            /\ UNCHANGED <<pc, handled, validated, reading, numServers>>
  /\ UNCHANGED <<session, closed, connClosed, shortRead, lost, length>>

(* A Read fails: gotFatalError.  After a failed challenge readValidation   *)
(* still waits for its message, and fails in turn.                         *)
WaitFails ==
  /\ ~over
  /\ pc' = IF pc = "challenge" THEN "validation" ELSE "done"
  /\ reading' = "length"
  /\ ReadErr
  /\ UNCHANGED <<handled, length, incoming, numServers>>

UTMSNext ==
  \/ \E n \in 0..Len(stream) : ReadLength(n) \/ ReadData(n)
  \/ WaitFails
  \/ CloseConnection /\ UNCHANGED utmsVars

(* A length read in part puts the reader out of step with the stream. *)
UTMSInStep == ~shortRead

UTMSGotAll == ~lost /\ ~shortRead /\ validated

UTMSTypeOK ==
  /\ pc \in {"challenge", "validation", "verification", "list", "server", "done", "panic"}
  /\ reading \in {"length", "data"}
  /\ length \in Nat
  /\ reading = "data" => Len(incoming) <= length
  /\ pc = "server" => numServers > 0
=============================================================================
