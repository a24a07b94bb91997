------------------------- MODULE ListSessionsProofs -------------------------
(***************************************************************************)
(* What holds of a session of any kind, for every list: the types of its   *)
(* variables; that it delivers the list of its master server in its order, *)
(* and the whole of it if nothing is lost; what it takes to end the        *)
(* process.  Between the types and these, what that takes for SBV2: what   *)
(* is sent and what is waited for are read off each other field by field   *)
(* (Parses, Place), every field that arrives takes the reader to the next  *)
(* place (PlaceAdvances), and what Shutdown does to the cipher state       *)
(* spoils no more than the last server (ListOrder).                        *)
(***************************************************************************)
EXTENDS TextDeliveryProofs

-----------------------------------------------------------------------------
(* The types of a session.                                                 *)

HistoryTypes == {closed, connClosed, validated, shortRead, lost} \subseteq BOOLEAN

LEMMA HistoryTypesStep ==
  ASSUME HistoryTypes, ListSessionsNext \/ UNCHANGED vars
  PROVE  HistoryTypes'
<1>0. /\ closed \in BOOLEAN /\ connClosed \in BOOLEAN /\ validated \in BOOLEAN
      /\ shortRead \in BOOLEAN /\ lost \in BOOLEAN
  BY DEF HistoryTypes
<1>1. CASE MasterCloses
  BY <1>0, <1>1 DEF MasterCloses, HistoryTypes
<1>2. CASE ReaderNext
  <2>1. ASSUME NEW n, Authenticate(n) PROVE HistoryTypes'
    <3>1. validated' \in BOOLEAN
      BY <1>0, <2>1 DEF Authenticate
    <3>2. shortRead' \in BOOLEAN
      BY <2>1 DEF Authenticate
    <3>3. UNCHANGED <<closed, connClosed, lost>>
      BY <2>1 DEF Authenticate
    <3> QED
      BY <1>0, <3>1, <3>2, <3>3 DEF HistoryTypes
  <2>2. ASSUME NEW n, ReadText(n) PROVE HistoryTypes'
    BY <1>0, <2>2 DEF ReadText, histories, HistoryTypes
  <2>3. ASSUME NEW n, ReadRecord(n) PROVE HistoryTypes'
    BY <1>0, <2>3 DEF ReadRecord, HistoryTypes
  <2>4. CASE Handles
    BY <1>0, <2>4 DEF Handles, HandlePiece, EntryPanics, KeepPiece, HandleTail, networkVars,
                      histories, HistoryTypes
  <2>5. CASE TextEnds \/ RecordsEnd
    BY <1>0, <2>5 DEF TextEnds, RecordsEnd, networkVars, histories, HistoryTypes
  <2>6. CASE Fails
    BY <1>0, <2>6 DEF Fails, AuthenticateFails, TextReadFails, RecordReadFails, ReadFails, ReadErr,
                      HistoryTypes
  <2>7. CASE CloseConnection
    BY <1>0, <2>7 DEF CloseConnection, histories, HistoryTypes
  <2>8. ASSUME NEW n, ChallengePanics(n) PROVE HistoryTypes'
    BY <1>0, <2>8 DEF ChallengePanics, networkVars, histories, HistoryTypes
  <2> QED
    BY <1>2, <2>1, <2>2, <2>3, <2>4, <2>5, <2>6, <2>7, <2>8 DEF ReaderNext
<1>3. CASE SBV2Next
  <2>1. CASE WriteListRequest
    BY <1>0, <2>1 DEF WriteListRequest, HistoryTypes
  <2>2. CASE SBV2Fails
    BY <1>0, <2>2 DEF SBV2Fails, RequestFails, ReadFieldFails, ReadErr, HistoryTypes
  <2>3. CASE SBV2Works \/ \E n \in 1..Len(stream) : ReadField(n)
    BY <1>0, <2>3 DEF SBV2Works, CheckReady, Decrypt, Returns, ReadField, sessionVars, networkVars,
                      histories, HistoryTypes
  <2>4. CASE \E c \in Callers :
               ShutdownCloses(c) \/ ShutdownTests(c) \/ ShutdownClears(c) \/ ShutdownFrees(c)
    BY <1>0, <2>4 DEF ShutdownCloses, ShutdownTests, ShutdownClears, ShutdownFrees, notShutdown,
                      histories, HistoryTypes
  <2> QED
    BY <1>3, <2>1, <2>2, <2>3, <2>4 DEF SBV2Next
<1>4. CASE UTMSNext
  <2>1. ASSUME NEW n, ReadLength(n) PROVE HistoryTypes'
    BY <1>0, <2>1 DEF ReadLength, HistoryTypes
  <2>2. ASSUME NEW n, ReadData(n) PROVE HistoryTypes'
    <3>1. validated' \in BOOLEAN
      BY <1>0, <2>2 DEF ReadData, OnMessage, OnChallenge, OnValidation, OnVerification, OnList,
                        OnServer, Panic, SendListRequest, Refused
    <3> QED
      BY <1>0, <2>2, <3>1 DEF ReadData, HistoryTypes
  <2>3. CASE WaitFails
    BY <1>0, <2>3 DEF WaitFails, ReadErr, HistoryTypes
  <2>4. CASE CloseConnection
    BY <1>0, <2>4 DEF CloseConnection, histories, HistoryTypes
  <2> QED
    BY <1>4, <2>1, <2>2, <2>3, <2>4 DEF UTMSNext
<1>5. CASE UNCHANGED vars
  BY <1>0, <1>5 DEF vars, sessionVars, networkVars, histories, HistoryTypes
<1> QED
  BY <1>1, <1>2, <1>3, <1>4, <1>5 DEF ListSessionsNext, Ended

(* UTMS *)
UTMSTypes ==
  session.kind = "utms" =>
    /\ UTMSTypeOK
    /\ IsSequence(stream) /\ IsSequence(incoming)
    /\ numServers \in Nat

LEMMA RepliesAreSequences ==
  /\ IsSequence(Message(CompactString(Approval)))
  /\ IsSequence(Message(CompactString(<<"VERIFIED">>)))
  /\ IsSequence(Message(CompactString(ChallengeText)))
<1>1. ASSUME NEW c PROVE IsSequence(Message(CompactString(<<c>>)))
  <2>1. IsSequence(CompactString(<<c>>)) /\ Len(CompactString(<<c>>)) = 3
    BY CompactFacts
  <2> QED
    BY <2>1, MessageSequence
<1> QED
  BY <1>1 DEF Approval, ChallengeText

LEMMA ServerListSequence ==
  IsSequence(ServerList)
<1>1. /\ IsSequence(Number(Len(Listing)) \o <<"compressed">>)
      /\ Len(Number(Len(Listing)) \o <<"compressed">>) = 3
  BY ListPayload
<1>2. IsSequence(Message(Number(Len(Listing)) \o <<"compressed">>))
  <2>1. PICK p : p = Number(Len(Listing)) \o <<"compressed">>
    OBVIOUS
  <2>2. IsSequence(p) /\ Len(p) \in 0..9
    BY <1>1, <2>1
  <2>3. IsSequence(Message(p))
    BY <2>2, MessageSequence
  <2> QED
    BY <2>1, <2>3
<1>3. IsSequence(EntriesFrom(0))
  BY EntriesOver
<1> QED
  BY <1>2, <1>3, ConcatSequences, ServerListDue

LEMMA RequestSequence ==
  ASSUME NEW q, NEW r, IsSequence(q), IsSequence(r), Request(q, r)
  PROVE  IsSequence(stream')
<1>1. IsSequence(r \o q)
  BY ConcatSequences
<1> QED
  BY <1>1 DEF Request

LEMMA LittleEndianType ==
  ASSUME NEW c, NEW d
  PROVE  LittleEndian(c, d) \in Nat
BY ValueType DEF LittleEndian

LEMMA MessageTypes ==
  ASSUME UTMSTypes, session.kind = "utms", NEW b, NEW r, IsSequence(r), OnMessage(b, r)
  PROVE  /\ IsSequence(stream')
         /\ pc' \in {"challenge", "validation", "verification", "list", "server", "done", "panic"}
         /\ numServers' \in Nat
         /\ pc' = "server" => numServers' > 0
<1>0. numServers \in Nat /\ (pc = "server" => numServers > 0)
  BY DEF UTMSTypes, UTMSTypeOK
<1>1. CASE OnChallenge(b, r)
  <2>1. Request(Message(CompactString(Approval)), r)
    BY <1>1 DEF OnChallenge
  <2>2. IsSequence(stream')
    BY <2>1, RepliesAreSequences, RequestSequence
  <2> QED
    BY <1>0, <1>1, <2>2 DEF OnChallenge
<1>2. CASE SendListRequest(r)
  <2>1. Request(ServerList, r)
    BY <1>2 DEF SendListRequest
  <2>2. IsSequence(stream')
    BY <2>1, ServerListSequence, RequestSequence
  <2> QED
    BY <1>0, <1>2, <2>2 DEF SendListRequest
<1>3. CASE Refused(r) \/ Panic(r)
  BY <1>0, <1>3 DEF Refused, Panic
<1>4. CASE /\ pc' = "verification"
           /\ Request(Message(CompactString(<<"VERIFIED">>)), r)
           /\ UNCHANGED <<handled, validated, numServers>>
  <2>1. Request(Message(CompactString(<<"VERIFIED">>)), r)
    BY <1>4
  <2>2. IsSequence(stream')
    BY <2>1, RepliesAreSequences, RequestSequence
  <2> QED
    BY <1>0, <1>4, <2>2
<1>5. CASE OnList(b, r)
  <2>1. numServers' \in Nat
    BY <1>5, LittleEndianType DEF OnList
  <2> QED
    BY <1>5, <2>1 DEF OnList
<1>6. CASE pc = "server" /\ OnServer(b, r)
  <2>1. numServers' = numServers - 1
    BY <1>6 DEF OnServer
  <2>2. numServers' \in Nat
    BY <1>0, <1>6, <2>1
  <2>3. stream' = r
    BY <1>6 DEF OnServer
  <2>4. pc' = IF numServers' = 0 THEN "done" ELSE "server"
    BY <1>6 DEF OnServer
  <2>5. pc' \in {"done", "server"} /\ (pc' = "server" => numServers' # 0)
    BY <2>4
  <2>6. pc' = "server" => numServers' > 0
    BY <2>2, <2>5
  <2> QED
    BY <2>2, <2>3, <2>5, <2>6
<1> QED
  BY <1>1, <1>2, <1>3, <1>4, <1>5, <1>6 DEF OnMessage, OnValidation, OnVerification

LEMMA UTMSTypesStep ==
  ASSUME UTMSTypes, session.kind = "utms",
         (MasterCloses /\ UNCHANGED utmsVars) \/ UTMSNext \/ UNCHANGED vars
  PROVE  UTMSTypes'
<1>0. /\ UTMSTypeOK /\ IsSequence(stream) /\ IsSequence(incoming) /\ numServers \in Nat
      /\ Len(stream) \in Nat /\ Len(incoming) \in Nat
  BY LenProperties DEF UTMSTypes, IsSequence
<1>1. ASSUME NEW n \in Nat, n <= Len(stream)
      PROVE  IsSequence(Remaining(n)) /\ IsSequence(Chunk(n)) /\ Len(Chunk(n)) = n
  <2>1. n \in 0..Len(stream)
    BY <1>0, <1>1
  <2>2. IsSequence(SubSeq(stream, n + 1, Len(stream)))
    BY <1>0, <2>1, RemainingSequence
  <2>3. IsSequence(SubSeq(stream, 1, n)) /\ Len(SubSeq(stream, 1, n)) = n
    BY ChunkSequence
  <2> QED
    BY <2>2, <2>3 DEF Remaining, Chunk
<1>2. CASE MasterCloses /\ UNCHANGED utmsVars
  <2>1. PICK n \in 0..Len(stream) : stream' = SubSeq(stream, 1, n)
    BY <1>2 DEF MasterCloses
  <2>2. IsSequence(stream')
    BY <2>1, ChunkSequence
  <2>3. UNCHANGED <<session, pc, reading, length, incoming, numServers>>
    BY <1>2 DEF MasterCloses, utmsVars
  <2> QED
    BY <1>0, <2>2, <2>3 DEF UTMSTypes, UTMSTypeOK
<1>3. CASE \E n \in 0..Len(stream) : ReadLength(n)
  <2>1. PICK n \in 0..Len(stream) : ReadLength(n)
    BY <1>3
  <2>2. IsSequence(stream')
    BY <1>1, <2>1 DEF ReadLength
  <2>3. length' \in Nat
    BY <2>1, LittleEndianType DEF ReadLength
  <2>4. incoming' = <<>> /\ reading' = "data" /\ UNCHANGED <<session, pc, numServers>>
    BY <2>1 DEF ReadLength
  <2>5. IsSequence(incoming') /\ Len(incoming') = 0
    BY <2>4, EmptySequence
  <2> QED
    BY <1>0, <2>2, <2>3, <2>4, <2>5 DEF UTMSTypes, UTMSTypeOK
<1>4. CASE \E n \in 0..Len(stream) : ReadData(n)
  <2>1. PICK n \in 0..Len(stream) : ReadData(n)
    BY <1>4
  <2>2. n \in Nat /\ IsSequence(Remaining(n)) /\ IsSequence(Chunk(n)) /\ Len(Chunk(n)) = n
    BY <1>1
  <2>3. IsSequence(incoming \o Chunk(n)) /\ Len(incoming \o Chunk(n)) = Len(incoming) + n
    BY <1>0, <2>2, ConcatSequences
  <2>4. incoming' = incoming \o Chunk(n) /\ UNCHANGED <<session, length>>
    BY <2>1 DEF ReadData
  <2>5. IsSequence(incoming') /\ Len(incoming') \in Nat
    BY <1>0, <2>3, <2>4
  <2>6. CASE Len(incoming') >= length
    <3>1. reading' = "length" /\ OnMessage(incoming', Remaining(n))
      BY <2>1, <2>6 DEF ReadData
    <3>2. PICK b : b = incoming'
      OBVIOUS
    <3>3. OnMessage(b, Remaining(n))
      BY <3>1, <3>2
    <3>4. /\ IsSequence(stream')
          /\ pc' \in {"challenge", "validation", "verification", "list", "server", "done", "panic"}
          /\ numServers' \in Nat
          /\ pc' = "server" => numServers' > 0
      BY <2>2, <3>3, MessageTypes
    <3> QED
      BY <1>0, <2>4, <2>5, <3>1, <3>4 DEF UTMSTypes, UTMSTypeOK
  <2>7. CASE ~(Len(incoming') >= length)
    <3>1. stream' = Remaining(n) /\ UNCHANGED <<pc, reading, numServers>>
      BY <2>1, <2>7 DEF ReadData
    <3>2. Len(incoming') <= length'
      BY <1>0, <2>4, <2>5, <2>7 DEF UTMSTypeOK
    <3> QED
      BY <1>0, <2>2, <2>4, <2>5, <3>1, <3>2 DEF UTMSTypes, UTMSTypeOK
  <2> QED
    BY <2>6, <2>7
<1>5. CASE WaitFails
  <2>1. /\ stream' = <<>> /\ reading' = "length" /\ pc' \in {"validation", "done"}
        /\ UNCHANGED <<session, length, incoming, numServers>>
    BY <1>5 DEF WaitFails, ReadErr
  <2> QED
    BY <1>0, <2>1, EmptySequence DEF UTMSTypes, UTMSTypeOK
<1>6. CASE UNCHANGED <<session, pc, stream, reading, length, incoming, numServers>>
  BY <1>0, <1>6 DEF UTMSTypes, UTMSTypeOK
<1>7. CASE CloseConnection /\ UNCHANGED utmsVars
  BY <1>6, <1>7 DEF CloseConnection, utmsVars
<1>8. CASE UNCHANGED vars
  BY <1>6, <1>8 DEF vars, sessionVars, networkVars, utmsVars
<1> QED
  BY <1>2, <1>3, <1>4, <1>5, <1>7, <1>8 DEF UTMSNext

(* GOA *)
PiecesAre(ps) == IsSequence(ps) /\ \A i \in 1..Len(ps) : IsSequence(ps[i])

LEMMA OnePiece ==
  PiecesAre(<<<<>>>>) /\ Len(<<<<>>>>) = 1
<1>1. PICK e : e = <<>>
  OBVIOUS
<1>2. <<e>> \in Seq({e}) /\ Len(<<e>>) = 1 /\ <<e>>[1] = e
  OBVIOUS
<1>3. IsSequence(<<e>>)
  BY <1>2, SequenceOf
<1>4. \A i \in 1..1 : <<e>>[i] = e
  BY <1>2
<1>5. IsSequence(e)
  BY <1>1, EmptySequence
<1> QED
  BY <1>1, <1>2, <1>3, <1>4, <1>5 DEF PiecesAre

LEMMA AppendPiece ==
  ASSUME NEW ps, PiecesAre(ps), NEW s, IsSequence(s)
  PROVE  PiecesAre(Append(ps, s)) /\ Len(Append(ps, s)) = Len(ps) + 1
<1>1. IsSequence(ps)
  BY DEF PiecesAre
<1>2. IsSequence(Append(ps, s)) /\ Len(Append(ps, s)) = Len(ps) + 1
  BY <1>1, AppendSequence
<1>3. /\ Len(ps) \in Nat
      /\ \A i \in 1..Len(ps) + 1 : Append(ps, s)[i] = IF i <= Len(ps) THEN ps[i] ELSE s
  BY <1>1, AppendElements
<1>4. ASSUME NEW i \in 1..Len(ps) + 1
      PROVE  IsSequence(Append(ps, s)[i])
  <2>1. i <= Len(ps) => i \in 1..Len(ps)
    BY <1>3
  <2> QED
    BY <1>3, <2>1 DEF PiecesAre
<1> QED
  BY <1>2, <1>4 DEF PiecesAre

LEMMA NextPiecesType ==
  ASSUME NEW ps, PiecesAre(ps), Len(ps) > 0, NEW c
  PROVE  PiecesAre(NextPieces(ps, c)) /\ Len(NextPieces(ps, c)) > 0
<1>1. PICK j, f, s : j = Len(ps) - 1 /\ f = Front(ps) /\ s = Append(Last(ps), c)
  OBVIOUS
<1>2. j \in Nat /\ Len(ps) = j + 1 /\ IsSequence(ps)
  BY <1>1, LenProperties DEF PiecesAre, IsSequence
<1>3. IsSequence(f) /\ Len(f) = j /\ \A i \in 1..j : f[i] = ps[i]
  BY <1>1, <1>2, FrontFacts
<1>4. PiecesAre(f)
  <2>1. \A i \in 1..j : i \in 1..Len(ps)
    BY <1>2
  <2> QED
    BY <1>3, <2>1 DEF PiecesAre
<1>5. IsSequence(s)
  <2>1. Last(ps) = ps[Len(ps)] /\ Len(ps) \in 1..Len(ps)
    BY <1>2 DEF Last
  <2>2. IsSequence(Last(ps))
    BY <2>1 DEF PiecesAre
  <2> QED
    BY <1>1, <2>2, AppendSequence
<1>6. PiecesAre(Append(f, s)) /\ Len(Append(f, s)) > 0
  BY <1>2, <1>3, <1>4, <1>5, AppendPiece
<1>7. CASE EndsWithMark(s)
  <2>1. PICK t, h : t = SubSeq(s, 1, Len(s) - 4) /\ h = Append(f, t)
    OBVIOUS
  <2>2. Len(s) - 4 \in Nat
    BY <1>5, <1>7, LenProperties DEF EndsWithMark, IsSequence
  <2>3. IsSequence(t)
    BY <2>1, <2>2, ChunkSequence
  <2>4. PiecesAre(h) /\ Len(h) = j + 1
    BY <1>3, <1>4, <2>1, <2>3, AppendPiece
  <2>5. PiecesAre(Append(h, <<>>)) /\ Len(Append(h, <<>>)) = (j + 1) + 1
    BY <2>4, EmptySequence, AppendPiece
  <2>6. Len(Append(h, <<>>)) > 0
    BY <1>2, <2>5
  <2>7. NextPieces(ps, c) = Append(h, <<>>)
    BY <1>1, <1>7, <2>1 DEF NextPieces
  <2> QED
    BY <2>5, <2>6, <2>7
<1>8. CASE ~EndsWithMark(s)
  <2>1. NextPieces(ps, c) = Append(f, s)
    BY <1>1, <1>8 DEF NextPieces
  <2> QED
    BY <1>6, <2>1
<1> QED
  BY <1>7, <1>8

LEMMA SplitType ==
  ASSUME NEW text, IsSequence(text)
  PROVE  PiecesAre(Split(text)) /\ Len(Split(text)) > 0
<1>1. PICK l \in Nat : l = Len(text)
  BY LenProperties DEF IsSequence
<1>2. PICK g : /\ g[0] = <<<<>>>>
               /\ \A n \in 0..Len(text) - 1 : g[n + 1] = NextPieces(g[n], text[n + 1])
               /\ Split(text) = g[Len(text)]
  BY SplitSteps
<1> DEFINE Typed(ps) == PiecesAre(ps) /\ Len(ps) > 0
           T == {m \in 1..l + 1 : Typed(g[m - 1])}
<1>3. 1 \in T
  <2>1. Typed(<<<<>>>>)
    BY OnePiece
  <2>2. 1 - 1 = 0 /\ 1 \in 1..l + 1
    OBVIOUS
  <2> HIDE DEF Typed
  <2> QED
    BY <1>2, <2>1, <2>2
<1>4. ASSUME NEW m \in 1..(l + 1) - 1, m \in T
      PROVE  m + 1 \in T
  <2>1. Typed(g[m - 1])
    BY <1>4
  <2>2. m - 1 \in 0..Len(text) - 1 /\ (m - 1) + 1 = m /\ (m + 1) - 1 = m /\ m + 1 \in 1..l + 1
    BY <1>1
  <2>3. g[m] = NextPieces(g[m - 1], text[m])
    BY <1>2, <2>2
  <2>4. Typed(g[m])
    BY <2>1, <2>3, NextPiecesType
  <2> HIDE DEF Typed
  <2> QED
    BY <2>2, <2>4
<1>5. l + 1 \in T
  <2> HIDE DEF T
  <2>1. l + 1 \in Nat /\ l + 1 \in 1..l + 1
    BY <1>1
  <2>2. \A m \in 1..l + 1 : m \in T
    BY <1>3, <1>4, <2>1, InductionTo
  <2> QED
    BY <2>1, <2>2
<1>6. Typed(g[l])
  <2>1. (l + 1) - 1 = l
    BY <1>1
  <2> HIDE DEF Typed
  <2> QED
    BY <1>5, <2>1
<1> QED
  BY <1>1, <1>2, <1>6

ReaderTypes ==
  session.kind = "goa" =>
    /\ ReaderTypeOK
    /\ IsSequence(stream) /\ IsSequence(ipStringAccum) /\ IsSequence(serverListResponse)
    /\ PiecesAre(splitData)

LEMMA ListTextSequence ==
  IsSequence(ListText)
<1>1. Len(Listing) \in Nat
  BY ListingFacts
<1>2. 0 \in 0..Len(Listing)
  BY <1>1
<1>3. /\ IsSequence(TextDue(0))
      /\ TextDue(0) = FlattenSeq([i \in 1..Len(Listing) |-> TextEntry(Listing[i])]) \o FinalText
  BY <1>2, TextDueFacts
<1>4. /\ IsSequence(RecordsDue(0))
      /\ RecordsDue(0) = FlattenSeq([i \in 1..Len(Listing) |-> Record(Listing[i])]) \o FinalRecord
  BY <1>2, RecordsDueFacts
<1> QED
  BY <1>3, <1>4 DEF ListText

LEMMA ReaderTypesStep ==
  ASSUME ReaderTypes, session.kind = "goa",
         (MasterCloses /\ UNCHANGED readerVars) \/ ReaderNext \/ UNCHANGED vars
  PROVE  ReaderTypes'
<1>0. /\ pc \in {"auth", "list", "split", "tail", "done", "panic"}
      /\ pc # "panic" => (pc = "split") = (splitData # <<>>)
      /\ Len(serverListResponse) = RecordLen
      /\ IsSequence(stream) /\ IsSequence(ipStringAccum) /\ IsSequence(serverListResponse)
      /\ PiecesAre(splitData)
      /\ Len(stream) \in Nat
  BY LenProperties DEF ReaderTypes, ReaderTypeOK, IsSequence
<1>1. ASSUME NEW n \in Nat, n <= Len(stream)
      PROVE  IsSequence(Remaining(n)) /\ IsSequence(Chunk(n)) /\ Len(Chunk(n)) = n
  <2>1. n \in 0..Len(stream)
    BY <1>0, <1>1
  <2>2. IsSequence(SubSeq(stream, n + 1, Len(stream)))
    BY <1>0, <2>1, RemainingSequence
  <2>3. IsSequence(SubSeq(stream, 1, n)) /\ Len(SubSeq(stream, 1, n)) = n
    BY ChunkSequence
  <2> QED
    BY <2>2, <2>3 DEF Remaining, Chunk
<1>2. IsSequence(<<>>) /\ PiecesAre(<<>>)
  BY EmptySequence DEF PiecesAre
<1>3. CASE MasterCloses /\ UNCHANGED readerVars
  <2>1. PICK n \in 0..Len(stream) : stream' = SubSeq(stream, 1, n)
    BY <1>3 DEF MasterCloses
  <2>2. IsSequence(stream')
    BY <2>1, ChunkSequence
  <2>3. UNCHANGED <<session, pc, ipStringAccum, splitData, serverListResponse>>
    BY <1>3 DEF MasterCloses, readerVars, textVars
  <2> QED
    BY <1>0, <2>2, <2>3 DEF ReaderTypes, ReaderTypeOK
<1>4. ASSUME NEW n, Authenticate(n)
      PROVE  ReaderTypes'
  <2>1. n \in Nat /\ n <= Len(stream)
    BY <1>4 DEF Authenticate, Reads
  <2>2. IsSequence(Remaining(n))
    BY <1>1, <2>1
  <2>3. IsSequence(Remaining(n) \o ListText)
    BY <2>2, ListTextSequence, ConcatSequences
  <2>4. stream' = Remaining(n) \/ stream' = Remaining(n) \o ListText
    BY <1>4 DEF Authenticate
  <2>5. IsSequence(stream')
    BY <2>2, <2>3, <2>4
  <2>6. /\ pc = "auth" /\ pc' \in {"list", "done"}
        /\ UNCHANGED <<session, ipStringAccum, splitData, serverListResponse>>
    BY <1>4 DEF Authenticate, readerVars, textVars
  <2> QED
    BY <1>0, <2>5, <2>6 DEF ReaderTypes, ReaderTypeOK
<1>5. ASSUME NEW n, ReadText(n)
      PROVE  ReaderTypes'
  <2>1. n \in Nat /\ n <= Len(stream)
    BY <1>5 DEF ReadText, Reads
  <2>2. IsSequence(Remaining(n)) /\ IsSequence(Chunk(n))
    BY <1>1, <2>1
  <2>3. IsSequence(ipStringAccum \o Chunk(n))
    BY <1>0, <2>2, ConcatSequences
  <2>4. PiecesAre(Split(ipStringAccum \o Chunk(n))) /\ Len(Split(ipStringAccum \o Chunk(n))) > 0
    BY <2>3, SplitType
  <2>5. /\ splitData' = Split(ipStringAccum \o Chunk(n)) /\ stream' = Remaining(n)
        /\ pc' = "split" /\ UNCHANGED <<session, ipStringAccum, serverListResponse>>
    BY <1>5 DEF ReadText
  <2>6. splitData' # <<>>
    BY <2>4, <2>5, EmptySequence
  <2> QED
    BY <1>0, <2>2, <2>4, <2>5, <2>6 DEF ReaderTypes, ReaderTypeOK
<1>6. ASSUME NEW n, ReadRecord(n)
      PROVE  ReaderTypes'
  <2>1. n \in Nat /\ n <= Len(stream) /\ n <= RecordLen
    BY <1>6 DEF ReadRecord, Reads, RecordLen
  <2>2. IsSequence(Remaining(n)) /\ IsSequence(Chunk(n)) /\ Len(Chunk(n)) = n
    BY <1>1, <2>1
  <2>3. PICK c, b, t : c = Chunk(n) /\ b = serverListResponse /\ t = SubSeq(b, n + 1, Len(b))
    OBVIOUS
  <2>4. n \in 0..Len(b)
    <3>1. Len(b) = 3 /\ n <= 3
      BY <1>0, <2>1, <2>3 DEF RecordLen
    <3> QED
      BY <2>1, <3>1
  <2>5. IsSequence(t) /\ Len(t) = Len(b) - n
    BY <1>0, <2>3, <2>4, RemainingSequence
  <2>6. Filled(c) = c \o t
    BY <1>0, <2>2, <2>3 DEF Filled
  <2>7. IsSequence(c) /\ Len(c) = n
    BY <2>2, <2>3
  <2>8. IsSequence(c \o t) /\ Len(c \o t) = Len(c) + Len(t)
    BY <2>5, <2>7, ConcatSequences
  <2>9. Len(c \o t) = RecordLen
    BY <1>0, <2>1, <2>3, <2>5, <2>7, <2>8 DEF RecordLen
  <2>10. serverListResponse' = c \o t /\ stream' = Remaining(n) /\ UNCHANGED <<session, textVars>>
    BY <1>6, <2>3, <2>6 DEF ReadRecord
  <2>11. pc = "list" /\ pc' \in {"list", "done"}
    BY <1>6 DEF ReadRecord
  <2> QED
    BY <1>0, <2>2, <2>8, <2>9, <2>10, <2>11 DEF ReaderTypes, ReaderTypeOK, textVars
<1>7. CASE HandlePiece
  <2>1. /\ Len(splitData) > 1 /\ splitData' = Tail(splitData) /\ pc = "split"
        /\ UNCHANGED <<session, pc, stream, ipStringAccum, serverListResponse>>
    BY <1>7 DEF HandlePiece, networkVars
  <2>2. IsSequence(splitData) /\ Len(splitData) \in Nat
    BY <1>0, LenProperties DEF PiecesAre, IsSequence
  <2>3. 1 \in 0..Len(splitData)
    BY <2>1, <2>2
  <2>4. PICK t : t = SubSeq(splitData, 1 + 1, Len(splitData))
    OBVIOUS
  <2>5. /\ IsSequence(t) /\ Len(t) = Len(splitData) - 1
        /\ \A i \in 1..Len(splitData) - 1 : t[i] = splitData[1 + i]
    BY <2>2, <2>3, <2>4, RemainingSequence
  <2>6. Tail(splitData) = t
    BY <2>2, <2>4 DEF IsSequence
  <2>7. PiecesAre(t)
    <3>1. \A i \in 1..Len(splitData) - 1 : 1 + i \in 1..Len(splitData)
      BY <2>2
    <3>2. \A i \in 1..Len(splitData) - 1 : IsSequence(t[i])
      BY <1>0, <2>5, <3>1 DEF PiecesAre
    <3> QED
      BY <2>5, <3>2 DEF PiecesAre
  <2>8. t # <<>>
    BY <2>1, <2>2, <2>5, EmptySequence
  <2> QED
    BY <1>0, <2>1, <2>6, <2>7, <2>8 DEF ReaderTypes, ReaderTypeOK
<1>8. CASE KeepPiece
  <2>1. /\ Len(splitData) = 1 /\ splitData' = <<>> /\ pc' = "list"
        /\ ipStringAccum' = IpMark \o splitData[1]
        /\ UNCHANGED <<session, stream, serverListResponse>>
    BY <1>8 DEF KeepPiece, networkVars
  <2>2. IsSequence(splitData[1])
    BY <1>0, <2>1 DEF PiecesAre
  <2>3. IsSequence(IpMark \o splitData[1])
    BY <2>2, IpMarkFacts, ConcatSequences
  <2> QED
    BY <1>0, <1>2, <2>1, <2>3 DEF ReaderTypes, ReaderTypeOK
<1>9. CASE HandleTail \/ TextEnds \/ RecordsEnd
  <2>1. /\ pc \in {"auth", "list", "tail"} /\ pc' \in {"tail", "done"}
        /\ UNCHANGED <<session, stream, ipStringAccum, splitData, serverListResponse>>
    BY <1>9 DEF HandleTail, TextEnds, RecordsEnd, networkVars, readerVars, textVars
  <2>2. splitData = <<>>
    BY <1>0, <2>1
  <2> QED
    BY <1>0, <2>1, <2>2 DEF ReaderTypes, ReaderTypeOK
<1>10. CASE Fails
  <2>1. /\ pc \in {"auth", "list", "tail"} /\ pc' \in {"tail", "done"} /\ stream' = <<>>
        /\ UNCHANGED <<session, ipStringAccum, splitData, serverListResponse>>
    BY <1>10 DEF Fails, AuthenticateFails, TextReadFails, RecordReadFails, ReadFails, ReadErr,
                 readerVars, textVars
  <2>2. splitData = <<>>
    BY <1>0, <2>1
  <2> QED
    BY <1>0, <1>2, <2>1, <2>2 DEF ReaderTypes, ReaderTypeOK
<1>11. CASE UNCHANGED <<session, pc, stream, ipStringAccum, splitData, serverListResponse>>
  BY <1>0, <1>11 DEF ReaderTypes, ReaderTypeOK
<1>12. CASE CloseConnection /\ UNCHANGED readerVars
  BY <1>11, <1>12 DEF CloseConnection, readerVars, textVars
<1>13. CASE UNCHANGED vars
  BY <1>11, <1>13 DEF vars, sessionVars, networkVars, readerVars, textVars
<1>14. CASE EntryPanics \/ \E n : ChallengePanics(n)
  <2>1. /\ pc' = "panic"
        /\ UNCHANGED <<session, stream, ipStringAccum, splitData, serverListResponse>>
    BY <1>14 DEF EntryPanics, ChallengePanics, networkVars, readerVars, textVars
  <2> QED
    BY <1>0, <2>1 DEF ReaderTypes, ReaderTypeOK
<1> QED
  BY <1>3, <1>4, <1>5, <1>6, <1>7, <1>8, <1>9, <1>10, <1>12, <1>13, <1>14 DEF ReaderNext, Handles

(* SBV2, of which WaitInv and ShutdownInv say the rest *)
SBV2Places == session.kind = "sbv2" => pc \in {"request", "list", "done", "panic"}

LEMMA SBV2PlacesStep ==
  ASSUME SBV2Places, session.kind = "sbv2", MasterCloses \/ SBV2Next \/ UNCHANGED vars
  PROVE  SBV2Places'
<1>1. pc \in {"request", "list", "done", "panic"}
  BY DEF SBV2Places
<1>2. ASSUME NEW data, NEW isGarbage, Returns(data, isGarbage)
      PROVE  pc' \in {pc, "done", "panic"}
  BY <1>2 DEF Returns, Arrives, Stops, GoOn
<1>3. CASE SBV2Works
  BY <1>1, <1>2, <1>3 DEF SBV2Works, CheckReady, Decrypt, sessionVars, SBV2Places
<1>4. CASE WriteListRequest \/ SBV2Fails \/ \E n \in 1..Len(stream) : ReadField(n)
  BY <1>1, <1>4 DEF WriteListRequest, SBV2Fails, RequestFails, ReadFieldFails, ReadField, SBV2Places
<1>5. CASE \E c \in Callers :
             ShutdownCloses(c) \/ ShutdownTests(c) \/ ShutdownClears(c) \/ ShutdownFrees(c)
  BY <1>1, <1>5 DEF ShutdownCloses, ShutdownTests, ShutdownClears, ShutdownFrees, notShutdown,
                    SBV2Places
<1>6. CASE MasterCloses \/ UNCHANGED vars
  BY <1>1, <1>6 DEF MasterCloses, vars, sessionVars, SBV2Places
<1> QED
  BY <1>3, <1>4, <1>5, <1>6 DEF SBV2Next

TypesInv ==
  /\ session \in Sessions
  /\ HistoryTypes
  /\ WaitInv /\ ShutdownInv /\ SBV2Panics /\ SBV2Places
  /\ ReaderTypes /\ UTMSTypes

LEMMA TypesStart ==
  ASSUME ListSessionsInit
  PROVE  TypesInv
<1>1. session \in Sessions /\ session.kind \in {"goa", "sbv2", "utms"}
  BY KindAssumption DEF ListSessionsInit
<1>2. /\ session.kind = "goa" => SessionInit("auth", Greeting)
      /\ session.kind = "sbv2" => SessionInit("request", <<>>)
      /\ session.kind = "utms" => SessionInit("challenge", Message(CompactString(ChallengeText)))
      /\ ReaderInit /\ SBV2Init /\ UTMSInit
  BY DEF ListSessionsInit
<1>3. HistoryTypes
  BY <1>1, <1>2 DEF SessionInit, HistoryTypes
<1>4. WaitInv /\ ShutdownInv
  BY <1>2, WaitInit
<1>5. SBV2Panics /\ SBV2Places
  BY <1>2 DEF SessionInit, SBV2Panics, SBV2Places
<1>6. IsSequence(<<>>) /\ Len(<<>>) = 0 /\ PiecesAre(<<>>)
  BY EmptySequence DEF PiecesAre
<1>7. ASSUME session.kind = "goa"
      PROVE  ReaderTypes
  <2>1. IsSequence(Greeting)
    BY <1>1, <1>7, GreetingFacts
  <2>2. PICK n \in Nat : n = RecordLen
    BY DEF RecordLen
  <2>3. IsSequence([i \in 1..n |-> Zero]) /\ Len([i \in 1..n |-> Zero]) = n
    BY ConstantSequence
  <2>4. IsSequence(serverListResponse) /\ Len(serverListResponse) = RecordLen
    BY <1>2, <2>2, <2>3 DEF ReaderInit
  <2>5. pc = "auth" /\ stream = Greeting /\ splitData = <<>> /\ ipStringAccum = <<>>
    BY <1>2, <1>7 DEF SessionInit, ReaderInit
  <2> QED
    BY <1>6, <2>1, <2>4, <2>5 DEF ReaderTypes, ReaderTypeOK
<1>8. ASSUME session.kind = "utms"
      PROVE  UTMSTypes
  <2>1. /\ pc = "challenge" /\ stream = Message(CompactString(ChallengeText))
        /\ reading = "length" /\ length = 0 /\ incoming = <<>> /\ numServers = 0
    BY <1>2, <1>8 DEF SessionInit, UTMSInit
  <2>2. IsSequence(stream)
    BY <2>1, RepliesAreSequences
  <2> QED
    BY <1>6, <2>1, <2>2 DEF UTMSTypes, UTMSTypeOK
<1> QED
  BY <1>1, <1>3, <1>4, <1>5, <1>7, <1>8 DEF TypesInv, ReaderTypes, UTMSTypes

LEMMA TypesStep ==
  ASSUME TypesInv, ListSessionsNext \/ UNCHANGED vars
  PROVE  TypesInv'
<1>1. session' = session /\ session \in Sessions /\ session.kind \in {"goa", "sbv2", "utms"}
  BY SessionStays, KindAssumption DEF TypesInv
<1>2. HistoryTypes' /\ WaitInv' /\ ShutdownInv' /\ SBV2Panics'
  BY HistoryTypesStep, CipherStep DEF TypesInv
<1>3. CASE session.kind = "goa"
  <2>1. (MasterCloses /\ UNCHANGED readerVars) \/ ReaderNext \/ UNCHANGED vars
    BY <1>3 DEF ListSessionsNext, Ended
  <2>2. ReaderTypes'
    BY <1>3, <2>1, ReaderTypesStep DEF TypesInv
  <2> QED
    BY <1>1, <1>2, <1>3, <2>2 DEF TypesInv, UTMSTypes, SBV2Places
<1>4. CASE session.kind = "utms"
  <2>1. (MasterCloses /\ UNCHANGED utmsVars) \/ UTMSNext \/ UNCHANGED vars
    BY <1>4 DEF ListSessionsNext, Ended
  <2>2. UTMSTypes'
    BY <1>4, <2>1, UTMSTypesStep DEF TypesInv
  <2> QED
    BY <1>1, <1>2, <1>4, <2>2 DEF TypesInv, ReaderTypes, SBV2Places
<1>5. CASE session.kind = "sbv2"
  <2>1. MasterCloses \/ SBV2Next \/ UNCHANGED vars
    BY <1>5 DEF ListSessionsNext, Ended
  <2>2. SBV2Places'
    BY <1>5, <2>1, SBV2PlacesStep DEF TypesInv
  <2> QED
    BY <1>1, <1>2, <1>5, <2>2 DEF TypesInv, ReaderTypes, UTMSTypes
<1> QED
  BY <1>1, <1>3, <1>4, <1>5

(* SessionTypeOK: every variable of a session has its type; a GOA pass has *)
(* a last piece to keep as long as it is on, and the buffer of the         *)
(* compressed list its length; SBV2 never reads more than a field, and is  *)
(* ready only once its cipher state is there; UTMS never reads more than a *)
(* message, and waits for a server only if one is due.                     *)
THEOREM SessionTypeCorrect ==
  ListSessionsSpec => []SessionTypeOK
<1>1. ListSessionsInit => TypesInv
  BY TypesStart
<1>2. TypesInv /\ [ListSessionsNext]_vars => TypesInv'
  BY TypesStep
<1>3. TypesInv => SessionTypeOK
  <2> SUFFICES ASSUME TypesInv PROVE SessionTypeOK
    OBVIOUS
  <2>1. session \in Sessions /\ session.kind \in {"goa", "sbv2", "utms"}
    BY KindAssumption DEF TypesInv
  <2>2. session.kind = "sbv2" => SBV2TypeOK
    BY DEF TypesInv, SBV2Places, WaitInv, ShutdownInv, SBV2TypeOK
  <2>3. session.kind = "goa" => ReaderTypeOK
    BY DEF TypesInv, ReaderTypes
  <2>4. session.kind = "utms" => UTMSTypeOK
    BY DEF TypesInv, UTMSTypes
  <2> QED
    BY <2>1, <2>2, <2>3, <2>4 DEF TypesInv, HistoryTypes, SessionTypeOK
<1> QED
  BY <1>1, <1>2, <1>3, PTL DEF ListSessionsSpec

-----------------------------------------------------------------------------
(* SBV2: what the master server has still to send.                         *)

SentTypes == [i \in 1..Len(session.fields) |-> <<session.fields[i]>> \o NTS(<<"v">>)]
SentEntries == [i \in 1..Len(Listing) |-> SentEntry(Listing[i], session.flags[i])]

EntriesDue(k) == Behind(SentEntries, k) \o <<Zero, Last255>>
TypesDue(i) == Behind(SentTypes, i) \o (<<session.popular>> \o EntriesDue(0))
FieldsPart == <<Numerals[Len(session.fields) + 1]>> \o TypesDue(0)
KeyedPart == <<"v">> \o (session.defaultPort \o FieldsPart)

(* What the reader has still to wait for while the keys are announced.     *)
TypeWaits ==
  [i \in 1..Len(session.fields) |-> Wait("field type", 1) \o Wait("field name", 1)]
TypesTodo(i) == Behind(TypeWaits, i) \o (Wait("num popular", 1) \o EntryStart)

LEMMA FiveSymbols ==
  ASSUME NEW a, NEW b, NEW c, NEW d, NEW e
  PROVE  <<a, b, c, d, e>> = <<a>> \o (<<b>> \o (<<c>> \o <<d, e>>))
<1>1. PICK s, t : s = <<d, e>> /\ t = <<a, b, c, d, e>>
  OBVIOUS
<1>2. IsSequence(s) /\ Len(s) = 2 /\ s[1] = d /\ s[2] = e
  <2>1. <<d, e>>[2] = e
    OBVIOUS
  <2> QED
    BY <1>1, <2>1, TwoSymbols
<1>3. /\ t \in Seq({a, b, c, d, e}) /\ Len(t) = 5
      /\ t[1] = a /\ t[2] = b /\ t[3] = c /\ t[4] = d /\ t[5] = e
  BY <1>1
<1>4. IsSequence(t)
  BY <1>3, SequenceOf
<1>5. PICK x : x = <<c>>
  OBVIOUS
<1>6. IsSequence(x) /\ Len(x) = 1 /\ x[1] = c
  BY <1>5, OneSymbol
<1>7. PICK xs : xs = x \o s
  OBVIOUS
<1>8. IsSequence(xs) /\ Len(xs) = 3 /\ xs[1] = c /\ xs[2] = d /\ xs[3] = e
  <2>1. /\ IsSequence(xs) /\ Len(xs) = Len(x) + Len(s)
        /\ \A i \in 1..Len(x) + Len(s) : xs[i] = IF i <= Len(x) THEN x[i] ELSE s[i - Len(x)]
    BY <1>2, <1>6, <1>7, ConcatSequences
  <2> QED
    BY <1>2, <1>6, <2>1
<1>9. PICK y : y = <<b>>
  OBVIOUS
<1>10. IsSequence(y) /\ Len(y) = 1 /\ y[1] = b
  BY <1>9, OneSymbol
<1>11. PICK ys : ys = y \o xs
  OBVIOUS
<1>12. IsSequence(ys) /\ Len(ys) = 4 /\ ys[1] = b /\ ys[2] = c /\ ys[3] = d /\ ys[4] = e
  <2>1. /\ IsSequence(ys) /\ Len(ys) = Len(y) + Len(xs)
        /\ \A i \in 1..Len(y) + Len(xs) : ys[i] = IF i <= Len(y) THEN y[i] ELSE xs[i - Len(y)]
    BY <1>8, <1>10, <1>11, ConcatSequences
  <2> QED
    BY <1>8, <1>10, <2>1
<1>13. PICK z : z = <<a>>
  OBVIOUS
<1>14. IsSequence(z) /\ Len(z) = 1 /\ z[1] = a
  BY <1>13, OneSymbol
<1>15. PICK zs : zs = z \o ys
  OBVIOUS
<1>16. /\ IsSequence(zs) /\ Len(zs) = 5
       /\ zs[1] = a /\ zs[2] = b /\ zs[3] = c /\ zs[4] = d /\ zs[5] = e
  <2>1. /\ IsSequence(zs) /\ Len(zs) = Len(z) + Len(ys)
        /\ \A i \in 1..Len(z) + Len(ys) : zs[i] = IF i <= Len(z) THEN z[i] ELSE ys[i - Len(z)]
    BY <1>12, <1>14, <1>15, ConcatSequences
  <2> QED
    BY <1>12, <1>14, <2>1
<1>17. \A i \in 1..Len(t) : t[i] = zs[i]
  BY <1>3, <1>16
<1>18. t = zs
  BY <1>3, <1>4, <1>16, <1>17, SequencesEqual
<1> QED
  BY <1>1, <1>5, <1>7, <1>9, <1>11, <1>13, <1>15, <1>18

(* Six and eight sequences, put together from the left or from the right.  *)
FromLeft(a, b, c, d, e, f) == a \o b \o c \o d \o e \o f
FromRight(a, b, c, d, e, f) == a \o (b \o (c \o (d \o (e \o f))))

LEMMA SixRegroup ==
  ASSUME NEW a, NEW b, NEW c, NEW d, NEW e, NEW f,
         IsSequence(a), IsSequence(b), IsSequence(c), IsSequence(d), IsSequence(e), IsSequence(f)
  PROVE  FromLeft(a, b, c, d, e, f) = FromRight(a, b, c, d, e, f)
<1>1. PICK r5 : r5 = e \o f
  OBVIOUS
<1>2. PICK r4 : r4 = d \o r5
  OBVIOUS
<1>3. PICK r3 : r3 = c \o r4
  OBVIOUS
<1>4. IsSequence(r5)
  BY <1>1, ConcatType
<1>5. IsSequence(r4)
  BY <1>2, <1>4, ConcatType
<1>6. IsSequence(r3)
  BY <1>3, <1>5, ConcatType
<1>7. PICK l2 : l2 = a \o b
  OBVIOUS
<1>8. PICK l3 : l3 = l2 \o c
  OBVIOUS
<1>9. PICK l4 : l4 = l3 \o d
  OBVIOUS
<1>10. IsSequence(l2)
  BY <1>7, ConcatType
<1>11. IsSequence(l3)
  BY <1>8, <1>10, ConcatType
<1>12. IsSequence(l4)
  BY <1>9, <1>11, ConcatType
<1>13. (l4 \o e) \o f = l4 \o (e \o f)
  BY ONLY <1>12, IsSequence(e), IsSequence(f), ConcatRegroups
<1>14. (l3 \o d) \o r5 = l3 \o (d \o r5)
  BY ONLY <1>4, <1>11, IsSequence(d), ConcatRegroups
<1>15. (l2 \o c) \o r4 = l2 \o (c \o r4)
  BY ONLY <1>5, <1>10, IsSequence(c), ConcatRegroups
<1>16. (a \o b) \o r3 = a \o (b \o r3)
  BY ONLY <1>6, IsSequence(a), IsSequence(b), ConcatRegroups
<1>17. a \o b \o c \o d \o e \o f = (l4 \o e) \o f
  BY ONLY <1>7, <1>8, <1>9
<1>18. (l4 \o e) \o f = a \o (b \o r3)
  BY ONLY <1>1, <1>2, <1>3, <1>7, <1>8, <1>9, <1>13, <1>14, <1>15, <1>16
<1> QED
  BY ONLY <1>1, <1>2, <1>3, <1>17, <1>18 DEF FromLeft, FromRight

EightFromLeft(a, b, c, d, e, f, g, h) == a \o b \o c \o d \o e \o f \o g \o h
EightFromRight(a, b, c, d, e, f, g, h) ==
  a \o (b \o (c \o (d \o (e \o (f \o (g \o h))))))

LEMMA EightRegroup ==
  ASSUME NEW a, NEW b, NEW c, NEW d, NEW e, NEW f, NEW g, NEW h,
         IsSequence(a), IsSequence(b), IsSequence(c), IsSequence(d), IsSequence(e), IsSequence(f),
         IsSequence(g), IsSequence(h)
  PROVE  EightFromLeft(a, b, c, d, e, f, g, h) = EightFromRight(a, b, c, d, e, f, g, h)
<1>1. PICK r7 : r7 = g \o h
  OBVIOUS
<1>2. PICK r6 : r6 = f \o r7
  OBVIOUS
<1>3. PICK r5 : r5 = e \o r6
  OBVIOUS
<1>4. PICK r4 : r4 = d \o r5
  OBVIOUS
<1>5. PICK r3 : r3 = c \o r4
  OBVIOUS
<1>6. IsSequence(r7)
  BY <1>1, ConcatType
<1>7. IsSequence(r6)
  BY <1>2, <1>6, ConcatType
<1>8. IsSequence(r5)
  BY <1>3, <1>7, ConcatType
<1>9. IsSequence(r4)
  BY <1>4, <1>8, ConcatType
<1>10. IsSequence(r3)
  BY <1>5, <1>9, ConcatType
<1>11. PICK l2 : l2 = a \o b
  OBVIOUS
<1>12. PICK l3 : l3 = l2 \o c
  OBVIOUS
<1>13. PICK l4 : l4 = l3 \o d
  OBVIOUS
<1>14. PICK l5 : l5 = l4 \o e
  OBVIOUS
<1>15. PICK l6 : l6 = l5 \o f
  OBVIOUS
<1>16. IsSequence(l2)
  BY <1>11, ConcatType
<1>17. IsSequence(l3)
  BY <1>12, <1>16, ConcatType
<1>18. IsSequence(l4)
  BY <1>13, <1>17, ConcatType
<1>19. IsSequence(l5)
  BY <1>14, <1>18, ConcatType
<1>20. IsSequence(l6)
  BY <1>15, <1>19, ConcatType
<1>21. (l6 \o g) \o h = l6 \o (g \o h)
  BY ONLY <1>20, IsSequence(g), IsSequence(h), ConcatRegroups
<1>22. (l5 \o f) \o r7 = l5 \o (f \o r7)
  BY ONLY <1>6, <1>19, IsSequence(f), ConcatRegroups
<1>23. (l4 \o e) \o r6 = l4 \o (e \o r6)
  BY ONLY <1>7, <1>18, IsSequence(e), ConcatRegroups
<1>24. (l3 \o d) \o r5 = l3 \o (d \o r5)
  BY ONLY <1>8, <1>17, IsSequence(d), ConcatRegroups
<1>25. (l2 \o c) \o r4 = l2 \o (c \o r4)
  BY ONLY <1>9, <1>16, IsSequence(c), ConcatRegroups
<1>26. (a \o b) \o r3 = a \o (b \o r3)
  BY ONLY <1>10, IsSequence(a), IsSequence(b), ConcatRegroups
<1>27. a \o b \o c \o d \o e \o f \o g \o h = (l6 \o g) \o h
  BY ONLY <1>11, <1>12, <1>13, <1>14, <1>15
<1>28. (l6 \o g) \o h = a \o (b \o r3)
  BY ONLY <1>1, <1>2, <1>3, <1>4, <1>5, <1>11, <1>12, <1>13, <1>14, <1>15, <1>21, <1>22, <1>23,
          <1>24, <1>25, <1>26
<1> QED
  BY ONLY <1>1, <1>2, <1>3, <1>4, <1>5, <1>27, <1>28 DEF EightFromLeft, EightFromRight

(* What the assumption says of this session.                               *)
LEMMA SBV2Facts ==
  ASSUME session \in Sessions, session.kind = "sbv2"
  PROVE  /\ Last255 \notin Hosts
         /\ IsSequence(session.defaultPort) /\ Len(session.defaultPort) = 2
         /\ IsSequence(session.fields) /\ Len(session.fields) \in 0..9
         /\ \A i \in 1..Len(session.fields) : session.fields[i] \in {"byte", "string", "short"}
         /\ \A i \in 1..Len(Listing) :
              \/ /\ session.flags[i] \in DOMAIN session.bits
                 /\ "NONSTANDARD_PORT" \in session.bits[session.flags[i]]
              \/ Listing[i].port = session.defaultPort
<1>1. session \in SBV2Sessions
  BY DEF SBV2Sessions
<1>2. /\ session.defaultPort \in Seq(Digits) /\ Len(session.defaultPort) = 2
      /\ session.fields \in Seq({"byte", "string", "short"}) /\ Len(session.fields) <= 9
  BY <1>1, SBV2Assumption
<1>6. \A i \in 1..Len(Listing) :
        \/ /\ session.flags[i] \in DOMAIN session.bits
           /\ "NONSTANDARD_PORT" \in session.bits[session.flags[i]]
        \/ Listing[i].port = session.defaultPort
  BY <1>1, SBV2Assumption
<1>7. Last255 \notin Hosts
  BY SBV2Assumption
<1>3. IsSequence(session.defaultPort) /\ IsSequence(session.fields)
  BY <1>2, SequenceOf
<1>4. Len(session.fields) \in Nat
  BY <1>2, LenProperties
<1>5. \A i \in 1..Len(session.fields) : session.fields[i] \in {"byte", "string", "short"}
  BY <1>2, ElementOfSeq
<1>8. Len(session.fields) \in 0..9
  <2>1. PICK n \in Nat : n = Len(session.fields)
    BY <1>4
  <2>2. n <= 9
    BY <1>2, <2>1
  <2>3. n \in 0..9
    BY <2>2
  <2> QED
    BY <2>1, <2>3
<1> QED
  BY <1>2, <1>3, <1>5, <1>6, <1>7, <1>8, Zenon

LEMMA StringSent ==
  /\ NTS(<<"v">>) = <<"v">> \o <<Zero>> /\ IsSequence(NTS(<<"v">>))
  /\ NTS(<<>>) = <<Zero>>
<1>1. PICK v, z : v = "v" /\ z = Zero
  OBVIOUS
<1>2. Append(<<v>>, z) = <<v, z>>
  <2>1. PICK y : y = <<v>>
    OBVIOUS
  <2>2. IsSequence(y) /\ Len(y) = 1 /\ y[1] = v
    BY <2>1, OneSymbol
  <2>3. /\ IsSequence(Append(y, z)) /\ Len(Append(y, z)) = 2
        /\ \A i \in 1..2 : Append(y, z)[i] = IF i <= 1 THEN v ELSE z
    <3>1. IsSequence(Append(y, z)) /\ Len(Append(y, z)) = Len(y) + 1
      BY <2>2, AppendSequence
    <3>2. \A i \in 1..Len(y) + 1 : Append(y, z)[i] = IF i <= Len(y) THEN y[i] ELSE z
      BY <2>2, AppendElements
    <3>3. \A i \in 1..1 : i = 1
      OBVIOUS
    <3> QED
      BY <2>2, <3>1, <3>2, <3>3
  <2>4. PICK w : w = <<v, z>>
    OBVIOUS
  <2>5. IsSequence(w) /\ Len(w) = 2 /\ w[1] = v /\ w[2] = z
    <3>1. w[2] = z
      BY <2>4
    <3> QED
      BY <2>4, <3>1, TwoSymbols
  <2>6. \A i \in 1..2 : Append(y, z)[i] = w[i]
    BY <2>3, <2>5
  <2>7. Append(y, z) = w
    BY <2>3, <2>5, <2>6, SequencesEqual
  <2> QED
    BY <2>1, <2>4, <2>7
<1>4. Append(<<>>, z) = <<z>>
  <2>1. PICK e : e = Append(<<>>, z)
    OBVIOUS
  <2>2. Len(<<>>) = 0 /\ IsSequence(<<>>)
    BY EmptySequence
  <2>3. IsSequence(Append(<<>>, z)) /\ Len(Append(<<>>, z)) = Len(<<>>) + 1
    BY <2>2, AppendSequence
  <2>4. \A i \in 1..Len(<<>>) + 1 : Append(<<>>, z)[i] = IF i <= Len(<<>>) THEN <<>>[i] ELSE z
    BY <2>2, AppendElements
  <2>5. Len(e) = 1 /\ IsSequence(e) /\ e[1] = z
    BY <2>1, <2>2, <2>3, <2>4
  <2>6. IsSequence(<<z>>) /\ Len(<<z>>) = 1 /\ <<z>>[1] = z
    BY OneSymbol
  <2>7. \A i \in 1..Len(e) : e[i] = <<z>>[i]
    BY <2>5, <2>6
  <2> QED
    BY <2>1, <2>5, <2>6, <2>7, SequencesEqual
<1>3. <<v>> \o <<z>> = <<v, z>> /\ IsSequence(<<v, z>>)
  BY TwoSymbols
<1> QED
  BY <1>1, <1>2, <1>3, <1>4 DEF NTS

LEMMA OptionalSequence ==
  ASSUME NEW flag, NEW byte, NEW s, IsSequence(s)
  PROVE  IsSequence(Optional(flag, byte, s))
BY EmptySequence DEF Optional

-----------------------------------------------------------------------------
(* What an entry consists of, and what the reader waits for in it.         *)

Text == <<"v">> \o <<Zero>>

(* A wait of that name and length, at the start of a part s of an entry    *)
(* whose port is p: what is behind s is what the next wait begins with.    *)
Takes(name, n, s, p) ==
  \/ name \in {"private ip", "icmp ip", "key byte"} /\ n = 1 /\ s = <<"v">>
  \/ name \in {"private port", "key short"} /\ n = 2 /\ s = <<"v", "v">>
  \/ name = "port" /\ n = 2 /\ s = p
  \/ name = "string index" /\ n = 1 /\ s = <<NotAString>> \o Text
  \/ name \in {"string", "value"} /\ n = 1 /\ (s = Text \/ s = <<Zero>>)
  \/ name = "rules" /\ n = 1 /\ s = <<"v">> \o (<<Zero>> \o (Text \o <<Zero>>))
  \/ name \in {"rule", "next rule"} /\ n = 1 /\ s = <<Zero>>

(* The waits t, and what is sent for them, d; R holds what may be left.    *)
ParseStep(t, d, p, R) ==
  \/ t = <<>> /\ d = <<>>
  \/ \E name, n, s, t2, d2 :
       /\ t = Wait(name, n) \o t2 /\ d = s \o d2
       /\ IsSequence(s) /\ IsSequence(t2) /\ IsSequence(d2)
       /\ Takes(name, n, s, p)
       /\ name = "rules" => t2 = <<>>
       /\ <<t2, d2>> \in R

ParsesAll(R, p) == \A t, d : <<t, d>> \in R => ParseStep(t, d, p, R)
Parses(t, d, p) == \E R : <<t, d>> \in R /\ ParsesAll(R, p)

LEMMA TextFacts ==
  IsSequence(Text)
<1>1. PICK v, z : v = <<"v">> /\ z = <<Zero>>
  OBVIOUS
<1>2. IsSequence(v) /\ IsSequence(z)
  BY <1>1, OneSymbol
<1>3. IsSequence(v \o z)
  BY <1>2, ConcatType
<1> QED
  BY <1>1, <1>3 DEF Text

LEMMA ParseMore ==
  ASSUME NEW t, NEW d, NEW p, NEW R, NEW Q, ParseStep(t, d, p, R), R \subseteq Q
  PROVE  ParseStep(t, d, p, Q)
<1>1. CASE t = <<>> /\ d = <<>>
  BY <1>1 DEF ParseStep
<1>2. CASE ~(t = <<>> /\ d = <<>>)
  <2>1. PICK name, n, s, t2, d2 :
              /\ t = Wait(name, n) \o t2 /\ d = s \o d2
              /\ IsSequence(s) /\ IsSequence(t2) /\ IsSequence(d2)
              /\ Takes(name, n, s, p)
              /\ name = "rules" => t2 = <<>>
              /\ <<t2, d2>> \in R
    BY <1>2, Zenon DEF ParseStep
  <2>2. <<t2, d2>> \in Q
    BY <2>1
  <2> QED
    BY <2>1, <2>2, Zenon DEF ParseStep
<1> QED
  BY <1>1, <1>2

LEMMA ParseNothing ==
  ASSUME NEW p
  PROVE  Parses(<<>>, <<>>, p)
<1>1. PICK e : e = <<>>
  OBVIOUS
<1>2. PICK R : R = {<<e, e>>}
  OBVIOUS
<1>3. \A t, d : <<t, d>> \in R => t = e /\ d = e
  BY <1>2
<1>4. ParsesAll(R, p)
  BY <1>1, <1>3, Zenon DEF ParsesAll, ParseStep
<1>5. <<e, e>> \in R
  BY <1>2
<1> QED
  BY <1>1, <1>4, <1>5, Zenon DEF Parses

LEMMA ParseOne ==
  ASSUME NEW t, NEW d, NEW p, Parses(t, d, p), IsSequence(t), IsSequence(d),
         NEW name, NEW n, NEW s, IsSequence(s), Takes(name, n, s, p),
         name = "rules" => t = <<>>
  PROVE  Parses(Wait(name, n) \o t, s \o d, p)
<1>1. PICK R : <<t, d>> \in R /\ ParsesAll(R, p)
  BY DEF Parses
<1>2. PICK x, y : x = Wait(name, n) \o t /\ y = s \o d
  OBVIOUS
<1>3. PICK Q : Q = R \cup {<<x, y>>}
  OBVIOUS
<1>4. R \subseteq Q /\ <<x, y>> \in Q /\ <<t, d>> \in Q
  BY <1>1, <1>3
<1>5. ParseStep(x, y, p, Q)
  BY <1>2, <1>4, Zenon DEF ParseStep
<1>6. ASSUME NEW t1, NEW d1, <<t1, d1>> \in Q
      PROVE  ParseStep(t1, d1, p, Q)
  <2>1. CASE <<t1, d1>> \in R
    <3>1. ParseStep(t1, d1, p, R)
      BY <1>1, <2>1 DEF ParsesAll
    <3> QED
      BY ONLY <1>4, <3>1, ParseMore
  <2>2. CASE <<t1, d1>> \notin R
    <3>1. t1 = x /\ d1 = y
      BY <1>3, <1>6, <2>2
    <3> QED
      BY <1>5, <3>1
  <2> QED
    BY <2>1, <2>2
<1>7. ParsesAll(Q, p)
  BY <1>6 DEF ParsesAll
<1> QED
  BY <1>2, <1>4, <1>7, Zenon DEF Parses

(* What the first wait takes.                                              *)
FirstPart(t, d, p, name, n, s, t2, d2) ==
  /\ t = Wait(name, n) \o t2 /\ d = s \o d2
  /\ IsSequence(s) /\ IsSequence(t2) /\ IsSequence(d2)
  /\ Takes(name, n, s, p)
  /\ name = "rules" => t2 = <<>>
  /\ Parses(t2, d2, p)

LEMMA ParseFirst ==
  ASSUME NEW t, NEW d, NEW p, Parses(t, d, p)
  PROVE  \/ t = <<>> /\ d = <<>>
         \/ \E name, n, s, t2, d2 : FirstPart(t, d, p, name, n, s, t2, d2)
<1>1. PICK R : <<t, d>> \in R /\ ParsesAll(R, p)
  BY DEF Parses
<1>2. ParseStep(t, d, p, R)
  BY <1>1 DEF ParsesAll
<1>3. SUFFICES ASSUME ~(t = <<>> /\ d = <<>>)
               PROVE  \E name, n, s, t2, d2 : FirstPart(t, d, p, name, n, s, t2, d2)
  OBVIOUS
<1>4. PICK name, n, s, t2, d2 :
            /\ t = Wait(name, n) \o t2 /\ d = s \o d2
            /\ IsSequence(s) /\ IsSequence(t2) /\ IsSequence(d2)
            /\ Takes(name, n, s, p)
            /\ name = "rules" => t2 = <<>>
            /\ <<t2, d2>> \in R
  BY <1>2, <1>3, Zenon DEF ParseStep
<1>5. Parses(t2, d2, p)
  BY <1>1, <1>4, Zenon DEF Parses
<1>6. FirstPart(t, d, p, name, n, s, t2, d2)
  BY <1>4, <1>5, Zenon DEF FirstPart
<1> QED
  BY <1>6

LEMMA WaitSequence ==
  ASSUME NEW name, NEW n
  PROVE  IsSequence(Wait(name, n)) /\ Wait(name, n) # <<>>
BY OneSymbol DEF Wait

LEMMA ParseSequences ==
  ASSUME NEW t, NEW d, NEW p, Parses(t, d, p)
  PROVE  IsSequence(t) /\ IsSequence(d)
<1>1. CASE t = <<>> /\ d = <<>>
  BY <1>1, EmptySequence
<1>2. CASE ~(t = <<>> /\ d = <<>>)
  <2>1. PICK name, n, s, t2, d2 : FirstPart(t, d, p, name, n, s, t2, d2)
    BY <1>2, ParseFirst
  <2>2. /\ t = Wait(name, n) \o t2 /\ d = s \o d2
        /\ IsSequence(s) /\ IsSequence(t2) /\ IsSequence(d2)
    BY <2>1 DEF FirstPart
  <2>3. IsSequence(Wait(name, n) \o t2)
    <3>1. PICK w : w = Wait(name, n)
      OBVIOUS
    <3>2. IsSequence(w)
      BY <3>1, WaitSequence
    <3>3. IsSequence(w \o t2)
      BY <2>2, <3>2, ConcatType
    <3> QED
      BY <3>1, <3>3
  <2>4. IsSequence(s \o d2)
    BY <2>2, ConcatType
  <2> QED
    BY <2>2, <2>3, <2>4
<1> QED
  BY <1>1, <1>2

(* An optional part, before the rest of an entry.                          *)
LEMMA ParseOptional ==
  ASSUME NEW t, NEW d, NEW p, Parses(t, d, p),
         NEW flag, NEW byte, NEW x, NEW y,
         Parses(x \o t, y \o d, p)
  PROVE  Parses(Optional(flag, byte, x) \o t, Optional(flag, byte, y) \o d, p)
<1>1. IsSequence(t) /\ IsSequence(d)
  BY ParseSequences
<1>2. CASE byte \in DOMAIN session.bits /\ flag \in session.bits[byte]
  BY <1>2 DEF Optional
<1>3. CASE ~(byte \in DOMAIN session.bits /\ flag \in session.bits[byte])
  <2>1. Optional(flag, byte, x) = <<>> /\ Optional(flag, byte, y) = <<>>
    BY <1>3 DEF Optional
  <2>2. <<>> \o t = t /\ <<>> \o d = d
    BY <1>1, EmptyConcat
  <2> QED
    BY <2>1, <2>2
<1> QED
  BY <1>2, <1>3

KeyWaits == [i \in 1..Len(session.fields) |-> KeyOf(session.fields[i])]
KeyValues == [i \in 1..Len(session.fields) |-> KeyValue(session.fields[i])]

LEMMA KeyParts ==
  ASSUME NEW type \in {"byte", "string", "short"}, NEW p
  PROVE  \E name, n : /\ KeyOf(type) = Wait(name, n)
                      /\ Takes(name, n, KeyValue(type), p)
                      /\ name # "rules"
                      /\ IsSequence(KeyValue(type))
<1>1. CASE type = "byte"
  <2>1. KeyOf(type) = Wait("key byte", 1) /\ KeyValue(type) = <<"v">>
    BY <1>1 DEF KeyOf, KeyValue
  <2>2. Takes("key byte", 1, <<"v">>, p) /\ IsSequence(<<"v">>)
    BY OneSymbol DEF Takes
  <2>3. "key byte" # "rules"
    OBVIOUS
  <2> QED
    BY <2>1, <2>2, <2>3, Zenon
<1>2. CASE type = "short"
  <2>1. KeyOf(type) = Wait("key short", 2) /\ KeyValue(type) = <<"v", "v">>
    BY <1>2 DEF KeyOf, KeyValue
  <2>2. Takes("key short", 2, <<"v", "v">>, p) /\ IsSequence(<<"v", "v">>)
    BY TwoSymbols DEF Takes
  <2>3. "key short" # "rules"
    OBVIOUS
  <2> QED
    BY <2>1, <2>2, <2>3, Zenon
<1>3. CASE type = "string"
  <2>1. KeyOf(type) = Wait("string index", 1) /\ KeyValue(type) = <<NotAString>> \o NTS(<<"v">>)
    BY <1>3 DEF KeyOf, KeyValue
  <2>2. KeyValue(type) = <<NotAString>> \o Text
    BY <2>1, StringSent DEF Text
  <2>3. Takes("string index", 1, <<NotAString>> \o Text, p)
    BY DEF Takes
  <2>4. IsSequence(<<NotAString>> \o Text)
    <3>1. PICK x : x = <<NotAString>>
      OBVIOUS
    <3>2. IsSequence(x)
      BY <3>1, OneSymbol
    <3>3. IsSequence(x \o Text)
      BY <3>2, TextFacts, ConcatType
    <3> QED
      BY <3>1, <3>3
  <2>5. "string index" # "rules"
    OBVIOUS
  <2> QED
    BY <2>1, <2>2, <2>3, <2>4, <2>5, Zenon
<1> QED
  BY <1>1, <1>2, <1>3

LEMMA ParseKeys ==
  ASSUME session \in Sessions, session.kind = "sbv2", NEW t, NEW d, NEW p, Parses(t, d, p)
  PROVE  /\ Parses(FlattenSeq(KeyWaits) \o t, FlattenSeq(KeyValues) \o d, p)
         /\ IsSequence(FlattenSeq(KeyWaits)) /\ IsSequence(FlattenSeq(KeyValues))
<1>1. PICK n, W, V : n = Len(session.fields) /\ W = KeyWaits /\ V = KeyValues
  OBVIOUS
<1>2. n \in Nat /\ \A i \in 1..n : session.fields[i] \in {"byte", "string", "short"}
  BY <1>1, SBV2Facts
<1>3. /\ W = [i \in 1..n |-> W[i]] /\ V = [i \in 1..n |-> V[i]]
      /\ \A i \in 1..n : W[i] = KeyOf(session.fields[i]) /\ V[i] = KeyValue(session.fields[i])
  BY <1>1 DEF KeyWaits, KeyValues
<1>4. ASSUME NEW i \in 1..n
      PROVE  \E name, l : /\ W[i] = Wait(name, l) /\ Takes(name, l, V[i], p) /\ name # "rules"
                          /\ IsSequence(V[i])
  <2>1. PICK type : type = session.fields[i]
    OBVIOUS
  <2>2. type \in {"byte", "string", "short"} /\ W[i] = KeyOf(type) /\ V[i] = KeyValue(type)
    BY <1>2, <1>3, <2>1
  <2> QED
    BY <2>2, KeyParts
<1>5. \A i \in 1..n : IsSequence(W[i]) /\ IsSequence(V[i])
  BY <1>4, WaitSequence
<1>6. /\ \A k \in 0..n : IsSequence(Behind(W, k))
      /\ \A k \in 0..n : k < n => Behind(W, k) = W[k + 1] \o Behind(W, k + 1)
      /\ Behind(W, n) = <<>> /\ Behind(W, 0) = FlattenSeq(W)
  BY ONLY <1>2, <1>3, <1>5, BehindFacts
<1>7. /\ \A k \in 0..n : IsSequence(Behind(V, k))
      /\ \A k \in 0..n : k < n => Behind(V, k) = V[k + 1] \o Behind(V, k + 1)
      /\ Behind(V, n) = <<>> /\ Behind(V, 0) = FlattenSeq(V)
  BY ONLY <1>2, <1>3, <1>5, BehindFacts
<1>8. IsSequence(t) /\ IsSequence(d)
  BY ParseSequences
<1>9. PICK R : <<t, d>> \in R /\ ParsesAll(R, p)
  BY DEF Parses
<1>10. PICK Q : Q = R \cup {<<Behind(W, i) \o t, Behind(V, i) \o d>> : i \in 0..n}
  OBVIOUS
<1>11. R \subseteq Q
  BY <1>10
<1>12. ASSUME NEW i \in 0..n
       PROVE  ParseStep(Behind(W, i) \o t, Behind(V, i) \o d, p, Q)
  <2>1. CASE i = n
    <3>1. Behind(W, i) \o t = t /\ Behind(V, i) \o d = d
      BY <1>6, <1>7, <1>8, <2>1, EmptyConcat
    <3>2. ParseStep(t, d, p, R)
      BY <1>9 DEF ParsesAll
    <3>3. ParseStep(t, d, p, Q)
      BY ONLY <1>11, <3>2, ParseMore
    <3> QED
      BY <3>1, <3>3
  <2>2. CASE i # n
    <3>1. i < n /\ i + 1 \in 1..n /\ i + 1 \in 0..n
      BY <1>2, <2>2
    <3>2. PICK name, l : /\ W[i + 1] = Wait(name, l) /\ Takes(name, l, V[i + 1], p)
                         /\ name # "rules" /\ IsSequence(V[i + 1])
      BY <1>4, <3>1
    <3>3. PICK w, v, bw, bv : /\ w = W[i + 1] /\ v = V[i + 1]
                              /\ bw = Behind(W, i + 1) /\ bv = Behind(V, i + 1)
      OBVIOUS
    <3>4. IsSequence(w) /\ IsSequence(v) /\ IsSequence(bw) /\ IsSequence(bv)
      BY <1>5, <1>6, <1>7, <3>1, <3>3
    <3>5. Behind(W, i) = w \o bw /\ Behind(V, i) = v \o bv
      BY <1>6, <1>7, <3>1, <3>3
    <3>6. (w \o bw) \o t = w \o (bw \o t)
      <4>1. IsSequence(w) /\ IsSequence(bw) /\ IsSequence(t)
        BY <1>8, <3>4
      <4> QED
        BY ONLY <4>1, ConcatRegroups
    <3>7. (v \o bv) \o d = v \o (bv \o d)
      <4>1. IsSequence(v) /\ IsSequence(bv) /\ IsSequence(d)
        BY <1>8, <3>4
      <4> QED
        BY ONLY <4>1, ConcatRegroups
    <3>8. IsSequence(bw \o t) /\ IsSequence(bv \o d)
      BY <1>8, <3>4, ConcatType
    <3>9. <<bw \o t, bv \o d>> \in Q
      BY <1>10, <3>1, <3>3
    <3>10. PICK x, y : x = bw \o t /\ y = bv \o d
      OBVIOUS
    <3>11. ParseStep(Wait(name, l) \o x, v \o y, p, Q)
      BY <3>2, <3>3, <3>4, <3>8, <3>9, <3>10, Zenon DEF ParseStep
    <3> QED
      BY <3>2, <3>3, <3>5, <3>6, <3>7, <3>10, <3>11
  <2> QED
    BY <2>1, <2>2
<1>13. ParsesAll(Q, p)
  <2> SUFFICES ASSUME NEW x, NEW y, <<x, y>> \in Q
               PROVE  ParseStep(x, y, p, Q)
    BY DEF ParsesAll
  <2>1. CASE <<x, y>> \in R
    <3>1. ParseStep(x, y, p, R)
      BY <1>9, <2>1 DEF ParsesAll
    <3> QED
      BY ONLY <1>11, <3>1, ParseMore
  <2>2. CASE <<x, y>> \notin R
    <3>1. PICK i \in 0..n : <<x, y>> = <<Behind(W, i) \o t, Behind(V, i) \o d>>
      BY <1>10, <2>2
    <3>2. x = Behind(W, i) \o t /\ y = Behind(V, i) \o d
      BY <3>1
    <3> QED
      BY <1>12, <3>2
  <2> QED
    BY <2>1, <2>2
<1>14. <<Behind(W, 0) \o t, Behind(V, 0) \o d>> \in Q
  <2>1. 0 \in 0..n
    BY <1>2
  <2> QED
    BY <1>10, <2>1
<1>15. Parses(Behind(W, 0) \o t, Behind(V, 0) \o d, p)
  BY <1>13, <1>14, Zenon DEF Parses
<1>16. IsSequence(Behind(W, 0)) /\ IsSequence(Behind(V, 0))
  <2>1. 0 \in 0..n
    BY <1>2
  <2> QED
    BY <1>6, <1>7, <2>1
<1> QED
  BY <1>1, <1>6, <1>7, <1>15, <1>16

RulesSent == NTS(<<"v">>) \o NTS(<<"v">>) \o NTS(<<>>)

LEMMA RulesTaken ==
  ASSUME NEW p
  PROVE  IsSequence(RulesSent) /\ Takes("rules", 1, RulesSent, p)
<1>1. PICK v, z : v = <<"v">> /\ z = <<Zero>>
  OBVIOUS
<1>2. IsSequence(v) /\ IsSequence(z)
  BY <1>1, OneSymbol
<1>3. Text = v \o z /\ IsSequence(Text)
  BY <1>1, TextFacts DEF Text
<1>4. RulesSent = (Text \o Text) \o z
  BY <1>1, <1>3, StringSent DEF RulesSent
<1>5. PICK x : x = Text
  OBVIOUS
<1>6. (x \o x) \o z = x \o (x \o z)
  BY ONLY <1>2, <1>3, <1>5, ConcatRegroups
<1>7. PICK y : y = x \o z
  OBVIOUS
<1>8. IsSequence(y)
  BY <1>2, <1>3, <1>5, <1>7, ConcatType
<1>9. (v \o z) \o y = v \o (z \o y)
  BY ONLY <1>2, <1>8, ConcatRegroups
<1>10. RulesSent = v \o (z \o y)
  BY <1>3, <1>4, <1>5, <1>6, <1>7, <1>9
<1>11. IsSequence(z \o y)
  BY <1>2, <1>8, ConcatType
<1>12. IsSequence(v \o (z \o y))
  BY <1>2, <1>11, ConcatType
<1>13. Takes("rules", 1, v \o (z \o y), p)
  BY <1>1, <1>5, <1>7 DEF Takes
<1> QED
  BY <1>10, <1>12, <1>13

(* The parts of an entry behind its host.                                  *)
PartsSent(byte, port) ==
  Optional("NONSTANDARD_PORT", byte, port)
    \o (Optional("PRIVATE_IP", byte, <<"v">>)
    \o (Optional("NONSTANDARD_PRIVATE_PORT", byte, <<"v", "v">>)
    \o (Optional("ICMP_IP", byte, <<"v">>)
    \o (Optional("HAS_KEYS", byte, FlattenSeq(KeyValues))
    \o  Optional("HAS_FULL_RULES", byte, RulesSent)))))

(* One more simple part in front.                                          *)
LEMMA ParseSimple ==
  ASSUME NEW t, NEW d, NEW p, Parses(t, d, p), NEW flag, NEW byte,
         NEW name, NEW n, NEW s, IsSequence(s), Takes(name, n, s, p), name # "rules"
  PROVE  /\ Parses(Optional(flag, byte, Wait(name, n)) \o t, Optional(flag, byte, s) \o d, p)
         /\ IsSequence(Optional(flag, byte, Wait(name, n)))
         /\ IsSequence(Optional(flag, byte, s))
<1>1. IsSequence(t) /\ IsSequence(d)
  BY ParseSequences
<1>2. Parses(Wait(name, n) \o t, s \o d, p)
  BY <1>1, ParseOne
<1>3. PICK w : w = Wait(name, n)
  OBVIOUS
<1>4. Parses(w \o t, s \o d, p)
  BY <1>2, <1>3
<1>5. Parses(Optional(flag, byte, w) \o t, Optional(flag, byte, s) \o d, p)
  BY ONLY <1>4, Parses(t, d, p), ParseOptional
<1>6. IsSequence(w)
  BY <1>3, WaitSequence
<1>7. IsSequence(Optional(flag, byte, w)) /\ IsSequence(Optional(flag, byte, s))
  BY <1>6, OptionalSequence
<1> QED
  BY <1>3, <1>5, <1>7

LEMMA ParseParts ==
  ASSUME session \in Sessions, session.kind = "sbv2", fields = session.fields,
         NEW byte, NEW port, IsSequence(port)
  PROVE  /\ Parses(Parts(byte), PartsSent(byte, port), port)
         /\ \E t : /\ IsSequence(t)
                   /\ Parts(byte) = Optional("NONSTANDARD_PORT", byte, Wait("port", 2)) \o t
<1>1. PICK w1, w2, w3, w4, w5, w6 :
            /\ w1 = Optional("NONSTANDARD_PORT", byte, Wait("port", 2))
            /\ w2 = Optional("PRIVATE_IP", byte, Wait("private ip", 1))
            /\ w3 = Optional("NONSTANDARD_PRIVATE_PORT", byte, Wait("private port", 2))
            /\ w4 = Optional("ICMP_IP", byte, Wait("icmp ip", 1))
            /\ w5 = Optional("HAS_KEYS", byte, FlattenSeq(KeyWaits))
            /\ w6 = Optional("HAS_FULL_RULES", byte, Wait("rules", 1))
  OBVIOUS
<1>2. PICK s1, s2, s3, s4, s5, s6 :
            /\ s1 = Optional("NONSTANDARD_PORT", byte, port)
            /\ s2 = Optional("PRIVATE_IP", byte, <<"v">>)
            /\ s3 = Optional("NONSTANDARD_PRIVATE_PORT", byte, <<"v", "v">>)
            /\ s4 = Optional("ICMP_IP", byte, <<"v">>)
            /\ s5 = Optional("HAS_KEYS", byte, FlattenSeq(KeyValues))
            /\ s6 = Optional("HAS_FULL_RULES", byte, RulesSent)
  OBVIOUS
<1>3. Parts(byte) = w1 \o w2 \o w3 \o w4 \o w5 \o w6
  <2>1. [i \in 1..Len(fields) |-> KeyOf(fields[i])] = KeyWaits
    BY DEF KeyWaits
  <2> QED
    BY <1>1, <2>1 DEF Parts
<1>4. PartsSent(byte, port) = s1 \o (s2 \o (s3 \o (s4 \o (s5 \o s6))))
  BY <1>2 DEF PartsSent
<1>5. Parses(w6, s6, port) /\ IsSequence(w6) /\ IsSequence(s6)
  <2>1. PICK e, x, y : e = <<>> /\ x = Wait("rules", 1) /\ y = RulesSent
    OBVIOUS
  <2>2. Parses(e, e, port) /\ IsSequence(e)
    BY <2>1, ParseNothing, EmptySequence
  <2>3. IsSequence(y) /\ Takes("rules", 1, y, port)
    BY <2>1, RulesTaken
  <2>4. Parses(x \o e, y \o e, port)
    <3>1. PICK nm, l : nm = "rules" /\ l = 1
      OBVIOUS
    <3>2. Takes(nm, l, y, port) /\ (nm = "rules" => e = <<>>)
      BY <2>1, <2>3, <3>1
    <3>3. Parses(Wait(nm, l) \o e, y \o e, port)
      BY ONLY <2>2, <2>3, <3>2, ParseOne
    <3> QED
      BY <2>1, <3>1, <3>3
  <2>5. PICK flag : flag = "HAS_FULL_RULES"
    OBVIOUS
  <2>6. Parses(Optional(flag, byte, x) \o e, Optional(flag, byte, y) \o e, port)
    BY ONLY <2>2, <2>4, ParseOptional
  <2>7. IsSequence(x)
    BY <2>1, WaitSequence
  <2>8. IsSequence(Optional(flag, byte, x)) /\ IsSequence(Optional(flag, byte, y))
    BY <2>3, <2>7, OptionalSequence
  <2>9. w6 = Optional(flag, byte, x) /\ s6 = Optional(flag, byte, y)
    BY <1>1, <1>2, <2>1, <2>5
  <2>10. w6 \o e = w6 /\ s6 \o e = s6
    BY <2>1, <2>8, <2>9, EmptyConcat
  <2> QED
    BY <2>6, <2>8, <2>9, <2>10
<1>6. Parses(w5 \o w6, s5 \o s6, port) /\ IsSequence(w5) /\ IsSequence(s5)
  <2>1. PICK x, y, flag : x = FlattenSeq(KeyWaits) /\ y = FlattenSeq(KeyValues) /\ flag = "HAS_KEYS"
    OBVIOUS
  <2>2. Parses(x \o w6, y \o s6, port) /\ IsSequence(x) /\ IsSequence(y)
    BY <1>5, <2>1, ParseKeys
  <2>3. Parses(w6, s6, port)
    BY <1>5
  <2>4. Parses(Optional(flag, byte, x) \o w6, Optional(flag, byte, y) \o s6, port)
    BY ONLY <2>2, <2>3, ParseOptional
  <2>5. IsSequence(Optional(flag, byte, x)) /\ IsSequence(Optional(flag, byte, y))
    BY <2>2, OptionalSequence
  <2> QED
    BY <1>1, <1>2, <2>1, <2>4, <2>5
<1>7. Parses(w4 \o (w5 \o w6), s4 \o (s5 \o s6), port) /\ IsSequence(w4) /\ IsSequence(s4)
  <2>1. PICK flag, name, n, s, t, d : /\ flag = "ICMP_IP" /\ name = "icmp ip" /\ n = 1
                                      /\ s = <<"v">> /\ t = w5 \o w6 /\ d = s5 \o s6
    OBVIOUS
  <2>2. Parses(t, d, port)
    BY <1>6, <2>1
  <2>3. IsSequence(s) /\ Takes(name, n, s, port) /\ name # "rules"
    BY <2>1, OneSymbol DEF Takes
  <2>4. /\ Parses(Optional(flag, byte, Wait(name, n)) \o t, Optional(flag, byte, s) \o d, port)
        /\ IsSequence(Optional(flag, byte, Wait(name, n))) /\ IsSequence(Optional(flag, byte, s))
    BY ONLY <2>2, <2>3, ParseSimple
  <2> QED
    BY <1>1, <1>2, <2>1, <2>4
<1>8. /\ Parses(w3 \o (w4 \o (w5 \o w6)), s3 \o (s4 \o (s5 \o s6)), port)
      /\ IsSequence(w3) /\ IsSequence(s3)
  <2>1. PICK flag, name, n, s, t, d : /\ flag = "NONSTANDARD_PRIVATE_PORT" /\ name = "private port" /\ n = 2
                                      /\ s = <<"v", "v">> /\ t = w4 \o (w5 \o w6) /\ d = s4 \o (s5 \o s6)
    OBVIOUS
  <2>2. Parses(t, d, port)
    BY <1>7, <2>1
  <2>3. IsSequence(s) /\ Takes(name, n, s, port) /\ name # "rules"
    BY <2>1, TwoSymbols DEF Takes
  <2>4. /\ Parses(Optional(flag, byte, Wait(name, n)) \o t, Optional(flag, byte, s) \o d, port)
        /\ IsSequence(Optional(flag, byte, Wait(name, n))) /\ IsSequence(Optional(flag, byte, s))
    BY ONLY <2>2, <2>3, ParseSimple
  <2> QED
    BY <1>1, <1>2, <2>1, <2>4
<1>9. /\ Parses(w2 \o (w3 \o (w4 \o (w5 \o w6))), s2 \o (s3 \o (s4 \o (s5 \o s6))), port)
      /\ IsSequence(w2) /\ IsSequence(s2)
  <2>1. PICK flag, name, n, s, t, d : /\ flag = "PRIVATE_IP" /\ name = "private ip" /\ n = 1
                                      /\ s = <<"v">> /\ t = w3 \o (w4 \o (w5 \o w6)) /\ d = s3 \o (s4 \o (s5 \o s6))
    OBVIOUS
  <2>2. Parses(t, d, port)
    BY <1>8, <2>1
  <2>3. IsSequence(s) /\ Takes(name, n, s, port) /\ name # "rules"
    BY <2>1, OneSymbol DEF Takes
  <2>4. /\ Parses(Optional(flag, byte, Wait(name, n)) \o t, Optional(flag, byte, s) \o d, port)
        /\ IsSequence(Optional(flag, byte, Wait(name, n))) /\ IsSequence(Optional(flag, byte, s))
    BY ONLY <2>2, <2>3, ParseSimple
  <2> QED
    BY <1>1, <1>2, <2>1, <2>4
<1>10. /\ Parses(w1 \o (w2 \o (w3 \o (w4 \o (w5 \o w6)))),
                 s1 \o (s2 \o (s3 \o (s4 \o (s5 \o s6)))), port)
       /\ IsSequence(w1) /\ IsSequence(s1)
  <2>1. PICK flag, name, n, s, t, d : /\ flag = "NONSTANDARD_PORT" /\ name = "port" /\ n = 2
                                      /\ s = port /\ t = w2 \o (w3 \o (w4 \o (w5 \o w6)))
                                      /\ d = s2 \o (s3 \o (s4 \o (s5 \o s6)))
    OBVIOUS
  <2>2. Parses(t, d, port)
    BY <1>9, <2>1
  <2>3. IsSequence(s) /\ Takes(name, n, s, port) /\ name # "rules"
    BY <2>1 DEF Takes
  <2>4. /\ Parses(Optional(flag, byte, Wait(name, n)) \o t, Optional(flag, byte, s) \o d, port)
        /\ IsSequence(Optional(flag, byte, Wait(name, n))) /\ IsSequence(Optional(flag, byte, s))
    BY ONLY <2>2, <2>3, ParseSimple
  <2> QED
    BY <1>1, <1>2, <2>1, <2>4
<1>13. /\ IsSequence(w1) /\ IsSequence(w2) /\ IsSequence(w3)
       /\ IsSequence(w4) /\ IsSequence(w5) /\ IsSequence(w6)
  BY <1>5, <1>6, <1>7, <1>8, <1>9, <1>10
<1>11. w1 \o w2 \o w3 \o w4 \o w5 \o w6 = w1 \o (w2 \o (w3 \o (w4 \o (w5 \o w6))))
  <2>1. FromLeft(w1, w2, w3, w4, w5, w6) = FromRight(w1, w2, w3, w4, w5, w6)
    BY ONLY <1>13, SixRegroup
  <2> QED
    BY <2>1 DEF FromLeft, FromRight
<1>12. IsSequence(w2 \o (w3 \o (w4 \o (w5 \o w6))))
  <2>1. PICK t, d : t = w2 \o (w3 \o (w4 \o (w5 \o w6))) /\ d = s2 \o (s3 \o (s4 \o (s5 \o s6)))
    OBVIOUS
  <2>2. Parses(t, d, port)
    BY <1>9, <2>1
  <2>3. IsSequence(t)
    BY ONLY <2>2, ParseSequences
  <2> QED
    BY <2>1, <2>3
<1> QED
  BY <1>1, <1>3, <1>4, <1>10, <1>11, <1>12

LEMMA FirstWait ==
  ASSUME NEW name, NEW n, NEW t, IsSequence(t), NEW x, x = Wait(name, n) \o t
  PROVE  /\ x # <<>> /\ Head(x).name = name /\ Head(x).len = n /\ Tail(x) = t
         /\ IsSequence(x)
<1>1. PICK e, w : e = [name |-> name, len |-> n] /\ w = Wait(name, n)
  OBVIOUS
<1>2. e.name = name /\ e.len = n
  BY <1>1
<1>3. w = <<e>>
  BY <1>1 DEF Wait
<1>4. IsSequence(w) /\ Len(w) = 1 /\ w[1] = e
  BY <1>3, OneSymbol
<1>5. x = w \o t
  BY <1>1
<1>6. /\ IsSequence(x) /\ Len(x) = 1 + Len(t) /\ Len(t) \in Nat
      /\ \A i \in 1..1 + Len(t) : x[i] = IF i <= 1 THEN w[i] ELSE t[i - 1]
  BY <1>4, <1>5, ConcatSequences
<1>7. x[1] = e
  <2>1. 1 \in 1..1 + Len(t)
    BY <1>6
  <2> QED
    BY <1>4, <1>6, <2>1
<1>8. x # <<>>
  BY <1>6, EmptySequence
<1>9. Head(x) = e
  <2>1. x \in Seq(ToSet(x))
    BY <1>6 DEF IsSequence
  <2>2. Head(x) = x[1]
    BY <1>8, <2>1
  <2> QED
    BY <1>7, <2>2
<1>10. Tail(x) = t
  <2>1. 1 \in 0..Len(x)
    BY <1>6
  <2>2. PICK r : r = SubSeq(x, 1 + 1, Len(x))
    OBVIOUS
  <2>3. IsSequence(r) /\ Len(r) = Len(x) - 1 /\ \A i \in 1..Len(x) - 1 : r[i] = x[1 + i]
    BY <1>6, <2>1, <2>2, RemainingSequence
  <2>4. Tail(x) = r
    BY <1>6, <2>2 DEF IsSequence
  <2>5. ASSUME NEW i \in 1..Len(r)
        PROVE  r[i] = t[i]
    <3>1. i \in 1..Len(x) - 1 /\ 1 + i \in 1..1 + Len(t) /\ ~(1 + i <= 1) /\ (1 + i) - 1 = i
      BY <1>6, <2>3, <2>5
    <3> QED
      BY <1>6, <2>3, <3>1
  <2>6. Len(r) = Len(t)
    BY <1>6, <2>3
  <2>7. r = t
    BY <2>3, <2>5, <2>6, SequencesEqual
  <2> QED
    BY <2>4, <2>7
<1> QED
  BY <1>2, <1>6, <1>8, <1>9, <1>10

LEMMA OnlyWait ==
  ASSUME NEW name, NEW n, NEW x, x = Wait(name, n)
  PROVE  /\ x # <<>> /\ Head(x).name = name /\ Head(x).len = n /\ Tail(x) = <<>>
<1>1. PICK w, e : w = Wait(name, n) /\ e = <<>>
  OBVIOUS
<1>2. IsSequence(w) /\ IsSequence(e)
  BY <1>1, WaitSequence, EmptySequence
<1>3. w = w \o e
  BY <1>1, <1>2, EmptyConcat
<1>4. x = Wait(name, n) \o e
  BY <1>1, <1>3
<1>5. /\ x # <<>> /\ Head(x).name = name /\ Head(x).len = n /\ Tail(x) = e
  BY ONLY <1>2, <1>4, FirstWait
<1> QED
  BY <1>1, <1>5

(* A server with a port of its own is read port first.                     *)
LEMMA PartsHead ==
  ASSUME session \in Sessions, session.kind = "sbv2", fields = session.fields,
         NEW byte, byte \in DOMAIN session.bits, "NONSTANDARD_PORT" \in session.bits[byte],
         NEW port, IsSequence(port)
  PROVE  Parts(byte) # <<>> /\ Head(Parts(byte)).name = "port"
<1>1. PICK t : IsSequence(t) /\ Parts(byte) = Optional("NONSTANDARD_PORT", byte, Wait("port", 2)) \o t
  BY ParseParts
<1>2. PICK name, x : name = "port" /\ x = Parts(byte)
  OBVIOUS
<1>3. x = Wait(name, 2) \o t
  BY <1>1, <1>2 DEF Optional
<1>4. x # <<>> /\ Head(x).name = name
  <2>1. IsSequence(t) /\ x = Wait(name, 2) \o t
    BY <1>1, <1>3
  <2> QED
    BY ONLY <2>1, FirstWait
<1> QED
  BY <1>2, <1>4

InnerRegroup(b, p, y, t) == ((b \o p) \o y) \o t = b \o (p \o (y \o t))

LEMMA InnerRegroups ==
  ASSUME NEW b, NEW p, NEW y, NEW t,
         IsSequence(b), IsSequence(p), IsSequence(y), IsSequence(t)
  PROVE  InnerRegroup(b, p, y, t)
<1>1. PICK bp, yt : bp = b \o p /\ yt = y \o t
  OBVIOUS
<1>2. IsSequence(bp) /\ IsSequence(yt)
  BY <1>1, ConcatType
<1>3. (bp \o y) \o t = bp \o (y \o t)
  BY ONLY <1>2, IsSequence(y), IsSequence(t), ConcatRegroups
<1>4. (b \o p) \o yt = b \o (p \o yt)
  BY ONLY <1>2, IsSequence(b), IsSequence(p), ConcatRegroups
<1> QED
  BY ONLY <1>1, <1>3, <1>4 DEF InnerRegroup

LEMMA OneSequence ==
  \A c : IsSequence(<<c>>) /\ Len(<<c>>) = 1 /\ <<c>>[1] = c
BY OneSymbol

LEMMA ValueSequences ==
  IsSequence(<<"v">>) /\ IsSequence(<<"v", "v">>) /\ Len(<<"v", "v">>) = 2
<1>1. PICK v : v = "v"
  OBVIOUS
<1>2. IsSequence(<<v>>) /\ IsSequence(<<v, v>>) /\ Len(<<v, v>>) = 2
  BY OneSymbol, TwoSymbols
<1> QED
  BY <1>1, <1>2

(* One server, as it is sent.                                              *)
LEMMA EntrySent ==
  ASSUME session \in Sessions, session.kind = "sbv2", NEW a, NEW byte, IsSequence(a.port)
  PROVE  /\ SentEntry(a, byte) = <<byte>> \o (<<a.host>> \o PartsSent(byte, a.port))
         /\ IsSequence(PartsSent(byte, a.port))
         /\ IsSequence(SentEntry(a, byte))
<1>1. PICK o1, o2, o3, o4, o5, o6 :
            /\ o1 = Optional("NONSTANDARD_PORT", byte, a.port)
            /\ o2 = Optional("PRIVATE_IP", byte, <<"v">>)
            /\ o3 = Optional("NONSTANDARD_PRIVATE_PORT", byte, <<"v", "v">>)
            /\ o4 = Optional("ICMP_IP", byte, <<"v">>)
            /\ o5 = Optional("HAS_KEYS", byte, FlattenSeq(KeyValues))
            /\ o6 = Optional("HAS_FULL_RULES", byte, RulesSent)
  OBVIOUS
<1>2. IsSequence(FlattenSeq(KeyValues)) /\ IsSequence(RulesSent)
  <2>1. Parses(<<>>, <<>>, a.port)
    BY ParseNothing
  <2>2. IsSequence(FlattenSeq(KeyValues))
    BY <2>1, ParseKeys
  <2> QED
    BY <2>2, RulesTaken
<1>3. /\ IsSequence(o1) /\ IsSequence(o2) /\ IsSequence(o3)
      /\ IsSequence(o4) /\ IsSequence(o5) /\ IsSequence(o6)
  BY <1>1, <1>2, ValueSequences, OptionalSequence
<1>4. PICK b, h, bh : b = <<byte>> /\ h = <<a.host>> /\ bh = <<byte, a.host>>
  OBVIOUS
<1>5. IsSequence(b) /\ IsSequence(h) /\ bh = b \o h
  <2>1. PICK host : host = a.host
    OBVIOUS
  <2>2. <<byte>> \o <<host>> = <<byte, host>>
    BY TwoSymbols
  <2> QED
    BY <1>4, <2>1, <2>2, OneSequence
<1>6. SentEntry(a, byte) = EightFromLeft(b, h, o1, o2, o3, o4, o5, o6)
  <2>1. FlattenSeq(KeyValues) = FlattenSeq([i \in 1..Len(session.fields) |->
                                              KeyValue(session.fields[i])])
    BY DEF KeyValues
  <2>2. SentEntry(a, byte) = bh \o o1 \o o2 \o o3 \o o4 \o o5 \o o6
    BY <1>1, <1>4, <2>1 DEF SentEntry, RulesSent
  <2> QED
    BY ONLY <1>5, <2>2 DEF EightFromLeft
<1>7. EightFromLeft(b, h, o1, o2, o3, o4, o5, o6) = EightFromRight(b, h, o1, o2, o3, o4, o5, o6)
  <2>1. /\ IsSequence(b) /\ IsSequence(h) /\ IsSequence(o1) /\ IsSequence(o2) /\ IsSequence(o3)
        /\ IsSequence(o4) /\ IsSequence(o5) /\ IsSequence(o6)
    BY <1>3, <1>5
  <2> QED
    BY ONLY <2>1, EightRegroup
<1>8. PICK p : p = o1 \o (o2 \o (o3 \o (o4 \o (o5 \o o6))))
  OBVIOUS
<1>9. PartsSent(byte, a.port) = p
  BY <1>1, <1>8 DEF PartsSent
<1>10. IsSequence(p)
  <2>1. PICK p5 : p5 = o5 \o o6
    OBVIOUS
  <2>2. IsSequence(p5)
    BY <1>3, <2>1, ConcatType
  <2>3. PICK p4 : p4 = o4 \o p5
    OBVIOUS
  <2>4. IsSequence(p4)
    BY <1>3, <2>2, <2>3, ConcatType
  <2>5. PICK p3 : p3 = o3 \o p4
    OBVIOUS
  <2>6. IsSequence(p3)
    BY <1>3, <2>4, <2>5, ConcatType
  <2>7. PICK p2 : p2 = o2 \o p3
    OBVIOUS
  <2>8. IsSequence(p2)
    BY <1>3, <2>6, <2>7, ConcatType
  <2>9. IsSequence(o1 \o p2)
    BY <1>3, <2>8, ConcatType
  <2> QED
    BY ONLY <1>8, <2>1, <2>3, <2>5, <2>7, <2>9
<1>11. SentEntry(a, byte) = b \o (h \o p)
  BY ONLY <1>6, <1>7, <1>8 DEF EightFromRight
<1>12. IsSequence(b \o (h \o p))
  <2>1. IsSequence(h \o p)
    BY <1>5, <1>10, ConcatType
  <2> QED
    BY <1>5, <2>1, ConcatType
<1> QED
  BY <1>4, <1>9, <1>10, <1>11, <1>12

LEMMA EntriesDueFacts ==
  ASSUME session \in Sessions, session.kind = "sbv2"
  PROVE  /\ \A k \in 0..Len(Listing) : IsSequence(EntriesDue(k))
         /\ \A k \in 0..Len(Listing) : k < Len(Listing) =>
              /\ IsSequence(PartsSent(session.flags[k + 1], Listing[k + 1].port))
              /\ EntriesDue(k) = <<session.flags[k + 1]>>
                   \o (<<Listing[k + 1].host>>
                   \o (PartsSent(session.flags[k + 1], Listing[k + 1].port) \o EntriesDue(k + 1)))
         /\ EntriesDue(Len(Listing)) = <<Zero>> \o <<Last255>>
         /\ EntriesDue(0) = FlattenSeq(SentEntries) \o <<Zero, Last255>>
         /\ IsSequence(FlattenSeq(SentEntries)) /\ IsSequence(<<Zero, Last255>>)
<1>1. PICK n, S, e : n = Len(Listing) /\ S = SentEntries /\ e = <<Zero, Last255>>
  OBVIOUS
<1>2. n \in Nat /\ S = [i \in 1..n |-> S[i]]
      /\ \A i \in 1..n : S[i] = SentEntry(Listing[i], session.flags[i])
  BY <1>1, ListingFacts DEF SentEntries
<1>3. IsSequence(e) /\ e = <<Zero>> \o <<Last255>>
  BY <1>1, TwoSymbols
<1>4. ASSUME NEW i \in 1..n
      PROVE  /\ IsSequence(S[i]) /\ IsSequence(PartsSent(session.flags[i], Listing[i].port))
             /\ S[i] = <<session.flags[i]>>
                  \o (<<Listing[i].host>> \o PartsSent(session.flags[i], Listing[i].port))
  <2>1. PICK a, byte : a = Listing[i] /\ byte = session.flags[i]
    OBVIOUS
  <2>2. IsSequence(a.port)
    BY <1>1, <2>1, ListingFacts, SequenceOf
  <2>3. /\ SentEntry(a, byte) = <<byte>> \o (<<a.host>> \o PartsSent(byte, a.port))
        /\ IsSequence(PartsSent(byte, a.port))
        /\ IsSequence(SentEntry(a, byte))
    BY <2>2, EntrySent
  <2> QED
    BY <1>2, <2>1, <2>3
<1>5. \A i \in 1..n : IsSequence(S[i])
  BY <1>4
<1>6. /\ \A k \in 0..n : IsSequence(Behind(S, k))
      /\ \A k \in 0..n : k < n => Behind(S, k) = S[k + 1] \o Behind(S, k + 1)
      /\ Behind(S, n) = <<>> /\ Behind(S, 0) = FlattenSeq(S)
  BY ONLY <1>2, <1>5, BehindFacts
<1>7. \A k : EntriesDue(k) = Behind(S, k) \o e
  BY <1>1 DEF EntriesDue
<1>8. \A k \in 0..n : IsSequence(EntriesDue(k))
  BY <1>3, <1>6, <1>7, ConcatType
<1>9. ASSUME NEW k \in 0..n, k < n
      PROVE  /\ IsSequence(PartsSent(session.flags[k + 1], Listing[k + 1].port))
             /\ EntriesDue(k) = <<session.flags[k + 1]>>
                  \o (<<Listing[k + 1].host>>
                  \o (PartsSent(session.flags[k + 1], Listing[k + 1].port) \o EntriesDue(k + 1)))
  <2>1. k + 1 \in 1..n /\ k + 1 \in 0..n
    BY <1>2, <1>9
  <2>2. PICK b, h, p, y : /\ b = <<session.flags[k + 1]>> /\ h = <<Listing[k + 1].host>>
                          /\ p = PartsSent(session.flags[k + 1], Listing[k + 1].port)
                          /\ y = Behind(S, k + 1)
    OBVIOUS
  <2>3. /\ IsSequence(p) /\ S[k + 1] = b \o (h \o p) /\ IsSequence(y)
        /\ IsSequence(b) /\ IsSequence(h)
    BY <1>4, <1>6, <2>1, <2>2, OneSequence
  <2>4. PICK hp, ye : hp = h \o p /\ ye = y \o e
    OBVIOUS
  <2>5. IsSequence(hp) /\ IsSequence(ye)
    BY <1>3, <2>3, <2>4, ConcatType
  <2>6. ((b \o hp) \o y) \o e = b \o (hp \o (y \o e))
    <3>1. IsSequence(b) /\ IsSequence(hp) /\ IsSequence(y) /\ IsSequence(e)
      BY <1>3, <2>3, <2>5
    <3>2. InnerRegroup(b, hp, y, e)
      BY ONLY <3>1, InnerRegroups
    <3> QED
      BY <3>2 DEF InnerRegroup
  <2>7. (h \o p) \o ye = h \o (p \o ye)
    <3>1. IsSequence(h) /\ IsSequence(p) /\ IsSequence(ye)
      BY <2>3, <2>5
    <3> QED
      BY ONLY <3>1, ConcatRegroups
  <2>8. EntriesDue(k) = ((b \o hp) \o y) \o e
    BY <1>6, <1>7, <1>9, <2>1, <2>2, <2>3, <2>4
  <2>9. EntriesDue(k + 1) = ye
    BY <1>7, <2>2, <2>4
  <2>10. EntriesDue(k) = b \o (h \o (p \o EntriesDue(k + 1)))
    BY ONLY <2>4, <2>6, <2>7, <2>8, <2>9
  <2> QED
    BY <2>2, <2>3, <2>10
<1>10. EntriesDue(n) = e
  <2>1. <<>> \o e = e
    BY <1>3, EmptyConcat
  <2> QED
    BY <1>6, <1>7, <2>1
<1>11. IsSequence(FlattenSeq(S)) /\ EntriesDue(0) = FlattenSeq(S) \o e
  <2>1. 0 \in 0..n
    BY <1>2
  <2> QED
    BY <1>6, <1>7, <2>1
<1> QED
  BY <1>1, <1>3, <1>8, <1>9, <1>10, <1>11
LEMMA TypesDueFacts ==
  ASSUME session \in Sessions, session.kind = "sbv2", NEW n, n = Len(session.fields)
  PROVE  /\ \A i \in 0..n : IsSequence(TypesDue(i)) /\ IsSequence(TypesTodo(i))
         /\ \A i \in 0..n : i < n =>
              /\ TypesDue(i) = <<session.fields[i + 1]>> \o (Text \o TypesDue(i + 1))
              /\ TypesTodo(i) = Wait("field type", 1) \o (Wait("field name", 1) \o TypesTodo(i + 1))
         /\ TypesDue(n) = <<session.popular>> \o EntriesDue(0)
         /\ TypesTodo(n) = Wait("num popular", 1) \o EntryStart
         /\ TypesDue(0) = FlattenSeq(SentTypes) \o (<<session.popular>> \o EntriesDue(0))
         /\ TypesTodo(0) = FlattenSeq(TypeWaits) \o (Wait("num popular", 1) \o EntryStart)
         /\ IsSequence(FlattenSeq(SentTypes)) /\ IsSequence(FlattenSeq(TypeWaits))
<1>1. PICK S, T, e, w : /\ S = SentTypes /\ T = TypeWaits
                        /\ e = <<session.popular>> \o EntriesDue(0)
                        /\ w = Wait("num popular", 1) \o EntryStart
  OBVIOUS
<1>2. /\ n \in Nat /\ S = [i \in 1..n |-> S[i]] /\ T = [i \in 1..n |-> T[i]]
      /\ \A i \in 1..n : S[i] = <<session.fields[i]>> \o Text
      /\ \A i \in 1..n : T[i] = Wait("field type", 1) \o Wait("field name", 1)
  <2>1. n \in Nat
    BY SBV2Facts
  <2>2. S = [i \in 1..n |-> <<session.fields[i]>> \o Text]
    BY <1>1, StringSent DEF SentTypes, Text
  <2>3. T = [i \in 1..n |-> Wait("field type", 1) \o Wait("field name", 1)]
    BY <1>1 DEF TypeWaits
  <2> QED
    BY <2>1, <2>2, <2>3
<1>3. IsSequence(e) /\ IsSequence(w)
  <2>1. PICK p, q : p = <<session.popular>> /\ q = EntriesDue(0)
    OBVIOUS
  <2>2. IsSequence(p)
    BY <2>1, OneSequence
  <2>3. IsSequence(q)
    <3>1. 0 \in 0..Len(Listing)
      BY ListingFacts
    <3> QED
      BY <2>1, <3>1, EntriesDueFacts
  <2>4. IsSequence(p \o q)
    BY <2>2, <2>3, ConcatType
  <2>5. PICK x, y, z : x = Wait("num popular", 1) /\ y = Wait("flags", 1) /\ z = Wait("ip", 1)
    OBVIOUS
  <2>6. IsSequence(x) /\ IsSequence(y) /\ IsSequence(z)
    BY <2>5, WaitSequence
  <2>7. IsSequence(y \o z)
    BY <2>6, ConcatType
  <2>8. PICK yz : yz = y \o z
    OBVIOUS
  <2>9. IsSequence(x \o yz)
    BY <2>6, <2>7, <2>8, ConcatType
  <2> QED
    BY <1>1, <2>1, <2>4, <2>5, <2>8, <2>9 DEF EntryStart
<1>4. PICK ft, fn : ft = Wait("field type", 1) /\ fn = Wait("field name", 1)
  OBVIOUS
<1>5. IsSequence(ft) /\ IsSequence(fn) /\ IsSequence(Text)
  BY <1>4, WaitSequence, TextFacts
<1>6. ASSUME NEW i \in 1..n
      PROVE  IsSequence(S[i]) /\ IsSequence(T[i])
  <2>1. PICK f, x : f = <<session.fields[i]>> /\ x = Text
    OBVIOUS
  <2>2. IsSequence(f \o x)
    BY <1>5, <2>1, OneSequence, ConcatType
  <2>3. IsSequence(ft \o fn)
    BY <1>5, ConcatType
  <2> QED
    BY <1>2, <1>4, <2>1, <2>2, <2>3
<1>7. /\ \A k \in 0..n : IsSequence(Behind(S, k))
      /\ \A k \in 0..n : k < n => Behind(S, k) = S[k + 1] \o Behind(S, k + 1)
      /\ Behind(S, n) = <<>> /\ Behind(S, 0) = FlattenSeq(S)
  <2>1. \A i \in 1..n : IsSequence(S[i])
    BY <1>6
  <2> QED
    BY ONLY <1>2, <2>1, BehindFacts
<1>8. /\ \A k \in 0..n : IsSequence(Behind(T, k))
      /\ \A k \in 0..n : k < n => Behind(T, k) = T[k + 1] \o Behind(T, k + 1)
      /\ Behind(T, n) = <<>> /\ Behind(T, 0) = FlattenSeq(T)
  <2>1. \A i \in 1..n : IsSequence(T[i])
    BY <1>6
  <2> QED
    BY ONLY <1>2, <2>1, BehindFacts
<1>9. \A k : TypesDue(k) = Behind(S, k) \o e /\ TypesTodo(k) = Behind(T, k) \o w
  BY <1>1 DEF TypesDue, TypesTodo
<1>10. \A k \in 0..n : IsSequence(TypesDue(k)) /\ IsSequence(TypesTodo(k))
  BY <1>3, <1>7, <1>8, <1>9, ConcatType
<1>11. ASSUME NEW i \in 0..n, i < n
       PROVE  /\ TypesDue(i) = <<session.fields[i + 1]>> \o (Text \o TypesDue(i + 1))
              /\ TypesTodo(i) = ft \o (fn \o TypesTodo(i + 1))
  <2>1. i + 1 \in 1..n /\ i + 1 \in 0..n
    <3>1. n \in Nat
      BY <1>2
    <3> QED
      BY ONLY <1>11, <3>1
  <2>2. PICK f, x, y, z : /\ f = <<session.fields[i + 1]>> /\ x = Text
                          /\ y = Behind(S, i + 1) /\ z = Behind(T, i + 1)
    OBVIOUS
  <2>3. IsSequence(f) /\ IsSequence(x) /\ IsSequence(y) /\ IsSequence(z)
    BY <1>5, <1>7, <1>8, <2>1, <2>2, OneSequence
  <2>4. InnerRegroup(f, x, y, e)
    <3>1. IsSequence(f) /\ IsSequence(x) /\ IsSequence(y) /\ IsSequence(e)
      BY <1>3, <2>3
    <3> QED
      BY ONLY <3>1, InnerRegroups
  <2>5. InnerRegroup(ft, fn, z, w)
    <3>1. IsSequence(ft) /\ IsSequence(fn) /\ IsSequence(z) /\ IsSequence(w)
      BY <1>3, <1>5, <2>3
    <3> QED
      BY ONLY <3>1, InnerRegroups
  <2>6. TypesDue(i) = ((f \o x) \o y) \o e
    BY <1>2, <1>7, <1>9, <1>11, <2>1, <2>2
  <2>7. TypesTodo(i) = ((ft \o fn) \o z) \o w
    BY <1>2, <1>4, <1>8, <1>9, <1>11, <2>1, <2>2
  <2>8. TypesDue(i + 1) = y \o e /\ TypesTodo(i + 1) = z \o w
    BY <1>9, <2>2
  <2>9. TypesDue(i) = f \o (x \o TypesDue(i + 1))
    BY ONLY <2>4, <2>6, <2>8 DEF InnerRegroup
  <2>10. TypesTodo(i) = ft \o (fn \o TypesTodo(i + 1))
    BY ONLY <2>5, <2>7, <2>8 DEF InnerRegroup
  <2> QED
    BY <2>2, <2>9, <2>10
<1>12. TypesDue(n) = e /\ TypesTodo(n) = w
  <2>1. <<>> \o e = e /\ <<>> \o w = w
    BY <1>3, EmptyConcat
  <2> QED
    BY <1>7, <1>8, <1>9, <2>1
<1>13. /\ IsSequence(FlattenSeq(S)) /\ TypesDue(0) = FlattenSeq(S) \o e
       /\ IsSequence(FlattenSeq(T)) /\ TypesTodo(0) = FlattenSeq(T) \o w
  <2>1. 0 \in 0..n
    <3>1. n \in Nat
      BY <1>2
    <3> QED
      BY ONLY <3>1
  <2> QED
    BY <1>7, <1>8, <1>9, <2>1
<1> QED
  BY <1>1, <1>4, <1>10, <1>11, <1>12, <1>13
(* What the server answers is what the reader waits for, field by field.   *)
LEMMA ResponseParts ==
  ASSUME session \in Sessions, session.kind = "sbv2"
  PROVE  /\ Response = <<"1">> \o (<<"v">> \o (<<"2">> \o (<<"v", "v">> \o KeyedPart)))
         /\ IsSequence(KeyedPart) /\ IsSequence(FieldsPart)
<1>1. PICK a, v, p, c, t, o, g, z :
            /\ a = <<"1", "v", "2", "v", "v">> /\ v = <<"v">> /\ p = session.defaultPort
            /\ c = <<Numerals[Len(session.fields) + 1]>> /\ t = FlattenSeq(SentTypes)
            /\ o = <<session.popular>> /\ g = FlattenSeq(SentEntries) /\ z = <<Zero, Last255>>
  OBVIOUS
<1>2. PICK a1, a2, vv : a1 = <<"1">> /\ a2 = <<"2">> /\ vv = <<"v", "v">>
  OBVIOUS
<1>3. /\ IsSequence(v) /\ IsSequence(p) /\ IsSequence(c) /\ IsSequence(t) /\ IsSequence(o)
      /\ IsSequence(g) /\ IsSequence(z)
  BY <1>1, OneSequence, SBV2Facts, EntriesDueFacts, TypesDueFacts
<1>4. IsSequence(a1) /\ IsSequence(a2) /\ IsSequence(vv)
  BY <1>2, OneSequence, ValueSequences
<1>5. PICK b2 : b2 = a2 \o vv
  OBVIOUS
<1>6. PICK b1 : b1 = v \o b2
  OBVIOUS
<1>7. IsSequence(b2)
  BY <1>4, <1>5, ConcatType
<1>8. IsSequence(b1)
  BY <1>3, <1>6, <1>7, ConcatType
<1>9. a = a1 \o b1
  <2>1. <<"1", "v", "2", "v", "v">> = <<"1">> \o (<<"v">> \o (<<"2">> \o <<"v", "v">>))
    BY FiveSymbols
  <2> QED
    BY <1>1, <1>2, <1>5, <1>6, <2>1
<1>10. IsSequence(a)
  BY <1>4, <1>8, <1>9, ConcatType
<1>11. Response = EightFromLeft(a, v, p, c, t, o, g, z)
  <2>1. SentTypes = [i \in 1..Len(session.fields) |-> <<session.fields[i]>> \o NTS(<<"v">>)]
    BY DEF SentTypes
  <2>2. SentEntries = [i \in 1..Len(Listing) |-> SentEntry(Listing[i], session.flags[i])]
    BY DEF SentEntries
  <2> QED
    BY <1>1, <2>1, <2>2 DEF Response, EightFromLeft
<1>12. EightFromLeft(a, v, p, c, t, o, g, z) = EightFromRight(a, v, p, c, t, o, g, z)
  <2>1. /\ IsSequence(a) /\ IsSequence(v) /\ IsSequence(p) /\ IsSequence(c) /\ IsSequence(t)
        /\ IsSequence(o) /\ IsSequence(g) /\ IsSequence(z)
    BY <1>3, <1>10
  <2> QED
    BY ONLY <2>1, EightRegroup
<1>13. PICK f, k : f = FieldsPart /\ k = KeyedPart
  OBVIOUS
<1>14. f = c \o (t \o (o \o (g \o z))) /\ k = v \o (p \o f)
  <2>1. EntriesDue(0) = g \o z
    BY <1>1, EntriesDueFacts
  <2>2. TypesDue(0) = t \o (o \o (g \o z))
    BY <1>1, <2>1, TypesDueFacts
  <2> QED
    BY <1>1, <1>13, <2>2 DEF FieldsPart, KeyedPart
<1>15. Response = a \o k
  BY ONLY <1>11, <1>12, <1>14 DEF EightFromRight
<1>16. IsSequence(f)
  <2>1. IsSequence(TypesDue(0))
    <3>1. Len(session.fields) \in Nat
      BY SBV2Facts
    <3>2. PICK n : n = Len(session.fields)
      OBVIOUS
    <3>3. 0 \in 0..n
      BY ONLY <3>1, <3>2
    <3> QED
      BY <3>2, <3>3, TypesDueFacts
  <2>2. PICK y : y = TypesDue(0)
    OBVIOUS
  <2>3. IsSequence(c \o y)
    BY <1>3, <2>1, <2>2, ConcatType
  <2> QED
    BY <1>1, <1>13, <2>2, <2>3 DEF FieldsPart
<1>17. IsSequence(k)
  <2>1. IsSequence(p \o f)
    BY <1>3, <1>16, ConcatType
  <2>2. IsSequence(v \o (p \o f))
    BY <1>3, <2>1, ConcatType
  <2> QED
    BY <1>14, <2>2
<1>18. (a1 \o b1) \o k = a1 \o (b1 \o k)
  BY ONLY <1>4, <1>8, <1>17, ConcatRegroups
<1>20. (v \o b2) \o k = v \o (b2 \o k) /\ (a2 \o vv) \o k = a2 \o (vv \o k)
  <2>1. IsSequence(v) /\ IsSequence(b2) /\ IsSequence(k) /\ IsSequence(a2) /\ IsSequence(vv)
    BY <1>3, <1>4, <1>7, <1>17
  <2>2. (v \o b2) \o k = v \o (b2 \o k)
    BY ONLY <2>1, ConcatRegroups
  <2>3. (a2 \o vv) \o k = a2 \o (vv \o k)
    BY ONLY <2>1, ConcatRegroups
  <2> QED
    BY ONLY <2>2, <2>3
<1>21. Response = a1 \o (v \o (a2 \o (vv \o k)))
  BY ONLY <1>5, <1>6, <1>9, <1>15, <1>18, <1>20
<1> QED
  BY <1>1, <1>2, <1>13, <1>16, <1>17, <1>21

-----------------------------------------------------------------------------
(* Where the reader stands: what it still waits for, t, and what is still  *)
(* to come for it, d, as long as no Read fails and nothing is garbled.     *)

AtHeader(t, d) ==
  \/ /\ t = Wait("random length", 1)
     /\ d = <<"1">> \o (<<"v">> \o (<<"2">> \o (<<"v", "v">> \o KeyedPart)))
  \/ /\ t = Wait("random", 1) \o Wait("key length", 1)
     /\ d = <<"v">> \o (<<"2">> \o (<<"v", "v">> \o KeyedPart))
  \/ t = Wait("key length", 1) /\ d = <<"2">> \o (<<"v", "v">> \o KeyedPart)
  \/ t = Wait("key", 2) /\ d = <<"v", "v">> \o KeyedPart
  \/ /\ t = Wait("public ip", 1) \o (Wait("default port", 2) \o Wait("num fields", 1))
     /\ d = KeyedPart
  \/ /\ t = Wait("default port", 2) \o Wait("num fields", 1)
     /\ d = session.defaultPort \o FieldsPart

(* n of the key types are known. *)
KnownTypes(fs, n) == IsSequence(fs) /\ Len(fs) = n /\ \A i \in 1..n : fs[i] = session.fields[i]

AtTypes(t, d, n) ==
  \/ t = Wait("num fields", 1) /\ d = FieldsPart /\ n = 0
  \/ t = TypesTodo(n) /\ d = TypesDue(n)
  \/ /\ t = Wait("field name", 1) \o TypesTodo(n)
     /\ d = Text \o TypesDue(n) \/ d = <<Zero>> \o TypesDue(n)

(* The host of a server a has been read, and the port unless it is next. *)
AtPart(t, d, h, q, a, k) ==
  /\ t # <<>> /\ h = a.host
  /\ Head(t).name = "port" \/ q = a.port
  /\ \E c : Parses(t, c, a.port) /\ d = c \o EntriesDue(k)

(* k servers were handled. *)
AtEntries(t, d, b, h, q, k) ==
  \/ t = EntryStart /\ d = EntriesDue(k)
  \/ /\ k < Len(Listing) /\ t = Wait("ip", 1)
     /\ b = session.flags[k + 1] /\ q = session.defaultPort
     /\ d = <<Listing[k + 1].host>> \o (PartsSent(b, Listing[k + 1].port) \o EntriesDue(k + 1))
  \/ k = Len(Listing) /\ t = Wait("ip", 1) /\ d = <<Last255>>
  \/ k < Len(Listing) /\ AtPart(t, d, h, q, Listing[k + 1], k + 1)

Place(t, d, fs, b, h, q, dp, k) ==
  \/ AtHeader(t, d) /\ fs = <<>> /\ k = 0
  \/ /\ dp = session.defaultPort /\ k = 0
     /\ \E n \in 0..Len(session.fields) : KnownTypes(fs, n) /\ AtTypes(t, d, n)
  \/ /\ dp = session.defaultPort /\ fs = session.fields /\ k \in 0..Len(Listing)
     /\ AtEntries(t, d, b, h, q, k)

PlaceStays(t, d, fs, b, h, q, dp, k) == Place(t, d, fs, b, h, q, dp, k) => Place(t, d, fs, b, h, q, dp, k)'

LEMMA SamePlace ==
  ASSUME session' = session, NEW t, NEW d, NEW fs, NEW b, NEW h, NEW q, NEW dp, NEW k
  PROVE  PlaceStays(t, d, fs, b, h, q, dp, k)
<1>1. /\ SentTypes' = SentTypes /\ SentEntries' = SentEntries
  BY DEF SentTypes, SentEntries, SentEntry, Optional, KeyValue
<1>2. \A i : EntriesDue(i)' = EntriesDue(i)
  BY <1>1 DEF EntriesDue, Behind
<1>3. /\ \A i : TypesDue(i)' = TypesDue(i) /\ TypesTodo(i)' = TypesTodo(i)
      /\ FieldsPart' = FieldsPart /\ KeyedPart' = KeyedPart
      /\ \A x, y : PartsSent(x, y)' = PartsSent(x, y)
  <2>1. \A i : TypesDue(i)' = TypesDue(i)
    BY <1>1, <1>2 DEF TypesDue, Behind
  <2>2. \A i : TypesTodo(i)' = TypesTodo(i)
    BY DEF TypesTodo, TypeWaits, Behind
  <2>3. FieldsPart' = FieldsPart
    BY <2>1 DEF FieldsPart
  <2>4. KeyedPart' = KeyedPart
    BY <2>3 DEF KeyedPart
  <2>5. \A x, y : PartsSent(x, y)' = PartsSent(x, y)
    BY DEF PartsSent, Optional, KeyValues, RulesSent
  <2> QED
    BY <2>1, <2>2, <2>3, <2>4, <2>5
<1>4. AtHeader(t, d) => AtHeader(t, d)'
  BY <1>3 DEF AtHeader
<1>5. \A n : KnownTypes(fs, n) => KnownTypes(fs, n)'
  BY DEF KnownTypes
<1>6. \A n : AtTypes(t, d, n) => AtTypes(t, d, n)'
  BY <1>3 DEF AtTypes
<1>7. \A a, i : AtPart(t, d, h, q, a, i) => AtPart(t, d, h, q, a, i)'
  BY <1>2 DEF AtPart
<1>8. \A i : AtEntries(t, d, b, h, q, i) => AtEntries(t, d, b, h, q, i)'
  BY <1>2, <1>3, <1>7 DEF AtEntries
<1>9. Place(t, d, fs, b, h, q, dp, k) => Place(t, d, fs, b, h, q, dp, k)'
  BY <1>4, <1>5, <1>6, <1>8 DEF Place
<1> QED
  BY <1>9 DEF PlaceStays

(* What a field that is taken in leaves behind. *)
ByteAfter(f, data, b) == IF f = "flags" THEN data[1] ELSE b
HostAfter(f, data, h) == IF f = "ip" THEN data[1] ELSE h
PortAfter(f, data, q) ==
  IF f = "flags" THEN defaultPort ELSE IF f = "port" THEN data ELSE q

FieldsAfter(f, data) == IF f = "field type" THEN Append(fields, data[1]) ELSE fields
DefaultAfter(f, data) == IF f = "default port" THEN data ELSE defaultPort

EntryIs(b, h, q) == entry = [byte |-> b, host |-> h, port |-> q]

TakenAs(f, data, next, b, h, q) ==
  /\ pc' = pc
  /\ fields' = FieldsAfter(f, data)
  /\ defaultPort' = DefaultAfter(f, data)
  /\ entry' = [byte |-> ByteAfter(f, data, b), host |-> HostAfter(f, data, h),
               port |-> PortAfter(f, data, q)]
  /\ IF next = <<>>
       THEN /\ todo' = EntryStart
            /\ handled' = Append(handled, [host |-> HostAfter(f, data, h),
                                           port |-> PortAfter(f, data, q)])
       ELSE todo' = next /\ handled' = handled

LEMMA FieldTaken ==
  ASSUME NEW f, NEW n, NEW rest, IsSequence(rest), todo = Wait(f, n) \o rest,
         NEW b, NEW h, NEW q, EntryIs(b, h, q), ~gotFatalError,
         NEW data, data # <<>>, Arrives(data),
         ~(f = "num popular" /\ data[1] # Zero), ~(f = "ip" /\ data[1] = Last255),
         ~(f = "string index" /\ data[1] # NotAString),
         NEW next, next = After(f, data, rest)
  PROVE  TakenAs(f, data, next, b, h, q)
<1>1. Head(todo).name = f /\ Tail(todo) = rest
  <2>1. PICK x : x = todo
    OBVIOUS
  <2>2. IsSequence(rest) /\ x = Wait(f, n) \o rest
    BY <2>1
  <2>3. Head(x).name = f /\ Tail(x) = rest
    BY ONLY <2>2, FirstWait
  <2> QED
    BY <2>1, <2>3
<1>2. ~Quits(f, data)
  BY DEF Quits
<1>3. /\ fields' = IF f = "field type" THEN Append(fields, data[1]) ELSE fields
      /\ defaultPort' = IF f = "default port" THEN data ELSE defaultPort
      /\ entry' = CASE f = "flags" -> [entry EXCEPT !.byte = data[1], !.port = defaultPort]
                    [] f = "ip"    -> [entry EXCEPT !.host = data[1]]
                    [] f = "port"  -> [entry EXCEPT !.port = data]
                    [] OTHER       -> entry
      /\ GoOn(next)
  BY <1>1, <1>2, Zenon DEF Arrives
<1>4. entry' = [byte |-> ByteAfter(f, data, b), host |-> HostAfter(f, data, h),
                port |-> PortAfter(f, data, q)]
  <2>1. PICK x, p : x = data[1] /\ p = defaultPort
    OBVIOUS
  <2>2. entry = [byte |-> b, host |-> h, port |-> q]
    BY DEF EntryIs
  <2>3. CASE f = "flags"
    <3>1. entry' = [entry EXCEPT !.byte = x, !.port = p]
      BY <1>3, <2>1, <2>3, Zenon
    <3>2. PICK e : e = entry'
      OBVIOUS
    <3>3. e = [byte |-> x, host |-> h, port |-> p]
      BY <2>2, <3>1, <3>2
    <3> QED
      BY <2>1, <2>3, <3>2, <3>3, Zenon DEF ByteAfter, HostAfter, PortAfter
  <2>4. CASE f = "ip"
    <3>1. entry' = [entry EXCEPT !.host = x]
      BY <1>3, <2>1, <2>4, Zenon
    <3>2. entry' = [byte |-> b, host |-> x, port |-> q]
      BY <2>2, <3>1
    <3> QED
      BY <2>1, <2>4, <3>2, Zenon DEF ByteAfter, HostAfter, PortAfter
  <2>5. CASE f = "port"
    <3>1. entry' = [entry EXCEPT !.port = data]
      BY <1>3, <2>5, Zenon
    <3>2. entry' = [byte |-> b, host |-> h, port |-> data]
      BY <2>2, <3>1
    <3> QED
      BY <2>5, <3>2, Zenon DEF ByteAfter, HostAfter, PortAfter
  <2>6. CASE f \notin {"flags", "ip", "port"}
    <3>1. entry' = entry
      BY <1>3, <2>6, Zenon
    <3> QED
      BY <2>2, <2>6, <3>1, Zenon DEF ByteAfter, HostAfter, PortAfter
  <2> QED
    BY <2>3, <2>4, <2>5, <2>6
<1>5. entry'.host = HostAfter(f, data, h) /\ entry'.port = PortAfter(f, data, q)
  <2>1. PICK x, y, z, e : /\ x = ByteAfter(f, data, b) /\ y = HostAfter(f, data, h)
                          /\ z = PortAfter(f, data, q) /\ e = entry'
    OBVIOUS
  <2>2. e = [byte |-> x, host |-> y, port |-> z]
    BY <1>4, <2>1
  <2>3. e.host = y /\ e.port = z
    BY ONLY <2>2
  <2> QED
    BY <2>1, <2>3
<1>6. /\ pc' = pc
      /\ next = <<>> => /\ todo' = EntryStart
                        /\ handled' = Append(handled, [host |-> entry'.host, port |-> entry'.port])
      /\ next # <<>> => todo' = next /\ handled' = handled
  BY <1>3 DEF GoOn, Handle
<1> QED
  BY <1>3, <1>4, <1>5, <1>6, Zenon DEF TakenAs, FieldsAfter, DefaultAfter

LEMMA AfterString ==
  ASSUME NEW f \in Strings, NEW data, NEW rest
  PROVE  After(f, data, rest) = IF data[1] = Zero THEN rest ELSE todo
BY Zenon DEF After, Strings

LEMMA AfterRules ==
  ASSUME NEW f \in {"rules", "next rule"}, NEW data, NEW rest
  PROVE  After(f, data, rest) =
           IF data[1] = Zero
             THEN rest
             ELSE Wait("rule", 1) \o Wait("value", 1) \o Wait("next rule", 1)
BY Zenon DEF After, Strings
(* What a field that came from the master server leads to.                 *)
Lands(d) ==
  \/ /\ pc' = pc
     /\ \E b, h, q :
          /\ entry' = [byte |-> b, host |-> h, port |-> q]
          /\ Place(todo', d, fields', b, h, q, defaultPort', Len(handled'))
     /\ \/ handled' = handled
        \/ /\ Len(handled) < Len(Listing)
           /\ handled' = Append(handled, Listing[Len(handled) + 1])
  \/ /\ pc' = "done" /\ handled' = handled
     /\ session.popular = Zero => Len(handled) = Len(Listing)

Advances(d) ==
  \E s, r : /\ d = s \o r /\ IsSequence(s) /\ IsSequence(r)
            /\ Len(s) = Need /\ s # <<>>
            /\ Arrives(s) => Lands(r)

(* What the reader is going to wait for next is what comes next.           *)
Follows(f, s, next, r, b, h, q) ==
  \/ /\ next # <<>>
     /\ Place(next, r, FieldsAfter(f, s), ByteAfter(f, s, b), HostAfter(f, s, h),
              PortAfter(f, s, q), DefaultAfter(f, s), Len(handled))
  \/ /\ next = <<>>
     /\ Len(handled) < Len(Listing)
     /\ Listing[Len(handled) + 1] = [host |-> HostAfter(f, s, h), port |-> PortAfter(f, s, q)]
     /\ Place(EntryStart, r, FieldsAfter(f, s), ByteAfter(f, s, b), HostAfter(f, s, h),
              PortAfter(f, s, q), DefaultAfter(f, s), Len(handled) + 1)

LEMMA TakenLands ==
  ASSUME IsSequence(handled), NEW f, NEW s, NEW next, NEW r, NEW b, NEW h, NEW q,
         TakenAs(f, s, next, b, h, q), Follows(f, s, next, r, b, h, q)
  PROVE  Lands(r)
<1>1. PICK x, y, z : x = ByteAfter(f, s, b) /\ y = HostAfter(f, s, h) /\ z = PortAfter(f, s, q)
  OBVIOUS
<1>2. /\ pc' = pc /\ fields' = FieldsAfter(f, s) /\ defaultPort' = DefaultAfter(f, s)
      /\ entry' = [byte |-> x, host |-> y, port |-> z]
  BY <1>1 DEF TakenAs
<1>3. CASE next = <<>>
  <2>1. PICK a : a = Listing[Len(handled) + 1]
    OBVIOUS
  <2>2. todo' = EntryStart /\ handled' = Append(handled, a)
    <3>1. /\ todo' = EntryStart
          /\ handled' = Append(handled, [host |-> HostAfter(f, s, h), port |-> PortAfter(f, s, q)])
      BY <1>3 DEF TakenAs
    <3>2. a = [host |-> HostAfter(f, s, h), port |-> PortAfter(f, s, q)]
      BY <1>3, <2>1 DEF Follows
    <3> QED
      BY ONLY <3>1, <3>2
  <2>3. Len(handled') = Len(handled) + 1
    BY <2>2, AppendSequence
  <2>4. /\ Len(handled) < Len(Listing)
        /\ Place(EntryStart, r, FieldsAfter(f, s), x, y, z, DefaultAfter(f, s), Len(handled) + 1)
    BY <1>1, <1>3 DEF Follows
  <2>5. Place(todo', r, fields', x, y, z, defaultPort', Len(handled'))
    BY ONLY <1>2, <2>2, <2>3, <2>4
  <2> QED
    BY <1>2, <2>1, <2>2, <2>4, <2>5, Zenon DEF Lands
<1>4. CASE next # <<>>
  <2>1. todo' = next /\ handled' = handled
    BY <1>4 DEF TakenAs
  <2>2. Place(next, r, FieldsAfter(f, s), x, y, z, DefaultAfter(f, s), Len(handled))
    BY <1>1, <1>4 DEF Follows
  <2>3. Place(todo', r, fields', x, y, z, defaultPort', Len(handled'))
    BY ONLY <1>2, <2>1, <2>2
  <2> QED
    BY <1>2, <2>1, <2>3, Zenon DEF Lands
<1> QED
  BY <1>3, <1>4

(* A field of length n is waited for, and s comes, nothing to stop at.     *)
Comes(f, n, rest, s, r) ==
  /\ IsSequence(rest) /\ todo = Wait(f, n) \o rest
  /\ IsSequence(s) /\ Len(s) = n /\ n # 0 /\ IsSequence(r)
  /\ ~(f = "num popular" /\ s[1] # Zero)
  /\ ~(f = "ip" /\ s[1] = Last255)
  /\ ~(f = "string index" /\ s[1] # NotAString)

LEMMA FieldAdvances ==
  ASSUME IsSequence(handled), ~gotFatalError, NEW b, NEW h, NEW q, EntryIs(b, h, q),
         NEW f, NEW n, NEW rest, NEW s, NEW r, Comes(f, n, rest, s, r),
         NEW next, next = After(f, s, rest), Follows(f, s, next, r, b, h, q)
  PROVE  Advances(s \o r)
<1>0. /\ IsSequence(rest) /\ todo = Wait(f, n) \o rest
      /\ IsSequence(s) /\ Len(s) = n /\ n # 0 /\ IsSequence(r)
      /\ ~(f = "num popular" /\ s[1] # Zero)
      /\ ~(f = "ip" /\ s[1] = Last255)
      /\ ~(f = "string index" /\ s[1] # NotAString)
  BY DEF Comes
<1>1. Need = n
  <2>1. PICK x : x = todo
    OBVIOUS
  <2>2. IsSequence(rest) /\ x = Wait(f, n) \o rest
    BY <1>0, <2>1
  <2>3. Head(x).len = n
    BY ONLY <2>2, FirstWait
  <2> QED
    BY <2>1, <2>3 DEF Need
<1>2. s # <<>>
  BY <1>0, EmptySequence
<1>3. ASSUME Arrives(s)
      PROVE  Lands(r)
  <2>1. TakenAs(f, s, next, b, h, q)
    BY <1>0, <1>2, <1>3, FieldTaken
  <2> QED
    BY <2>1, TakenLands
<1>4. PICK d : d = s \o r
  OBVIOUS
<1>5. Advances(d)
  BY <1>0, <1>1, <1>2, <1>3, <1>4 DEF Advances
<1> QED
  BY <1>4, <1>5
LEMMA ComesPlain ==
  ASSUME NEW f, f \notin {"num popular", "ip", "string index"}, NEW n \in {1, 2},
         NEW rest, IsSequence(rest), todo = Wait(f, n) \o rest,
         NEW s, IsSequence(s), Len(s) = n, NEW r, IsSequence(r)
  PROVE  Comes(f, n, rest, s, r)
<1>1. n # 0
  BY ONLY n \in {1, 2}
<1> QED
  BY <1>1, Zenon DEF Comes

LEMMA AfterOthers ==
  ASSUME NEW data, NEW rest
  PROVE  /\ After("public ip", data, rest) = rest
         /\ After("default port", data, rest) = rest
         /\ After("field type", data, rest) = rest
         /\ After("num popular", data, rest) = rest
         /\ After("flags", data, rest) = rest
         /\ After("port", data, rest) = rest
         /\ After("private ip", data, rest) = rest
         /\ After("private port", data, rest) = rest
         /\ After("icmp ip", data, rest) = rest
         /\ After("key byte", data, rest) = rest
         /\ After("key short", data, rest) = rest
<1>1. After("public ip", data, rest) = rest
  BY Zenon DEF After, Strings
<1>2. After("default port", data, rest) = rest
  BY Zenon DEF After, Strings
<1>3. After("field type", data, rest) = rest
  BY Zenon DEF After, Strings
<1>4. After("num popular", data, rest) = rest
  BY Zenon DEF After, Strings
<1>5. After("flags", data, rest) = rest
  BY Zenon DEF After, Strings
<1>6. After("port", data, rest) = rest
  BY Zenon DEF After, Strings
<1>7. After("private ip", data, rest) = rest
  BY Zenon DEF After, Strings
<1>8. After("private port", data, rest) = rest
  BY Zenon DEF After, Strings
<1>9. After("icmp ip", data, rest) = rest
  BY Zenon DEF After, Strings
<1>10. After("key byte", data, rest) = rest
  BY Zenon DEF After, Strings
<1>11. After("key short", data, rest) = rest
  BY Zenon DEF After, Strings
<1> QED
  BY <1>1, <1>2, <1>3, <1>4, <1>5, <1>6, <1>7, <1>8, <1>9, <1>10, <1>11, Zenon

LEMMA WaitNotEmpty ==
  ASSUME NEW f, NEW n, NEW rest, IsSequence(rest), NEW x, x = Wait(f, n) \o rest
  PROVE  x # <<>> /\ IsSequence(x)
BY FirstWait

(* A header field: it is not kept.                                         *)
LEMMA HeaderField ==
  ASSUME IsSequence(handled), Len(handled) = 0, fields = <<>>,
         ~gotFatalError, NEW b, NEW h, NEW q, EntryIs(b, h, q),
         NEW f, f \in {"random length", "random", "key length", "key", "public ip"},
         NEW n, NEW rest, NEW s, NEW r, Comes(f, n, rest, s, r),
         NEW next, next = After(f, s, rest), next # <<>>, AtHeader(next, r)
  PROVE  Advances(s \o r)
<1>1. FieldsAfter(f, s) = fields
  BY DEF FieldsAfter
<1>2. Follows(f, s, next, r, b, h, q)
  BY <1>1 DEF Follows, Place
<1> QED
  BY <1>2, FieldAdvances

LEMMA HeaderTexts ==
  ASSUME session \in Sessions, session.kind = "sbv2"
  PROVE  /\ IsSequence(<<"v", "v">> \o KeyedPart)
         /\ IsSequence(<<"2">> \o (<<"v", "v">> \o KeyedPart))
         /\ IsSequence(<<"v">> \o (<<"2">> \o (<<"v", "v">> \o KeyedPart)))
<1>1. PICK v, vv, two, k : v = <<"v">> /\ vv = <<"v", "v">> /\ two = <<"2">> /\ k = KeyedPart
  OBVIOUS
<1>2. IsSequence(v) /\ IsSequence(vv) /\ IsSequence(two) /\ IsSequence(k)
  BY <1>1, OneSequence, ValueSequences, ResponseParts
<1>3. PICK x : x = vv \o k
  OBVIOUS
<1>4. IsSequence(x)
  BY <1>2, <1>3, ConcatType
<1>5. PICK y : y = two \o x
  OBVIOUS
<1>6. IsSequence(y)
  BY <1>2, <1>4, <1>5, ConcatType
<1>7. IsSequence(v \o y)
  BY <1>2, <1>6, ConcatType
<1> QED
  BY <1>1, <1>3, <1>4, <1>5, <1>6, <1>7

LEMMA SmallCounts ==
  Count("1") = 1 /\ Count("2") = 2
<1>1. PICK m : m = 1 /\ m \in 0..9 /\ Numerals[m + 1] = "1"
  BY DEF Numerals
<1>2. PICK n : n = 2 /\ n \in 0..9 /\ Numerals[n + 1] = "2"
  BY DEF Numerals
<1>3. Value("1") = 1 /\ Value("2") = 2
  BY <1>1, <1>2, NumeralValue
<1>4. "1" # Noise /\ "2" # Noise
  BY DEF Noise
<1> QED
  BY <1>3, <1>4, Zenon DEF Count

LEMMA AfterKey ==
  ASSUME NEW data, NEW rest
  PROVE  After("key", data, rest) =
           (Wait("public ip", 1) \o Wait("default port", 2)) \o Wait("num fields", 1)
BY Zenon DEF After, Strings

LEMMA HeaderAdvances ==
  ASSUME session \in Sessions, session.kind = "sbv2",
         IsSequence(handled), Len(handled) = 0, fields = <<>>,
         ~gotFatalError, NEW b, NEW h, NEW q, EntryIs(b, h, q),
         NEW d, AtHeader(todo, d)
  PROVE  Advances(d)
<1>1. PICK v, vv, one, two, k : /\ v = <<"v">> /\ vv = <<"v", "v">>
                                /\ one = <<"1">> /\ two = <<"2">> /\ k = KeyedPart
  OBVIOUS
<1>2. /\ IsSequence(v) /\ IsSequence(vv) /\ IsSequence(one) /\ IsSequence(two)
      /\ Len(v) = 1 /\ Len(vv) = 2 /\ Len(one) = 1 /\ Len(two) = 1
      /\ one[1] = "1" /\ two[1] = "2"
  BY <1>1, OneSequence, ValueSequences
<1>3. /\ IsSequence(k) /\ IsSequence(vv \o k) /\ IsSequence(two \o (vv \o k))
      /\ IsSequence(v \o (two \o (vv \o k)))
  BY <1>1, HeaderTexts, ResponseParts
<1>4. PICK w1, w2, w3, w5, w6, w7 :
            /\ w1 = Wait("random length", 1) /\ w2 = Wait("random", 1) /\ w3 = Wait("key length", 1)
            /\ w5 = Wait("public ip", 1) /\ w6 = Wait("default port", 2)
            /\ w7 = Wait("num fields", 1)
  OBVIOUS
<1>5. /\ IsSequence(w1) /\ IsSequence(w2) /\ IsSequence(w3) /\ IsSequence(w5) /\ IsSequence(w6)
      /\ IsSequence(w7)
  BY <1>4, WaitSequence
<1>6. PICK e : e = <<>>
  OBVIOUS
<1>7. IsSequence(e)
  BY <1>6, EmptySequence
<1>8. CASE todo = w1 /\ d = one \o (v \o (two \o (vv \o k)))
  <2>1. PICK f, r, next : /\ f = "random length" /\ r = v \o (two \o (vv \o k)) /\ next = w2 \o w3
    OBVIOUS
  <2>2. todo = Wait(f, 1) \o e
    BY <1>4, <1>5, <1>6, <1>8, <2>1, EmptyConcat
  <2>3. Comes(f, 1, e, one, r)
    BY <1>2, <1>3, <1>7, <2>1, <2>2, ComesPlain
  <2>4. next = After(f, one, e)
    <3>1. After("random length", one, e) = Wait("random", Count(one[1])) \o Wait("key length", 1)
      BY AfterHeader
    <3> QED
      BY <1>2, <1>4, <2>1, <3>1, SmallCounts
  <2>5. next # <<>>
    BY <1>4, <1>5, <2>1, WaitNotEmpty
  <2>6. AtHeader(next, r)
    BY <1>1, <1>4, <2>1 DEF AtHeader
  <2>7. Advances(one \o r)
    BY <2>1, <2>3, <2>4, <2>5, <2>6, HeaderField
  <2> QED
    BY <1>8, <2>1, <2>7
<1>9. CASE todo = w2 \o w3 /\ d = v \o (two \o (vv \o k))
  <2>1. PICK f, r : f = "random" /\ r = two \o (vv \o k)
    OBVIOUS
  <2>3. Comes(f, 1, w3, v, r)
    BY <1>2, <1>3, <1>4, <1>5, <1>9, <2>1, ComesPlain
  <2>4. w3 = After(f, v, w3)
    <3>1. After("random", v, w3) = w3
      BY AfterHeader
    <3> QED
      BY <2>1, <3>1
  <2>5. w3 # <<>>
    BY <1>4, WaitSequence
  <2>6. AtHeader(w3, r)
    BY <1>1, <1>4, <2>1 DEF AtHeader
  <2>7. Advances(v \o r)
    BY <2>1, <2>3, <2>4, <2>5, <2>6, HeaderField
  <2> QED
    BY <1>9, <2>1, <2>7
<1>10. CASE todo = w3 /\ d = two \o (vv \o k)
  <2>1. PICK f, r, next : /\ f = "key length" /\ r = vv \o k /\ next = Wait("key", 2)
    OBVIOUS
  <2>2. todo = Wait(f, 1) \o e
    BY <1>4, <1>5, <1>6, <1>10, <2>1, EmptyConcat
  <2>3. Comes(f, 1, e, two, r)
    BY <1>2, <1>3, <1>7, <2>1, <2>2, ComesPlain
  <2>4. next = After(f, two, e)
    <3>1. After("key length", two, e) = Wait("key", Count(two[1]))
      BY AfterHeader
    <3> QED
      BY <1>2, <2>1, <3>1, SmallCounts
  <2>5. next # <<>>
    BY <2>1, WaitSequence
  <2>6. AtHeader(next, r)
    BY <1>1, <2>1 DEF AtHeader
  <2>7. Advances(two \o r)
    BY <2>1, <2>3, <2>4, <2>5, <2>6, HeaderField
  <2> QED
    BY <1>10, <2>1, <2>7
<1>11. CASE todo = Wait("key", 2) /\ d = vv \o k
  <2>1. PICK f, next : f = "key" /\ next = w5 \o (w6 \o w7)
    OBVIOUS
  <2>2. todo = Wait(f, 2) \o e
    <3>1. PICK w : w = Wait("key", 2)
      OBVIOUS
    <3>2. IsSequence(w)
      BY <3>1, WaitSequence
    <3> QED
      BY <1>6, <1>11, <2>1, <3>1, <3>2, EmptyConcat
  <2>3. Comes(f, 2, e, vv, k)
    BY <1>2, <1>3, <1>7, <2>1, <2>2, ComesPlain
  <2>4. next = After(f, vv, e)
    <3>1. After(f, vv, e) = (w5 \o w6) \o w7
      BY <1>4, <2>1, AfterKey
    <3>2. (w5 \o w6) \o w7 = w5 \o (w6 \o w7)
      <4>1. IsSequence(w5) /\ IsSequence(w6) /\ IsSequence(w7)
        BY <1>5
      <4> QED
        BY ONLY <4>1, ConcatRegroups
    <3> QED
      BY <2>1, <3>1, <3>2
  <2>5. next # <<>>
    <3>1. PICK t : t = w6 \o w7
      OBVIOUS
    <3>2. IsSequence(t)
      BY <1>5, <3>1, ConcatType
    <3>3. next = Wait("public ip", 1) \o t
      BY <1>4, <2>1, <3>1
    <3> QED
      BY <3>2, <3>3, WaitNotEmpty
  <2>6. AtHeader(next, k)
    BY <1>1, <1>4, <2>1 DEF AtHeader
  <2>7. Advances(vv \o k)
    BY <2>1, <2>3, <2>4, <2>5, <2>6, HeaderField
  <2> QED
    BY <1>11, <2>7
<1>12. CASE todo = w5 \o (w6 \o w7) /\ d = k
  <2>1. PICK f, r, next : /\ f = "public ip" /\ r = session.defaultPort \o FieldsPart
                          /\ next = w6 \o w7
    OBVIOUS
  <2>2. d = v \o r
    BY <1>1, <1>12, <2>1 DEF KeyedPart
  <2>8. IsSequence(r)
    <3>1. PICK p, g : p = session.defaultPort /\ g = FieldsPart
      OBVIOUS
    <3>2. IsSequence(p) /\ IsSequence(g)
      BY <3>1, SBV2Facts, ResponseParts
    <3>3. IsSequence(p \o g)
      BY <3>2, ConcatType
    <3> QED
      BY <2>1, <3>1, <3>3
  <2>9. IsSequence(next) /\ next # <<>>
    <3>1. IsSequence(w6 \o w7)
      BY <1>5, ConcatType
    <3>2. next # <<>>
      BY <1>4, <1>5, <2>1, WaitNotEmpty
    <3> QED
      BY <2>1, <3>1, <3>2
  <2>3. Comes(f, 1, next, v, r)
    BY <1>2, <1>4, <1>12, <2>1, <2>8, <2>9, ComesPlain
  <2>4. next = After(f, v, next)
    <3>1. After("public ip", v, next) = next
      BY AfterOthers
    <3> QED
      BY <2>1, <3>1
  <2>6. AtHeader(next, r)
    BY <1>4, <2>1 DEF AtHeader
  <2>7. Advances(v \o r)
    BY <2>1, <2>3, <2>4, <2>9, <2>6, HeaderField
  <2> QED
    BY <2>2, <2>7
<1>13. CASE todo = w6 \o w7 /\ d = session.defaultPort \o FieldsPart
  <2>1. PICK f, s, r : f = "default port" /\ s = session.defaultPort /\ r = FieldsPart
    OBVIOUS
  <2>2. IsSequence(s) /\ Len(s) = 2 /\ IsSequence(r)
    BY <2>1, SBV2Facts, ResponseParts
  <2>3. Comes(f, 2, w7, s, r)
    BY <1>4, <1>5, <1>13, <2>1, <2>2, ComesPlain
  <2>4. w7 = After(f, s, w7)
    <3>1. After("default port", s, w7) = w7
      BY AfterOthers
    <3> QED
      BY <2>1, <3>1
  <2>5. w7 # <<>>
    BY <1>4, WaitSequence
  <2>6. FieldsAfter(f, s) = <<>> /\ DefaultAfter(f, s) = session.defaultPort
    BY <2>1 DEF FieldsAfter, DefaultAfter
  <2>7. KnownTypes(<<>>, 0) /\ AtTypes(w7, r, 0) /\ 0 \in 0..Len(session.fields)
    <3>1. KnownTypes(<<>>, 0)
      BY EmptySequence DEF KnownTypes
    <3>2. AtTypes(w7, r, 0)
      BY <1>4, <2>1 DEF AtTypes
    <3>3. 0 \in 0..Len(session.fields)
      BY SBV2Facts
    <3> QED
      BY <3>1, <3>2, <3>3
  <2>8. Follows(f, s, w7, r, b, h, q)
    BY <2>5, <2>6, <2>7 DEF Follows, Place
  <2>9. Advances(s \o r)
    BY <2>3, <2>4, <2>8, FieldAdvances
  <2> QED
    BY <1>13, <2>1, <2>9
<1>14. \/ todo = w1 /\ d = one \o (v \o (two \o (vv \o k)))
       \/ todo = w2 \o w3 /\ d = v \o (two \o (vv \o k))
       \/ todo = w3 /\ d = two \o (vv \o k)
       \/ todo = Wait("key", 2) /\ d = vv \o k
       \/ todo = w5 \o (w6 \o w7) /\ d = k
       \/ todo = w6 \o w7 /\ d = session.defaultPort \o FieldsPart
  BY <1>1, <1>4 DEF AtHeader
<1> QED
  BY <1>8, <1>9, <1>10, <1>11, <1>12, <1>13, <1>14

(* A field the reader stops at. *)
LEMMA QuitAdvances ==
  ASSUME NEW f, NEW n \in {1, 2}, NEW rest, IsSequence(rest), todo = Wait(f, n) \o rest,
         NEW s, IsSequence(s), Len(s) = n, NEW r, IsSequence(r), Quits(f, s),
         session.popular = Zero => Len(handled) = Len(Listing)
  PROVE  Advances(s \o r)
<1>1. Head(todo).name = f /\ Head(todo).len = n
  <2>1. PICK x : x = todo
    OBVIOUS
  <2>2. IsSequence(rest) /\ x = Wait(f, n) \o rest
    BY <2>1
  <2>3. Head(x).name = f /\ Head(x).len = n
    BY ONLY <2>2, FirstWait
  <2> QED
    BY <2>1, <2>3
<1>2. s # <<>>
  <2>1. n # 0
    BY ONLY n \in {1, 2}
  <2> QED
    BY <2>1, EmptySequence
<1>3. ASSUME Arrives(s)
      PROVE  pc' = "done" /\ handled' = handled
  <2>1. Stops("done")
    BY <1>1, <1>2, <1>3, Zenon DEF Arrives
  <2> QED
    BY <2>1 DEF Stops
<1>4. Arrives(s) => Lands(r)
  BY <1>3, Zenon DEF Lands
<1>5. PICK d : d = s \o r
  OBVIOUS
<1>6. Advances(d)
  BY <1>1, <1>2, <1>4, <1>5 DEF Advances, Need
<1> QED
  BY <1>5, <1>6

LEMMA AfterTexts ==
  ASSUME NEW data, NEW rest
  PROVE  /\ After("field name", data, rest) = IF data[1] = Zero THEN rest ELSE todo
         /\ After("string", data, rest) = IF data[1] = Zero THEN rest ELSE todo
         /\ After("rule", data, rest) = IF data[1] = Zero THEN rest ELSE todo
         /\ After("value", data, rest) = IF data[1] = Zero THEN rest ELSE todo
<1>1. After("field name", data, rest) = IF data[1] = Zero THEN rest ELSE todo
  BY Zenon DEF After, Strings
<1>2. After("string", data, rest) = IF data[1] = Zero THEN rest ELSE todo
  BY Zenon DEF After, Strings
<1>3. After("rule", data, rest) = IF data[1] = Zero THEN rest ELSE todo
  BY Zenon DEF After, Strings
<1>4. After("value", data, rest) = IF data[1] = Zero THEN rest ELSE todo
  BY Zenon DEF After, Strings
<1> QED
  BY <1>1, <1>2, <1>3, <1>4, Zenon

(* The numeral for the number of keys.                                     *)
LEMMA FieldsCount ==
  ASSUME session \in Sessions, session.kind = "sbv2"
  PROVE  Count(Numerals[Len(session.fields) + 1]) = Len(session.fields)
<1>1. PICK n \in 0..9 : n = Len(session.fields)
  BY SBV2Facts
<1>2. PICK c : c = Numerals[n + 1]
  OBVIOUS
<1>3. Value(c) = n
  BY <1>2, NumeralValue
<1>4. c # Noise
  <2>1. \A i \in 1..10 : Numerals[i] # Noise
    BY DEF Numerals, Noise, Zero
  <2>2. n + 1 \in 1..10
    OBVIOUS
  <2> QED
    BY <1>2, <2>1, <2>2
<1>5. Count(c) = n
  BY <1>3, <1>4, Zenon DEF Count
<1> QED
  BY <1>1, <1>2, <1>5

(* Where the key types are read, and nothing is handed on.                 *)
LEMMA TypeField ==
  ASSUME IsSequence(handled), Len(handled) = 0, defaultPort = session.defaultPort,
         ~gotFatalError, NEW b, NEW h, NEW q, EntryIs(b, h, q),
         NEW f, f \in {"num fields", "field type", "field name"},
         NEW n, NEW rest, NEW s, NEW r, Comes(f, n, rest, s, r),
         NEW next, next = After(f, s, rest), next # <<>>,
         NEW m \in 0..Len(session.fields), KnownTypes(FieldsAfter(f, s), m), AtTypes(next, r, m)
  PROVE  Advances(s \o r)
<1>1. DefaultAfter(f, s) = session.defaultPort
  BY DEF DefaultAfter
<1>2. Follows(f, s, next, r, b, h, q)
  BY <1>1 DEF Follows, Place
<1> QED
  BY <1>2, FieldAdvances

TypesSetting(b, h, q) ==
  /\ session \in Sessions /\ session.kind = "sbv2"
  /\ IsSequence(handled) /\ Len(handled) = 0 /\ defaultPort = session.defaultPort
  /\ ~gotFatalError /\ EntryIs(b, h, q)

LEMMA AfterCount ==
  ASSUME NEW data, NEW rest
  PROVE  After("num fields", data, rest) =
           Repeat(Count(data[1]), Wait("field type", 1) \o Wait("field name", 1))
             \o Wait("num popular", 1) \o EntryStart
BY Zenon DEF After, Strings

LEMMA EntryStartFacts ==
  IsSequence(EntryStart) /\ EntryStart # <<>> /\ IsSequence(Wait("ip", 1))
<1>1. PICK y, z : y = Wait("flags", 1) /\ z = Wait("ip", 1)
  OBVIOUS
<1>2. IsSequence(y) /\ IsSequence(z)
  BY <1>1, WaitSequence
<1>3. PICK g : g = y \o z
  OBVIOUS
<1>4. IsSequence(g)
  BY <1>2, <1>3, ConcatType
<1>5. g # <<>>
  BY <1>1, <1>2, <1>3, WaitNotEmpty
<1> QED
  BY <1>1, <1>2, <1>3, <1>4, <1>5 DEF EntryStart

LEMMA TodoNotEmpty ==
  ASSUME session \in Sessions, session.kind = "sbv2", NEW m \in 0..Len(session.fields)
  PROVE  TypesTodo(m) # <<>>
<1>1. PICK n, t : n = Len(session.fields) /\ t = TypesTodo(m)
  OBVIOUS
<1>2. m \in 0..n
  BY <1>1
<1>3. n \in Nat
  <2>1. n \in 0..9
    BY <1>1, SBV2Facts
  <2> QED
    BY ONLY <2>1
<1>4. CASE m < n
  <2>1. PICK fn, tt : fn = Wait("field name", 1) /\ tt = TypesTodo(m + 1)
    OBVIOUS
  <2>2. m + 1 \in 0..n
    BY ONLY <1>2, <1>3, <1>4
  <2>3. IsSequence(fn) /\ IsSequence(tt)
    BY <1>1, <2>1, <2>2, WaitSequence, TypesDueFacts
  <2>4. PICK y : y = fn \o tt
    OBVIOUS
  <2>5. IsSequence(y)
    BY <2>3, <2>4, ConcatType
  <2>6. t = Wait("field type", 1) \o y
    BY <1>1, <1>2, <1>4, <2>1, <2>4, TypesDueFacts
  <2> QED
    BY <1>1, <2>5, <2>6, WaitNotEmpty
<1>5. CASE ~(m < n)
  <2>1. m = n
    BY ONLY <1>2, <1>3, <1>5
  <2>2. PICK g : g = EntryStart
    OBVIOUS
  <2>3. t = Wait("num popular", 1) \o g
    BY <1>1, <2>1, <2>2, TypesDueFacts
  <2>4. IsSequence(g)
    BY <2>2, EntryStartFacts
  <2> QED
    BY <1>1, <2>3, <2>4, WaitNotEmpty
<1> QED
  BY <1>4, <1>5

LEMMA CountAdvances ==
  ASSUME NEW b, NEW h, NEW q, TypesSetting(b, h, q), KnownTypes(fields, 0),
         todo = Wait("num fields", 1)
  PROVE  Advances(FieldsPart)
<1>0. /\ session \in Sessions /\ session.kind = "sbv2"
      /\ IsSequence(handled) /\ Len(handled) = 0 /\ defaultPort = session.defaultPort
      /\ ~gotFatalError /\ EntryIs(b, h, q)
  BY DEF TypesSetting
<1>1. PICK f, c, s, r, e : /\ f = "num fields" /\ c = Numerals[Len(session.fields) + 1]
                           /\ s = <<c>> /\ r = TypesDue(0) /\ e = <<>>
  OBVIOUS
<1>2. PICK n \in Nat : n = Len(session.fields)
  <2>1. Len(session.fields) \in 0..9
    BY <1>0, SBV2Facts
  <2>2. PICK n : n = Len(session.fields)
    OBVIOUS
  <2>3. n \in 0..9
    BY <2>1, <2>2
  <2>4. n \in Nat
    BY ONLY <2>3
  <2> QED
    BY <2>2, <2>4
<1>3. 0 \in 0..n
  BY ONLY n \in Nat
<1>4. IsSequence(s) /\ Len(s) = 1 /\ s[1] = c /\ IsSequence(r) /\ IsSequence(e)
  BY <1>1, <1>2, <1>3, OneSequence, <1>0, TypesDueFacts, EmptySequence
<1>5. todo = Wait(f, 1) \o e
  <2>1. PICK w : w = Wait("num fields", 1)
    OBVIOUS
  <2>2. IsSequence(w)
    BY <2>1, WaitSequence
  <2> QED
    BY <1>1, <2>1, <2>2, EmptyConcat
<1>6. Comes(f, 1, e, s, r)
  BY <1>1, <1>4, <1>5, ComesPlain
<1>7. After(f, s, e) = TypesTodo(0)
  <2>1. PICK ft, p, g, t : /\ ft = Wait("field type", 1) \o Wait("field name", 1)
                           /\ p = Wait("num popular", 1) /\ g = EntryStart
                           /\ t = FlattenSeq(TypeWaits)
    OBVIOUS
  <2>2. After(f, s, e) = (Repeat(Count(s[1]), ft) \o p) \o g
    BY <1>1, <2>1, AfterCount
  <2>3. Repeat(n, ft) = t
    BY <1>2, <2>1 DEF Repeat, TypeWaits
  <2>4. Count(s[1]) = n
    BY <1>1, <1>2, <1>4, <1>0, FieldsCount
  <2>5. IsSequence(t)
    BY <1>2, <2>1, <1>0, TypesDueFacts
  <2>6. IsSequence(p)
    BY <2>1, WaitSequence
  <2>7. IsSequence(g)
    <3>1. PICK y, z : y = Wait("flags", 1) /\ z = Wait("ip", 1)
      OBVIOUS
    <3>2. IsSequence(y) /\ IsSequence(z)
      BY <3>1, WaitSequence
    <3>3. IsSequence(y \o z)
      BY <3>2, ConcatType
    <3> QED
      BY <2>1, <3>1, <3>3 DEF EntryStart
  <2>8. (t \o p) \o g = t \o (p \o g)
    BY ONLY <2>5, <2>6, <2>7, ConcatRegroups
  <2>9. TypesTodo(0) = t \o (p \o g)
    BY <1>2, <2>1, <1>0, TypesDueFacts
  <2> QED
    BY <2>2, <2>3, <2>4, <2>8, <2>9
<1>8. PICK next : next = TypesTodo(0)
  OBVIOUS
<1>9. next # <<>>
  <2>2. 0 \in 0..Len(session.fields)
    BY <1>2, <1>3
  <2> QED
    BY <1>0, <1>8, <2>2, TodoNotEmpty
<1>10. KnownTypes(FieldsAfter(f, s), 0) /\ AtTypes(next, r, 0)
  <2>1. FieldsAfter(f, s) = fields
    BY <1>1 DEF FieldsAfter
  <2>2. AtTypes(next, r, 0)
    BY <1>1, <1>8 DEF AtTypes
  <2> QED
    BY <2>1, <2>2
<1>11. Advances(s \o r)
  BY <1>0, <1>1, <1>2, <1>3, <1>6, <1>7, <1>8, <1>9, <1>10, TypeField
<1> QED
  BY <1>1, <1>11 DEF FieldsPart

LEMMA TypeAdvances ==
  ASSUME NEW b, NEW h, NEW q, TypesSetting(b, h, q), NEW n \in 0..Len(session.fields),
         KnownTypes(fields, n), n < Len(session.fields), todo = TypesTodo(n)
  PROVE  Advances(TypesDue(n))
<1>0. /\ session \in Sessions /\ session.kind = "sbv2"
      /\ IsSequence(handled) /\ Len(handled) = 0 /\ defaultPort = session.defaultPort
      /\ ~gotFatalError /\ EntryIs(b, h, q)
  BY DEF TypesSetting
<1>1. PICK f, c, s, r, next :
            /\ f = "field type" /\ c = session.fields[n + 1] /\ s = <<c>>
            /\ r = Text \o TypesDue(n + 1) /\ next = Wait("field name", 1) \o TypesTodo(n + 1)
  OBVIOUS
<1>2. PICK N : N = Len(session.fields) /\ N \in Nat
  <2>1. PICK N : N = Len(session.fields)
    OBVIOUS
  <2>2. N \in 0..9
    BY <1>0, <2>1, SBV2Facts
  <2>3. N \in Nat
    BY ONLY <2>2
  <2> QED
    BY <2>1, <2>3
<1>3. n \in 0..N /\ n < N
  BY <1>2
<1>4. n + 1 \in 0..N /\ n + 1 \in 1..N /\ n \in Nat
  <2>1. N \in Nat
    BY <1>2
  <2> QED
    BY ONLY <1>3, <2>1
<1>5. /\ TypesDue(n) = s \o r /\ todo = Wait(f, 1) \o next
      /\ IsSequence(TypesDue(n + 1)) /\ IsSequence(TypesTodo(n + 1))
  BY <1>0, <1>1, <1>2, <1>3, <1>4, TypesDueFacts
<1>6. IsSequence(s) /\ Len(s) = 1 /\ s[1] = c
  BY <1>1, OneSequence
<1>7. IsSequence(r) /\ IsSequence(next) /\ next # <<>>
  <2>1. PICK x, y, w, z : x = Text /\ y = TypesDue(n + 1) /\ w = Wait("field name", 1) /\ z = TypesTodo(n + 1)
    OBVIOUS
  <2>2. IsSequence(x) /\ IsSequence(y) /\ IsSequence(w) /\ IsSequence(z)
    BY <1>5, <2>1, TextFacts, WaitSequence
  <2>3. IsSequence(x \o y)
    BY <2>2, ConcatType
  <2>4. next # <<>> /\ IsSequence(next)
    BY <1>1, <2>1, <2>2, WaitNotEmpty
  <2> QED
    BY <1>1, <2>1, <2>3, <2>4
<1>8. Comes(f, 1, next, s, r)
  BY <1>1, <1>5, <1>6, <1>7, ComesPlain
<1>9. next = After(f, s, next)
  <2>1. After("field type", s, next) = next
    BY AfterOthers
  <2> QED
    BY <1>1, <2>1
<1>10. KnownTypes(FieldsAfter(f, s), n + 1)
  <2>1. PICK g : g = fields
    OBVIOUS
  <2>2. IsSequence(g) /\ Len(g) = n /\ \A i \in 1..n : g[i] = session.fields[i]
    BY <2>1 DEF KnownTypes
  <2>3. PICK a : a = Append(g, c)
    OBVIOUS
  <2>4. IsSequence(a) /\ Len(a) = n + 1
    BY <2>2, <2>3, AppendSequence
  <2>5. \A i \in 1..n + 1 : a[i] = IF i <= n THEN g[i] ELSE c
    BY <2>2, <2>3, AppendElements
  <2>6. ASSUME NEW i \in 1..n + 1
        PROVE  a[i] = session.fields[i]
    <3>1. CASE i <= n
      <4>1. i \in 1..n
        BY ONLY <1>4, <3>1, i \in 1..n + 1
      <4> QED
        BY <2>2, <2>5, <3>1, <4>1
    <3>2. CASE ~(i <= n)
      <4>1. i = n + 1
        BY ONLY <1>4, <3>2, i \in 1..n + 1
      <4> QED
        BY <1>1, <2>5, <3>2, <4>1
    <3> QED
      BY <3>1, <3>2
  <2>7. FieldsAfter(f, s) = a
    BY <1>1, <1>6, <2>1, <2>3 DEF FieldsAfter
  <2> QED
    BY <2>4, <2>6, <2>7 DEF KnownTypes
<1>11. AtTypes(next, r, n + 1)
  BY <1>1 DEF AtTypes
<1>12. n + 1 \in 0..Len(session.fields)
  BY <1>2, <1>4
<1>13. f \in {"num fields", "field type", "field name"}
  BY <1>1
<1>14. Advances(s \o r)
  BY <1>0, <1>7, <1>8, <1>9, <1>10, <1>11, <1>12, <1>13, TypeField
<1> QED
  BY <1>5, <1>14

LEMMA NameAdvances ==
  ASSUME NEW b, NEW h, NEW q, TypesSetting(b, h, q), NEW n \in 0..Len(session.fields),
         KnownTypes(fields, n), todo = Wait("field name", 1) \o TypesTodo(n),
         NEW d, d = Text \o TypesDue(n) \/ d = <<Zero>> \o TypesDue(n)
  PROVE  Advances(d)
<1>0. /\ session \in Sessions /\ session.kind = "sbv2"
      /\ IsSequence(handled) /\ Len(handled) = 0 /\ defaultPort = session.defaultPort
      /\ ~gotFatalError /\ EntryIs(b, h, q)
  BY DEF TypesSetting
<1>1. PICK f, v, z, y, rest :
            /\ f = "field name" /\ v = <<"v">> /\ z = <<Zero>> /\ y = TypesDue(n)
            /\ rest = TypesTodo(n)
  OBVIOUS
<1>2. /\ IsSequence(v) /\ Len(v) = 1 /\ v[1] = "v" /\ IsSequence(z) /\ Len(z) = 1 /\ z[1] = Zero
      /\ IsSequence(y) /\ IsSequence(rest)
  BY <1>0, <1>1, OneSequence, TypesDueFacts
<1>3. todo = Wait(f, 1) \o rest
  BY <1>1
<1>4. todo # <<>> /\ rest # <<>>
  <2>1. todo # <<>>
    BY <1>2, <1>3, WaitNotEmpty
  <2>2. rest # <<>>
    BY <1>0, <1>1, TodoNotEmpty
  <2> QED
    BY <2>1, <2>2
<1>5. FieldsAfter(f, v) = fields /\ FieldsAfter(f, z) = fields
  BY <1>1 DEF FieldsAfter
<1>6. f \in {"num fields", "field type", "field name"}
  BY <1>1
<1>7. CASE d = Text \o y
  <2>1. PICK r : r = z \o y
    OBVIOUS
  <2>2. IsSequence(r)
    BY <1>2, <2>1, ConcatType
  <2>3. d = v \o r
    <3>1. IsSequence(v) /\ IsSequence(z) /\ IsSequence(y)
      BY <1>2
    <3>2. (v \o z) \o y = v \o (z \o y)
      BY ONLY <3>1, ConcatRegroups
    <3> QED
      BY <1>1, <1>7, <2>1, <3>2 DEF Text
  <2>4. Comes(f, 1, rest, v, r)
    BY <1>1, <1>2, <1>3, <2>2, ComesPlain
  <2>5. todo = After(f, v, rest)
    <3>1. After("field name", v, rest) = IF v[1] = Zero THEN rest ELSE todo
      BY AfterTexts
    <3>2. "v" # Zero
      BY DEF Zero
    <3> QED
      BY <1>1, <1>2, <3>1, <3>2
  <2>6. AtTypes(todo, r, n)
    BY <1>1, <2>1 DEF AtTypes
  <2>7. Advances(v \o r)
    BY <1>0, <1>4, <1>5, <1>6, <2>4, <2>5, <2>6, TypeField
  <2> QED
    BY <2>3, <2>7
<1>8. CASE d = z \o y
  <2>1. Comes(f, 1, rest, z, y)
    BY <1>1, <1>2, <1>3, ComesPlain
  <2>2. rest = After(f, z, rest)
    <3>1. After("field name", z, rest) = IF z[1] = Zero THEN rest ELSE todo
      BY AfterTexts
    <3> QED
      BY <1>1, <1>2, <3>1
  <2>3. AtTypes(rest, y, n)
    BY <1>1 DEF AtTypes
  <2>4. Advances(z \o y)
    BY <1>0, <1>4, <1>5, <1>6, <2>1, <2>2, <2>3, TypeField
  <2> QED
    BY <1>8, <2>4
<1> QED
  BY <1>1, <1>7, <1>8

LEMMA OneNotZero ==
  1 # 0
OBVIOUS

LEMMA PopularAdvances ==
  ASSUME NEW b, NEW h, NEW q, TypesSetting(b, h, q), KnownTypes(fields, Len(session.fields)),
         todo = Wait("num popular", 1) \o EntryStart
  PROVE  Advances(<<session.popular>> \o EntriesDue(0))
<1>0. /\ session \in Sessions /\ session.kind = "sbv2"
      /\ IsSequence(handled) /\ Len(handled) = 0 /\ defaultPort = session.defaultPort
      /\ ~gotFatalError /\ EntryIs(b, h, q)
  BY DEF TypesSetting
<1>1. PICK f, c, s, r, next :
            /\ f = "num popular" /\ c = session.popular /\ s = <<c>>
            /\ r = EntriesDue(0) /\ next = EntryStart
  OBVIOUS
<1>2. Len(Listing) \in Nat /\ 0 \in 0..Len(Listing)
  <2>1. PICK l : l = Len(Listing)
    OBVIOUS
  <2>2. l \in Nat
    BY <2>1, ListingFacts
  <2>3. 0 \in 0..l
    BY ONLY <2>2
  <2> QED
    BY <2>1, <2>2, <2>3
<1>3. IsSequence(s) /\ Len(s) = 1 /\ s[1] = c /\ IsSequence(r)
  BY <1>0, <1>1, <1>2, OneSequence, EntriesDueFacts
<1>4. IsSequence(next) /\ next # <<>>
  BY <1>1, EntryStartFacts
<1>5. todo = Wait(f, 1) \o next
  BY <1>1
<1>6. CASE c # Zero
  <2>1. Quits(f, s)
    BY <1>1, <1>3, <1>6 DEF Quits
  <2>2. session.popular # Zero
    BY <1>1, <1>6
  <2>3. Advances(s \o r)
    BY <1>3, <1>4, <1>5, <2>1, <2>2, QuitAdvances
  <2> QED
    BY <1>1, <2>3
<1>7. CASE c = Zero
  <2>1. Comes(f, 1, next, s, r)
    <3>1. f # "ip" /\ f # "string index"
      BY <1>1
    <3>2. 1 # 0
      BY OneNotZero
    <3>3. s[1] = Zero
      BY <1>3, <1>7
    <3> QED
      BY <1>3, <1>4, <1>5, <3>1, <3>2, <3>3, Zenon DEF Comes
  <2>2. next = After(f, s, next)
    <3>1. After("num popular", s, next) = next
      BY AfterOthers
    <3> QED
      BY <1>1, <3>1
  <2>3. FieldsAfter(f, s) = session.fields /\ DefaultAfter(f, s) = session.defaultPort
    <3>1. PICK x, y : x = fields /\ y = session.fields
      OBVIOUS
    <3>2. IsSequence(x) /\ Len(x) = Len(y) /\ \A i \in 1..Len(y) : x[i] = y[i]
      BY <3>1 DEF KnownTypes
    <3>3. IsSequence(y)
      BY <1>0, <3>1, SBV2Facts
    <3>4. x = y
      BY <3>2, <3>3, SequencesEqual
    <3> QED
      BY <1>0, <1>1, <3>1, <3>4 DEF FieldsAfter, DefaultAfter
  <2>4. AtEntries(next, r, ByteAfter(f, s, b), HostAfter(f, s, h), PortAfter(f, s, q), 0)
    BY <1>1 DEF AtEntries
  <2>5. Follows(f, s, next, r, b, h, q)
    BY <1>0, <1>2, <1>4, <2>3, <2>4 DEF Follows, Place
  <2>6. Advances(s \o r)
    BY <1>0, <2>1, <2>2, <2>5, FieldAdvances
  <2> QED
    BY <1>1, <2>6
<1> QED
  BY <1>6, <1>7

LEMMA TypesAdvances ==
  ASSUME NEW b, NEW h, NEW q, TypesSetting(b, h, q), NEW n \in 0..Len(session.fields),
         KnownTypes(fields, n), NEW d, AtTypes(todo, d, n)
  PROVE  Advances(d)
<1>0. session \in Sessions /\ session.kind = "sbv2"
  BY DEF TypesSetting
<1>1. CASE todo = Wait("num fields", 1) /\ d = FieldsPart /\ n = 0
  BY <1>1, CountAdvances
<1>2. CASE todo = TypesTodo(n) /\ d = TypesDue(n) /\ n < Len(session.fields)
  BY <1>2, TypeAdvances
<1>3. CASE todo = TypesTodo(n) /\ d = TypesDue(n) /\ n = Len(session.fields)
  <2>1. todo = Wait("num popular", 1) \o EntryStart /\ d = <<session.popular>> \o EntriesDue(0)
    BY <1>0, <1>3, TypesDueFacts
  <2> QED
    BY <1>3, <2>1, PopularAdvances
<1>4. CASE /\ todo = Wait("field name", 1) \o TypesTodo(n)
           /\ d = Text \o TypesDue(n) \/ d = <<Zero>> \o TypesDue(n)
  BY <1>4, NameAdvances
<1>5. n < Len(session.fields) \/ n = Len(session.fields)
  <2>1. PICK N : N = Len(session.fields)
    OBVIOUS
  <2>2. N \in 0..9 /\ n \in 0..N
    BY <1>0, <2>1, SBV2Facts
  <2>3. n < N \/ n = N
    BY ONLY <2>2
  <2> QED
    BY <2>1, <2>3
<1> QED
  BY <1>1, <1>2, <1>3, <1>4, <1>5 DEF AtTypes

-----------------------------------------------------------------------------
(* The servers.                                                            *)
EntriesSetting(b, h, q, k) ==
  /\ session \in Sessions /\ session.kind = "sbv2"
  /\ IsSequence(handled) /\ Len(handled) = k /\ k \in 0..Len(Listing)
  /\ fields = session.fields /\ defaultPort = session.defaultPort
  /\ ~gotFatalError /\ EntryIs(b, h, q)

(* What keeps the reader in the list.                                      *)
LEMMA EntryField ==
  ASSUME NEW b, NEW h, NEW q, NEW k, EntriesSetting(b, h, q, k),
         NEW f, f # "field type", f # "default port",
         NEW n, NEW rest, NEW s, NEW r, Comes(f, n, rest, s, r),
         NEW next, next = After(f, s, rest), next # <<>>,
         NEW b1, b1 = ByteAfter(f, s, b), NEW h1, h1 = HostAfter(f, s, h),
         NEW q1, q1 = PortAfter(f, s, q), AtEntries(next, r, b1, h1, q1, k)
  PROVE  Advances(s \o r)
<1>0. /\ IsSequence(handled) /\ Len(handled) = k /\ k \in 0..Len(Listing)
      /\ fields = session.fields /\ defaultPort = session.defaultPort
      /\ ~gotFatalError /\ EntryIs(b, h, q)
  BY DEF EntriesSetting
<1>1. FieldsAfter(f, s) = session.fields /\ DefaultAfter(f, s) = session.defaultPort
  BY <1>0, Zenon DEF FieldsAfter, DefaultAfter
<1>2. Follows(f, s, next, r, b, h, q)
  BY <1>0, <1>1, Zenon DEF Follows, Place
<1> QED
  BY <1>0, <1>2, FieldAdvances

LEMMA FlagsAdvances ==
  ASSUME NEW b, NEW h, NEW q, NEW k, EntriesSetting(b, h, q, k), todo = EntryStart
  PROVE  Advances(EntriesDue(k))
<1>0. /\ session \in Sessions /\ session.kind = "sbv2"
      /\ k \in 0..Len(Listing) /\ defaultPort = session.defaultPort
  BY DEF EntriesSetting
<1>1. PICK f, next : f = "flags" /\ next = Wait("ip", 1)
  OBVIOUS
<1>2. IsSequence(next) /\ next # <<>>
  BY <1>1, WaitSequence
<1>3. todo = Wait(f, 1) \o next
  BY <1>1 DEF EntryStart
<1>4. PICK L : L = Len(Listing) /\ L \in Nat
  BY ListingFacts
<1>5. ASSUME NEW s
      PROVE  next = After(f, s, next)
  <2>1. After("flags", s, next) = next
    BY AfterOthers
  <2> QED
    BY <1>1, <2>1
<1>6. CASE k < L
  <2>1. PICK c, s, p, x, r :
              /\ c = session.flags[k + 1] /\ s = <<c>> /\ p = PartsSent(c, Listing[k + 1].port)
              /\ x = <<Listing[k + 1].host>> /\ r = x \o (p \o EntriesDue(k + 1))
    OBVIOUS
  <2>2. k + 1 \in 0..L
    BY ONLY <1>0, <1>4, <1>6
  <2>3. IsSequence(p) /\ IsSequence(EntriesDue(k + 1)) /\ EntriesDue(k) = s \o r
    BY <1>0, <1>4, <1>6, <2>1, <2>2, EntriesDueFacts
  <2>4. IsSequence(s) /\ Len(s) = 1 /\ s[1] = c /\ IsSequence(x)
    BY <2>1, OneSequence
  <2>5. IsSequence(r)
    <3>1. PICK y : y = EntriesDue(k + 1)
      OBVIOUS
    <3>2. IsSequence(p \o y)
      BY <2>3, <3>1, ConcatType
    <3>3. PICK z : z = p \o y
      OBVIOUS
    <3>4. IsSequence(x \o z)
      BY <2>4, <3>2, <3>3, ConcatType
    <3> QED
      BY <2>1, <3>1, <3>3, <3>4
  <2>6. Comes(f, 1, next, s, r)
    BY <1>1, <1>2, <1>3, <2>4, <2>5, ComesPlain
  <2>7. PICK b1, h1, q1 : b1 = c /\ h1 = h /\ q1 = session.defaultPort
    OBVIOUS
  <2>8. b1 = ByteAfter(f, s, b) /\ h1 = HostAfter(f, s, h) /\ q1 = PortAfter(f, s, q)
    BY <1>0, <1>1, <2>4, <2>7 DEF ByteAfter, HostAfter, PortAfter
  <2>9. AtEntries(next, r, b1, h1, q1, k)
    BY <1>1, <1>4, <1>6, <2>1, <2>7 DEF AtEntries
  <2>10. f # "field type" /\ f # "default port"
    BY <1>1
  <2>12. next = After(f, s, next)
    BY <1>5
  <2>11. Advances(s \o r)
    BY <1>2, <2>6, <2>8, <2>9, <2>10, <2>12, EntryField
  <2> QED
    BY <2>3, <2>11
<1>7. CASE ~(k < L)
  <2>1. k = L
    BY ONLY <1>0, <1>4, <1>7
  <2>2. PICK s, r : s = <<Zero>> /\ r = <<Last255>>
    OBVIOUS
  <2>3. IsSequence(s) /\ Len(s) = 1 /\ IsSequence(r)
    BY <2>2, OneSequence
  <2>4. EntriesDue(k) = s \o r
    BY <1>0, <1>4, <2>1, <2>2, EntriesDueFacts
  <2>5. Comes(f, 1, next, s, r)
    BY <1>1, <1>2, <1>3, <2>3, ComesPlain
  <2>6. PICK b1, h1, q1 : b1 = ByteAfter(f, s, b) /\ h1 = HostAfter(f, s, h) /\ q1 = PortAfter(f, s, q)
    OBVIOUS
  <2>7. AtEntries(next, r, b1, h1, q1, k)
    BY <1>1, <1>4, <2>1, <2>2 DEF AtEntries
  <2>8. f # "field type" /\ f # "default port"
    BY <1>1
  <2>10. next = After(f, s, next)
    BY <1>5
  <2>9. Advances(s \o r)
    BY <1>2, <2>10, <2>5, <2>6, <2>7, <2>8, EntryField
  <2> QED
    BY <2>4, <2>9
<1> QED
  BY <1>6, <1>7

(* The address that ends the list.                                         *)
LEMMA EndAdvances ==
  ASSUME NEW b, NEW h, NEW q, EntriesSetting(b, h, q, Len(Listing)), todo = Wait("ip", 1)
  PROVE  Advances(<<Last255>>)
<1>1. PICK f, s, e : f = "ip" /\ s = <<Last255>> /\ e = <<>>
  OBVIOUS
<1>2. IsSequence(s) /\ Len(s) = 1 /\ s[1] = Last255 /\ IsSequence(e)
  BY <1>1, OneSequence, EmptySequence
<1>3. todo = Wait(f, 1) \o e
  <2>1. PICK w : w = Wait("ip", 1)
    OBVIOUS
  <2>2. IsSequence(w)
    BY <2>1, WaitSequence
  <2> QED
    BY <1>1, <2>1, <2>2, EmptyConcat
<1>4. Quits(f, s)
  BY <1>1, <1>2 DEF Quits
<1>5. Len(handled) = Len(Listing)
  BY DEF EntriesSetting
<1>6. Advances(s \o e)
  BY <1>2, <1>3, <1>4, <1>5, QuitAdvances
<1>7. s \o e = s
  BY <1>1, <1>2, EmptyConcat
<1> QED
  BY <1>1, <1>6, <1>7

(* The last part of an entry: the server is handed on.                     *)
LEMMA EntryHandedOn ==
  ASSUME NEW b, NEW h, NEW q, NEW k, EntriesSetting(b, h, q, k), k < Len(Listing),
         NEW f, f # "field type", f # "default port",
         NEW n, NEW rest, NEW s, NEW r, Comes(f, n, rest, s, r),
         NEW next, next = After(f, s, rest), next = <<>>, r = EntriesDue(k + 1),
         Listing[k + 1] = [host |-> HostAfter(f, s, h), port |-> PortAfter(f, s, q)]
  PROVE  Advances(s \o r)
<1>0. /\ IsSequence(handled) /\ Len(handled) = k /\ k \in 0..Len(Listing)
      /\ fields = session.fields /\ defaultPort = session.defaultPort
      /\ ~gotFatalError /\ EntryIs(b, h, q)
  BY DEF EntriesSetting
<1>1. FieldsAfter(f, s) = session.fields /\ DefaultAfter(f, s) = session.defaultPort
  BY <1>0, Zenon DEF FieldsAfter, DefaultAfter
<1>2. PICK b1, h1, q1 : b1 = ByteAfter(f, s, b) /\ h1 = HostAfter(f, s, h) /\ q1 = PortAfter(f, s, q)
  OBVIOUS
<1>3. AtEntries(EntryStart, r, b1, h1, q1, k + 1)
  BY DEF AtEntries
<1>4. k + 1 \in 0..Len(Listing)
  <2>1. PICK L : L = Len(Listing)
    OBVIOUS
  <2>2. L \in Nat /\ k \in 0..L /\ k < L
    BY <1>0, <2>1, ListingFacts
  <2>3. k + 1 \in 0..L
    BY ONLY <2>2
  <2> QED
    BY <2>1, <2>3
<1>5. Place(EntryStart, r, FieldsAfter(f, s), b1, h1, q1, DefaultAfter(f, s), k + 1)
  BY <1>1, <1>3, <1>4, Zenon DEF Place
<1>6. Follows(f, s, next, r, b, h, q)
  BY <1>0, <1>2, <1>5 DEF Follows
<1> QED
  BY <1>0, <1>6, FieldAdvances

LEMMA PortKnown ==
  ASSUME session \in Sessions, session.kind = "sbv2", fields = session.fields,
         NEW k \in 0..Len(Listing), k < Len(Listing), NEW b, b = session.flags[k + 1]
  PROVE  \/ Parts(b) # <<>> /\ Head(Parts(b)).name = "port"
         \/ session.defaultPort = Listing[k + 1].port
<1>1. PICK L : L = Len(Listing)
  OBVIOUS
<1>2. k + 1 \in 1..L
  <2>1. L \in Nat /\ k \in 0..L /\ k < L
    BY <1>1, ListingFacts
  <2> QED
    BY ONLY <2>1
<1>3. \/ /\ session.flags[k + 1] \in DOMAIN session.bits
         /\ "NONSTANDARD_PORT" \in session.bits[session.flags[k + 1]]
      \/ Listing[k + 1].port = session.defaultPort
  BY <1>1, <1>2, SBV2Facts
<1>4. CASE b \in DOMAIN session.bits /\ "NONSTANDARD_PORT" \in session.bits[b]
  <2>1. PICK p : p = <<>>
    OBVIOUS
  <2>2. IsSequence(p)
    BY <2>1, EmptySequence
  <2> QED
    BY <1>4, <2>2, PartsHead
<1> QED
  BY <1>3, <1>4

LEMMA NothingLeft ==
  ASSUME NEW d, NEW p, Parses(<<>>, d, p)
  PROVE  d = <<>>
<1>1. PICK t : t = <<>>
  OBVIOUS
<1>2. Parses(t, d, p)
  BY <1>1
<1>3. CASE ~(t = <<>> /\ d = <<>>)
  <2>1. PICK name, n, s, t2, d2 : FirstPart(t, d, p, name, n, s, t2, d2)
    BY <1>2, <1>3, ParseFirst
  <2>2. IsSequence(t2) /\ t = Wait(name, n) \o t2
    BY <2>1 DEF FirstPart
  <2>3. t # <<>>
    BY ONLY <2>2, WaitNotEmpty
  <2> QED
    BY <1>1, <2>3
<1> QED
  BY <1>3

LEMMA AfterHost ==
  ASSUME NEW data, NEW rest
  PROVE  After("ip", data, rest) = Parts(entry.byte)
BY Zenon DEF After, Strings

LEMMA HostAdvances ==
  ASSUME NEW b, NEW h, NEW q, NEW k, EntriesSetting(b, h, q, k), k < Len(Listing),
         todo = Wait("ip", 1), b = session.flags[k + 1], q = session.defaultPort,
         NEW d, d = <<Listing[k + 1].host>>
                      \o (PartsSent(b, Listing[k + 1].port) \o EntriesDue(k + 1))
  PROVE  Advances(d)
<1>0. /\ session \in Sessions /\ session.kind = "sbv2" /\ k \in 0..Len(Listing)
      /\ fields = session.fields /\ EntryIs(b, h, q)
  BY DEF EntriesSetting
<1>1. PICK f, a, s, p, g, r, e :
            /\ f = "ip" /\ a = Listing[k + 1] /\ s = <<a.host>> /\ p = PartsSent(b, a.port)
            /\ g = EntriesDue(k + 1) /\ r = p \o g /\ e = <<>>
  OBVIOUS
<1>2. k + 1 \in 1..Len(Listing) /\ k + 1 \in 0..Len(Listing)
  <2>1. PICK L : L = Len(Listing)
    OBVIOUS
  <2>2. L \in Nat /\ k \in 0..L /\ k < L
    BY <1>0, <2>1, ListingFacts
  <2>3. k + 1 \in 1..L /\ k + 1 \in 0..L
    BY ONLY <2>2
  <2> QED
    BY <2>1, <2>3
<1>3. /\ a = [host |-> a.host, port |-> a.port] /\ a.host \in Hosts /\ a.port \in Seq(Digits)
  BY <1>1, <1>2, ListingFacts
<1>4. IsSequence(a.port)
  BY <1>3, SequenceOf
<1>5. IsSequence(p) /\ IsSequence(g)
  BY <1>0, <1>1, <1>2, EntriesDueFacts
<1>6. IsSequence(s) /\ Len(s) = 1 /\ s[1] = a.host /\ IsSequence(e) /\ IsSequence(r)
  BY <1>1, <1>5, OneSequence, EmptySequence, ConcatType
<1>7. todo = Wait(f, 1) \o e
  <2>1. PICK w : w = Wait("ip", 1)
    OBVIOUS
  <2>2. IsSequence(w)
    BY <2>1, WaitSequence
  <2> QED
    BY <1>1, <2>1, <2>2, EmptyConcat
<1>8. Comes(f, 1, e, s, r)
  <2>1. s[1] # Last255
    BY <1>0, <1>3, <1>6, SBV2Facts
  <2>2. f # "num popular" /\ f # "string index"
    BY <1>1
  <2> QED
    BY <1>6, <1>7, <2>1, <2>2, OneNotZero, Zenon DEF Comes
<1>9. PICK next : next = Parts(b)
  OBVIOUS
<1>10. next = After(f, s, e)
  <2>1. After("ip", s, e) = Parts(entry.byte)
    BY AfterHost
  <2>2. entry.byte = b
    <3>1. PICK x : x = entry
      OBVIOUS
    <3>2. x = [byte |-> b, host |-> h, port |-> q]
      BY <1>0, <3>1 DEF EntryIs
    <3>3. x.byte = b
      BY ONLY <3>2
    <3> QED
      BY <3>1, <3>3
  <2> QED
    BY <1>1, <1>9, <2>1, <2>2
<1>11. Parses(next, p, a.port)
  BY <1>0, <1>1, <1>4, <1>9, ParseParts
<1>12. /\ ByteAfter(f, s, b) = b /\ HostAfter(f, s, h) = a.host /\ PortAfter(f, s, q) = q
       /\ f # "field type" /\ f # "default port"
  BY <1>1, <1>6, Zenon DEF ByteAfter, HostAfter, PortAfter
<1>13. (next # <<>> /\ Head(next).name = "port") \/ q = a.port
  BY <1>0, <1>1, <1>9, PortKnown
<1>14. CASE next # <<>>
  <2>1. AtPart(next, r, a.host, q, a, k + 1)
    BY <1>1, <1>11, <1>13, <1>14 DEF AtPart
  <2>2. AtEntries(next, r, b, a.host, q, k)
    BY <1>1, <2>1 DEF AtEntries
  <2>3. Advances(s \o r)
    BY <1>8, <1>10, <1>12, <1>14, <2>2, EntryField
  <2> QED
    BY <1>1, <2>3
<1>15. CASE next = <<>>
  <2>1. p = <<>>
    BY <1>11, <1>15, NothingLeft
  <2>2. r = EntriesDue(k + 1)
    BY <1>1, <1>5, <2>1, EmptyConcat
  <2>3. Listing[k + 1] = [host |-> HostAfter(f, s, h), port |-> PortAfter(f, s, q)]
    BY <1>1, <1>3, <1>12, <1>13, <1>15
  <2>4. Advances(s \o r)
    BY <1>8, <1>10, <1>12, <1>15, <2>2, <2>3, EntryHandedOn
  <2> QED
    BY <1>1, <2>4
<1> QED
  BY <1>14, <1>15

(* Inside an entry: server a is the next, its host is known, and what is   *)
(* waited for parses to its end.                                           *)
PartSetting(b, h, q, k, a) ==
  /\ EntriesSetting(b, h, q, k) /\ k < Len(Listing) /\ a = Listing[k + 1] /\ h = a.host

LEMMA NextListed ==
  ASSUME NEW k \in 0..Len(Listing), k < Len(Listing), NEW a, a = Listing[k + 1]
  PROVE  /\ k + 1 \in 0..Len(Listing) /\ a = [host |-> a.host, port |-> a.port]
         /\ IsSequence(a.port) /\ Len(a.port) = 2
<1>1. PICK L : L = Len(Listing)
  OBVIOUS
<1>2. k + 1 \in 1..L /\ k + 1 \in 0..L
  <2>1. L \in Nat /\ k \in 0..L /\ k < L
    BY <1>1, ListingFacts
  <2> QED
    BY ONLY <2>1
<1>3. /\ a = [host |-> a.host, port |-> a.port] /\ a.port \in Seq(Digits) /\ Len(a.port) = 2
  BY <1>1, <1>2, ListingFacts
<1>4. IsSequence(a.port)
  BY <1>3, SequenceOf
<1> QED
  BY <1>1, <1>2, <1>3, <1>4

(* A part is taken in, and what it leads to parses with what comes next.   *)
LEMMA PartTaken ==
  ASSUME NEW b, NEW h, NEW q, NEW k, NEW a, PartSetting(b, h, q, k, a),
         NEW f, f \notin {"num popular", "ip", "string index", "flags", "field type", "default port"}
                \/ f = "string index",
         NEW n \in {1, 2}, NEW rest, IsSequence(rest), todo = Wait(f, n) \o rest,
         NEW s, IsSequence(s), Len(s) = n, f = "string index" => s[1] = NotAString,
         NEW c, IsSequence(c), NEW next, next = After(f, s, rest), Parses(next, c, a.port),
         NEW q1, q1 = PortAfter(f, s, q), q1 = a.port
  PROVE  Advances(s \o (c \o EntriesDue(k + 1)))
<1>0. /\ EntriesSetting(b, h, q, k) /\ k < Len(Listing) /\ a = Listing[k + 1] /\ h = a.host
      /\ session \in Sessions /\ session.kind = "sbv2" /\ k \in 0..Len(Listing)
  BY DEF PartSetting, EntriesSetting
<1>1. /\ k + 1 \in 0..Len(Listing) /\ a = [host |-> a.host, port |-> a.port]
  BY <1>0, NextListed
<1>2. PICK g, r : g = EntriesDue(k + 1) /\ r = c \o g
  OBVIOUS
<1>3. IsSequence(g)
  BY <1>0, <1>1, <1>2, EntriesDueFacts
<1>4. IsSequence(r)
  BY <1>2, <1>3, ConcatType
<1>5. Comes(f, n, rest, s, r)
  <2>1. n # 0
    BY ONLY n \in {1, 2}
  <2> QED
    BY <1>4, <2>1, Zenon DEF Comes
<1>6. /\ ByteAfter(f, s, b) = b /\ HostAfter(f, s, h) = h
      /\ f # "field type" /\ f # "default port"
  <2>1. f # "flags" /\ f # "ip" /\ f # "field type" /\ f # "default port"
    OBVIOUS
  <2> QED
    BY <2>1, Zenon DEF ByteAfter, HostAfter
<1>7. CASE next # <<>>
  <2>1. AtPart(next, r, h, q1, a, k + 1)
    BY <1>0, <1>2, <1>7 DEF AtPart
  <2>2. AtEntries(next, r, b, h, q1, k)
    BY <1>0, <2>1 DEF AtEntries
  <2>3. Advances(s \o r)
    BY <1>0, <1>5, <1>6, <1>7, <2>2, EntryField
  <2> QED
    BY <1>2, <2>3
<1>8. CASE next = <<>>
  <2>1. c = <<>>
    BY <1>8, NothingLeft
  <2>2. r = EntriesDue(k + 1)
    BY <1>2, <1>3, <2>1, EmptyConcat
  <2>3. Listing[k + 1] = [host |-> HostAfter(f, s, h), port |-> PortAfter(f, s, q)]
    BY <1>0, <1>1, <1>6
  <2>4. Advances(s \o r)
    BY <1>0, <1>5, <1>6, <1>8, <2>2, <2>3, EntryHandedOn
  <2> QED
    BY <1>2, <2>4
<1> QED
  BY <1>7, <1>8

PlainParts == {"port", "private ip", "private port", "icmp ip", "key byte", "key short"}

LEMMA AfterPart ==
  ASSUME NEW f \in PlainParts, NEW data, NEW rest
  PROVE  After(f, data, rest) = rest
<1>1. CASE f = "port"
  <2>1. After("port", data, rest) = rest
    BY AfterOthers
  <2> QED
    BY <1>1, <2>1
<1>2. CASE f = "private ip"
  <2>1. After("private ip", data, rest) = rest
    BY AfterOthers
  <2> QED
    BY <1>2, <2>1
<1>3. CASE f = "private port"
  <2>1. After("private port", data, rest) = rest
    BY AfterOthers
  <2> QED
    BY <1>3, <2>1
<1>4. CASE f = "icmp ip"
  <2>1. After("icmp ip", data, rest) = rest
    BY AfterOthers
  <2> QED
    BY <1>4, <2>1
<1>5. CASE f = "key byte"
  <2>1. After("key byte", data, rest) = rest
    BY AfterOthers
  <2> QED
    BY <1>5, <2>1
<1>6. CASE f = "key short"
  <2>1. After("key short", data, rest) = rest
    BY AfterOthers
  <2> QED
    BY <1>6, <2>1
<1> QED
  BY <1>1, <1>2, <1>3, <1>4, <1>5, <1>6 DEF PlainParts

LEMMA AfterRule ==
  ASSUME NEW data, NEW rest
  PROVE  /\ After("rules", data, rest) =
              IF data[1] = Zero THEN rest
              ELSE Wait("rule", 1) \o Wait("value", 1) \o Wait("next rule", 1)
         /\ After("next rule", data, rest) =
              IF data[1] = Zero THEN rest
              ELSE Wait("rule", 1) \o Wait("value", 1) \o Wait("next rule", 1)
<1>1. After("rules", data, rest) =
        IF data[1] = Zero THEN rest
        ELSE Wait("rule", 1) \o Wait("value", 1) \o Wait("next rule", 1)
  BY Zenon DEF After, Strings
<1>2. After("next rule", data, rest) =
        IF data[1] = Zero THEN rest
        ELSE Wait("rule", 1) \o Wait("value", 1) \o Wait("next rule", 1)
  BY Zenon DEF After, Strings
<1> QED
  BY <1>1, <1>2, Zenon

LEMMA AfterIndex ==
  ASSUME NEW data, NEW rest
  PROVE  After("string index", data, rest) = Wait("string", 1) \o rest
BY Zenon DEF After, Strings

(* A part of one field. *)
LEMMA PlainAdvances ==
  ASSUME NEW b, NEW h, NEW q, NEW k, NEW a, PartSetting(b, h, q, k, a),
         NEW f \in PlainParts, NEW n \in {1, 2}, NEW rest, IsSequence(rest),
         todo = Wait(f, n) \o rest, NEW s, IsSequence(s), Len(s) = n,
         NEW c, IsSequence(c), Parses(rest, c, a.port),
         f = "port" => s = a.port, f # "port" => q = a.port
  PROVE  Advances(s \o (c \o EntriesDue(k + 1)))
<1>1. rest = After(f, s, rest)
  BY AfterPart
<1>2. /\ f \notin {"num popular", "ip", "string index", "flags", "field type", "default port"}
      /\ f # "string index"
  BY DEF PlainParts
<1>3. PICK q1 : q1 = PortAfter(f, s, q)
  OBVIOUS
<1>4. q1 = a.port
  <2>1. f # "flags"
    BY <1>2
  <2> QED
    BY <1>3, <2>1, Zenon DEF PortAfter
<1> QED
  BY <1>1, <1>2, <1>3, <1>4, PartTaken

(* The end of a string, or of the rules. *)
LEMMA ZeroAdvances ==
  ASSUME NEW b, NEW h, NEW q, NEW k, NEW a, PartSetting(b, h, q, k, a),
         NEW f \in {"string", "rule", "value", "next rule"}, NEW rest, IsSequence(rest),
         todo = Wait(f, 1) \o rest, NEW c, IsSequence(c), Parses(rest, c, a.port), q = a.port
  PROVE  Advances(<<Zero>> \o (c \o EntriesDue(k + 1)))
<1>1. PICK s, n : s = <<Zero>> /\ n = 1
  OBVIOUS
<1>2. IsSequence(s) /\ Len(s) = n /\ s[1] = Zero /\ n \in {1, 2}
  BY <1>1, OneSequence
<1>3. rest = After(f, s, rest)
  <2>1. CASE f = "string"
    <3>1. After("string", s, rest) = rest
      BY <1>2, AfterTexts
    <3> QED
      BY <2>1, <3>1
  <2>2. CASE f = "rule"
    <3>1. After("rule", s, rest) = rest
      BY <1>2, AfterTexts
    <3> QED
      BY <2>2, <3>1
  <2>3. CASE f = "value"
    <3>1. After("value", s, rest) = rest
      BY <1>2, AfterTexts
    <3> QED
      BY <2>3, <3>1
  <2>4. CASE f = "next rule"
    <3>1. After("next rule", s, rest) = rest
      BY <1>2, AfterRule
    <3> QED
      BY <2>4, <3>1
  <2> QED
    BY <2>1, <2>2, <2>3, <2>4
<1>4. /\ f \notin {"num popular", "ip", "string index", "flags", "field type", "default port"}
      /\ f # "string index" /\ f # "port" /\ f # "flags"
  OBVIOUS
<1>5. q = PortAfter(f, s, q)
  BY <1>4, Zenon DEF PortAfter
<1>6. todo = Wait(f, n) \o rest
  BY <1>1
<1>7. Advances(s \o (c \o EntriesDue(k + 1)))
  BY <1>2, <1>3, <1>4, <1>5, <1>6, PartTaken
<1> QED
  BY <1>1, <1>7

(* A symbol of a string. *)
LEMMA TextAdvances ==
  ASSUME NEW b, NEW h, NEW q, NEW k, NEW a, PartSetting(b, h, q, k, a),
         NEW f \in {"string", "value"}, NEW rest, IsSequence(rest),
         todo = Wait(f, 1) \o rest, NEW c, IsSequence(c), Parses(rest, c, a.port), q = a.port
  PROVE  Advances(<<"v">> \o ((<<Zero>> \o c) \o EntriesDue(k + 1)))
<1>1. PICK s, z, n, x : s = <<"v">> /\ z = <<Zero>> /\ n = 1 /\ x = z \o c
  OBVIOUS
<1>2. IsSequence(s) /\ Len(s) = n /\ s[1] = "v" /\ n \in {1, 2} /\ IsSequence(z)
  BY <1>1, OneSequence
<1>3. todo = After(f, s, rest)
  <2>0. s[1] # Zero
    BY <1>2 DEF Zero
  <2>1. CASE f = "string"
    <3>1. After("string", s, rest) = todo
      BY <2>0, AfterTexts
    <3> QED
      BY <2>1, <3>1
  <2>2. CASE f = "value"
    <3>1. After("value", s, rest) = todo
      BY <2>0, AfterTexts
    <3> QED
      BY <2>2, <3>1
  <2> QED
    BY <2>1, <2>2
<1>4. /\ f \notin {"num popular", "ip", "string index", "flags", "field type", "default port"}
      /\ f # "string index" /\ f # "port" /\ f # "flags" /\ f # "rules"
  OBVIOUS
<1>5. q = PortAfter(f, s, q)
  BY <1>4, Zenon DEF PortAfter
<1>6. todo = Wait(f, n) \o rest
  BY <1>1
<1>7. Parses(Wait(f, n) \o rest, z \o c, a.port)
  <2>1. Takes(f, n, z, a.port)
    BY <1>1 DEF Takes
  <2> QED
    BY <1>2, <1>4, <2>1, ParseOne
<1>8. Parses(todo, x, a.port) /\ IsSequence(x)
  <2>1. IsSequence(x)
    BY <1>1, <1>2, ConcatType
  <2> QED
    BY <1>1, <1>6, <1>7, <2>1
<1>9. Advances(s \o (x \o EntriesDue(k + 1)))
  BY <1>2, <1>3, <1>4, <1>5, <1>6, <1>8, PartTaken
<1> QED
  BY <1>1, <1>9

LEMMA IndexAdvances ==
  ASSUME NEW b, NEW h, NEW q, NEW k, NEW a, PartSetting(b, h, q, k, a),
         NEW rest, IsSequence(rest), todo = Wait("string index", 1) \o rest,
         NEW c, IsSequence(c), Parses(rest, c, a.port), q = a.port
  PROVE  Advances(<<NotAString>> \o ((Text \o c) \o EntriesDue(k + 1)))
<1>1. PICK f, g, s, n, x, t :
            /\ f = "string index" /\ g = "string" /\ s = <<NotAString>> /\ n = 1
            /\ x = Text \o c /\ t = Text
  OBVIOUS
<1>2. IsSequence(s) /\ Len(s) = n /\ s[1] = NotAString /\ n \in {1, 2} /\ IsSequence(t)
  BY <1>1, OneSequence, TextFacts
<1>3. PICK next : next = Wait(g, n) \o rest
  OBVIOUS
<1>4. next = After(f, s, rest)
  <2>1. After("string index", s, rest) = Wait("string", 1) \o rest
    BY AfterIndex
  <2> QED
    BY <1>1, <1>3, <2>1
<1>5. f = "string index" /\ f # "port" /\ f # "flags" /\ g # "rules"
  BY <1>1
<1>6. q = PortAfter(f, s, q)
  BY <1>5, Zenon DEF PortAfter
<1>7. todo = Wait(f, n) \o rest
  BY <1>1
<1>8. Parses(Wait(g, n) \o rest, t \o c, a.port)
  <2>1. Takes(g, n, t, a.port)
    BY <1>1 DEF Takes
  <2> QED
    BY <1>2, <1>5, <2>1, ParseOne
<1>9. Parses(next, x, a.port) /\ IsSequence(x)
  <2>1. IsSequence(x)
    BY <1>1, <1>2, ConcatType
  <2> QED
    BY <1>1, <1>3, <1>8, <2>1
<1>10. Advances(s \o (x \o EntriesDue(k + 1)))
  BY <1>2, <1>4, <1>5, <1>6, <1>7, <1>9, PartTaken
<1> QED
  BY <1>1, <1>10

LEMMA RulesParse ==
  ASSUME NEW p
  PROVE  /\ Parses(Wait("rule", 1) \o Wait("value", 1) \o Wait("next rule", 1),
                   <<Zero>> \o (Text \o <<Zero>>), p)
         /\ IsSequence(<<Zero>> \o (Text \o <<Zero>>))
<1>1. PICK r, v, x, n, z, t, e : /\ r = "rule" /\ v = "value" /\ x = "next rule" /\ n = 1
                                 /\ z = <<Zero>> /\ t = Text /\ e = <<>>
  OBVIOUS
<1>2. IsSequence(z) /\ IsSequence(t) /\ IsSequence(e) /\ Parses(e, e, p)
  BY <1>1, OneSequence, TextFacts, EmptySequence, ParseNothing
<1>3. Takes(r, n, z, p) /\ Takes(v, n, t, p) /\ Takes(x, n, z, p)
  BY <1>1 DEF Takes
<1>4. r # "rules" /\ v # "rules" /\ x # "rules"
  BY <1>1
<1>5. PICK wr, wv, wx : wr = Wait(r, n) /\ wv = Wait(v, n) /\ wx = Wait(x, n)
  OBVIOUS
<1>6. IsSequence(wr) /\ IsSequence(wv) /\ IsSequence(wx)
  BY <1>5, WaitSequence
<1>7. Parses(wx, z, p)
  <2>1. Parses(Wait(x, n) \o e, z \o e, p)
    BY <1>2, <1>3, <1>4, ParseOne
  <2>2. wx \o e = wx /\ z \o e = z
    BY <1>1, <1>2, <1>6, EmptyConcat
  <2> QED
    BY <1>5, <2>1, <2>2
<1>8. PICK w1, d1 : w1 = wv \o wx /\ d1 = t \o z
  OBVIOUS
<1>9. Parses(w1, d1, p) /\ IsSequence(w1) /\ IsSequence(d1)
  <2>1. Parses(Wait(v, n) \o wx, t \o z, p)
    BY <1>2, <1>3, <1>4, <1>6, <1>7, ParseOne
  <2>2. Parses(w1, d1, p)
    BY <1>5, <1>8, <2>1
  <2> QED
    BY <2>2, ParseSequences
<1>10. Parses(wr \o w1, z \o d1, p)
  <2>1. Parses(Wait(r, n) \o w1, z \o d1, p)
    BY <1>2, <1>3, <1>4, <1>9, ParseOne
  <2> QED
    BY <1>5, <2>1
<1>11. (wr \o wv) \o wx = wr \o w1
  <2>1. (wr \o wv) \o wx = wr \o (wv \o wx)
    BY ONLY <1>6, ConcatRegroups
  <2> QED
    BY <1>8, <2>1
<1>12. IsSequence(z \o d1)
  BY <1>2, <1>9, ConcatType
<1> QED
  BY <1>1, <1>5, <1>8, <1>10, <1>11, <1>12

LEMMA RulesAdvances ==
  ASSUME NEW b, NEW h, NEW q, NEW k, NEW a, PartSetting(b, h, q, k, a),
         todo = Wait("rules", 1), q = a.port
  PROVE  Advances(<<"v">> \o ((<<Zero>> \o (Text \o <<Zero>>)) \o EntriesDue(k + 1)))
<1>1. PICK f, s, n, x, e : /\ f = "rules" /\ s = <<"v">> /\ n = 1
                           /\ x = <<Zero>> \o (Text \o <<Zero>>) /\ e = <<>>
  OBVIOUS
<1>2. IsSequence(s) /\ Len(s) = n /\ s[1] = "v" /\ n \in {1, 2} /\ IsSequence(e)
  BY <1>1, OneSequence, EmptySequence
<1>3. PICK next : next = Wait("rule", 1) \o Wait("value", 1) \o Wait("next rule", 1)
  OBVIOUS
<1>4. next = After(f, s, e)
  <2>1. After("rules", s, e) =
          IF s[1] = Zero THEN e ELSE Wait("rule", 1) \o Wait("value", 1) \o Wait("next rule", 1)
    BY AfterRule
  <2>2. s[1] # Zero
    BY <1>2 DEF Zero
  <2> QED
    BY <1>1, <1>3, <2>1, <2>2
<1>5. /\ f \notin {"num popular", "ip", "string index", "flags", "field type", "default port"}
      /\ f # "string index" /\ f # "port" /\ f # "flags"
  BY <1>1
<1>6. q = PortAfter(f, s, q)
  BY <1>5, Zenon DEF PortAfter
<1>7. todo = Wait(f, n) \o e
  <2>1. PICK w : w = Wait("rules", 1)
    OBVIOUS
  <2>2. IsSequence(w)
    BY <2>1, WaitSequence
  <2> QED
    BY <1>1, <2>1, <2>2, EmptyConcat
<1>8. Parses(next, x, a.port) /\ IsSequence(x)
  BY <1>1, <1>3, RulesParse
<1>9. Advances(s \o (x \o EntriesDue(k + 1)))
  BY <1>2, <1>4, <1>5, <1>6, <1>7, <1>8, PartTaken
<1> QED
  BY <1>1, <1>9

MovesOver(a, b, c, g) == ((a \o b) \o c) \o g = a \o ((b \o c) \o g)

LEMMA MoveOver ==
  ASSUME NEW a, NEW b, NEW c, NEW g,
         IsSequence(a), IsSequence(b), IsSequence(c), IsSequence(g)
  PROVE  MovesOver(a, b, c, g)
<1>1. PICK bc : bc = b \o c
  OBVIOUS
<1>2. IsSequence(bc)
  BY <1>1, ConcatType
<1>3. (a \o b) \o c = a \o (b \o c)
  BY ONLY IsSequence(a), IsSequence(b), IsSequence(c), ConcatRegroups
<1>4. (a \o bc) \o g = a \o (bc \o g)
  BY ONLY <1>2, IsSequence(a), IsSequence(g), ConcatRegroups
<1> QED
  BY ONLY <1>1, <1>3, <1>4 DEF MovesOver

LEMMA PartAdvances ==
  ASSUME NEW b, NEW h, NEW q, NEW k, NEW a, EntriesSetting(b, h, q, k), k < Len(Listing),
         a = Listing[k + 1], NEW d, AtPart(todo, d, h, q, a, k + 1)
  PROVE  Advances(d)
<1>1. /\ PartSetting(b, h, q, k, a) /\ todo # <<>>
      /\ Head(todo).name = "port" \/ q = a.port
  BY DEF PartSetting, AtPart
<1>2. PICK c : Parses(todo, c, a.port) /\ d = c \o EntriesDue(k + 1)
  BY DEF AtPart
<1>3. PICK name, n, s, t, c2 : FirstPart(todo, c, a.port, name, n, s, t, c2)
  BY <1>1, <1>2, ParseFirst
<1>4. /\ todo = Wait(name, n) \o t /\ c = s \o c2
      /\ IsSequence(s) /\ IsSequence(t) /\ IsSequence(c2)
      /\ Takes(name, n, s, a.port)
      /\ name = "rules" => t = <<>>
      /\ Parses(t, c2, a.port)
  BY <1>3 DEF FirstPart
<1>5. name # "port" => q = a.port
  <2>1. Head(todo).name = name
    <3>1. PICK x : x = todo
      OBVIOUS
    <3>2. IsSequence(t) /\ x = Wait(name, n) \o t
      BY <1>4, <3>1
    <3>3. Head(x).name = name
      BY ONLY <3>2, FirstWait
    <3> QED
      BY <3>1, <3>3
  <2> QED
    BY <1>1, <2>1
<1>6. PICK g : g = EntriesDue(k + 1)
  OBVIOUS
<1>7. session \in Sessions /\ session.kind = "sbv2" /\ k \in 0..Len(Listing)
  BY DEF EntriesSetting
<1>8. /\ IsSequence(g) /\ IsSequence(a.port) /\ Len(a.port) = 2
  BY <1>6, <1>7, NextListed, EntriesDueFacts
<1>9. d = (s \o c2) \o g
  BY <1>2, <1>4, <1>6
<1>10. PICK v, z, x, i : v = <<"v">> /\ z = <<Zero>> /\ x = Text /\ i = <<NotAString>>
  OBVIOUS
<1>11. IsSequence(v) /\ IsSequence(z) /\ IsSequence(x) /\ IsSequence(i) /\ x = v \o z
  BY <1>10, OneSequence, TextFacts DEF Text
<1>12. ASSUME (s \o c2) \o g = s \o (c2 \o g), name \in PlainParts, n \in {1, 2}, Len(s) = n,
              name = "port" => s = a.port
       PROVE  Advances(d)
  <2>1. Advances(s \o (c2 \o EntriesDue(k + 1)))
    BY <1>1, <1>4, <1>5, <1>12, PlainAdvances
  <2> QED
    BY <1>6, <1>9, <1>12, <2>1
<1>13. (s \o c2) \o g = s \o (c2 \o g)
  <2>1. IsSequence(s) /\ IsSequence(c2) /\ IsSequence(g)
    BY <1>4, <1>8
  <2> QED
    BY ONLY <2>1, ConcatRegroups
<1>14. CASE name \in {"private ip", "icmp ip", "key byte"} /\ n = 1 /\ s = <<"v">>
  <2>1. Len(s) = 1 /\ name \in PlainParts /\ name # "port" /\ n \in {1, 2}
    BY <1>14, OneSequence DEF PlainParts
  <2> QED
    BY <1>12, <1>13, <1>14, <2>1
<1>15. CASE name \in {"private port", "key short"} /\ n = 2 /\ s = <<"v", "v">>
  <2>1. Len(s) = 2 /\ name \in PlainParts /\ name # "port" /\ n \in {1, 2}
    BY <1>15, ValueSequences DEF PlainParts
  <2> QED
    BY <1>12, <1>13, <1>15, <2>1
<1>16. CASE name = "port" /\ n = 2 /\ s = a.port
  <2>1. Len(s) = 2 /\ name \in PlainParts /\ n \in {1, 2}
    BY <1>8, <1>16 DEF PlainParts
  <2> QED
    BY <1>12, <1>13, <1>16, <2>1
<1>17. CASE name = "string index" /\ n = 1 /\ s = i \o x
  <2>1. Advances(<<NotAString>> \o ((Text \o c2) \o EntriesDue(k + 1)))
    BY <1>1, <1>4, <1>5, <1>17, IndexAdvances
  <2>2. MovesOver(i, x, c2, g)
    BY <1>4, <1>8, <1>11, MoveOver
  <2> QED
    BY <1>6, <1>9, <1>10, <1>17, <2>1, <2>2 DEF MovesOver
<1>18. CASE name \in {"string", "value"} /\ n = 1 /\ s = x
  <2>1. Advances(<<"v">> \o ((<<Zero>> \o c2) \o EntriesDue(k + 1)))
    BY <1>1, <1>4, <1>5, <1>18, TextAdvances
  <2>2. MovesOver(v, z, c2, g)
    BY <1>4, <1>8, <1>11, MoveOver
  <2> QED
    BY <1>6, <1>9, <1>10, <1>11, <1>18, <2>1, <2>2 DEF MovesOver
<1>19. CASE name \in {"string", "rule", "value", "next rule"} /\ n = 1 /\ s = z
  <2>1. Advances(<<Zero>> \o (c2 \o EntriesDue(k + 1)))
    BY <1>1, <1>4, <1>5, <1>19, ZeroAdvances
  <2> QED
    BY <1>6, <1>9, <1>10, <1>13, <1>19, <2>1
<1>20. CASE name = "rules" /\ n = 1 /\ s = v \o (z \o (x \o z))
  <2>1. t = <<>>
    BY <1>4, <1>20
  <2>2. c2 = <<>>
    BY <1>4, <2>1, NothingLeft
  <2>3. todo = Wait("rules", 1)
    <3>1. PICK w : w = Wait("rules", 1)
      OBVIOUS
    <3>2. IsSequence(w)
      BY <3>1, WaitSequence
    <3> QED
      BY <1>4, <1>20, <2>1, <3>1, <3>2, EmptyConcat
  <2>4. Advances(<<"v">> \o ((<<Zero>> \o (Text \o <<Zero>>)) \o EntriesDue(k + 1)))
    BY <1>1, <1>5, <1>20, <2>3, RulesAdvances
  <2>5. PICK y : y = z \o (x \o z)
    OBVIOUS
  <2>6. IsSequence(y)
    BY <1>10, <2>5, RulesParse
  <2>7. (v \o y) \o g = v \o (y \o g)
    <3>1. IsSequence(v) /\ IsSequence(y) /\ IsSequence(g)
      BY <1>8, <1>11, <2>6
    <3> QED
      BY ONLY <3>1, ConcatRegroups
  <2>8. s \o c2 = s
    BY <1>4, <2>2, EmptyConcat
  <2> QED
    BY <1>6, <1>9, <1>10, <1>20, <2>4, <2>5, <2>7, <2>8
<1> QED
  BY <1>4, <1>10, <1>14, <1>15, <1>16, <1>17, <1>18, <1>19, <1>20 DEF Takes

LEMMA EntriesAdvances ==
  ASSUME NEW b, NEW h, NEW q, NEW k, EntriesSetting(b, h, q, k),
         NEW d, AtEntries(todo, d, b, h, q, k)
  PROVE  Advances(d)
<1>1. CASE todo = EntryStart /\ d = EntriesDue(k)
  BY <1>1, FlagsAdvances
<1>2. CASE /\ k < Len(Listing) /\ todo = Wait("ip", 1)
           /\ b = session.flags[k + 1] /\ q = session.defaultPort
           /\ d = <<Listing[k + 1].host>> \o (PartsSent(b, Listing[k + 1].port) \o EntriesDue(k + 1))
  BY <1>2, HostAdvances
<1>3. CASE k = Len(Listing) /\ todo = Wait("ip", 1) /\ d = <<Last255>>
  BY <1>3, EndAdvances
<1>4. CASE k < Len(Listing) /\ AtPart(todo, d, h, q, Listing[k + 1], k + 1)
  BY <1>4, PartAdvances
<1> QED
  BY <1>1, <1>2, <1>3, <1>4 DEF AtEntries

(* Wherever the reader stands, the field it waits for is the next to come, *)
(* and with it the reader gets to the next place.                          *)
LEMMA PlaceAdvances ==
  ASSUME session \in Sessions, session.kind = "sbv2", IsSequence(handled), ~gotFatalError,
         NEW b, NEW h, NEW q, EntryIs(b, h, q), NEW d,
         Place(todo, d, fields, b, h, q, defaultPort, Len(handled))
  PROVE  Advances(d)
<1>1. CASE AtHeader(todo, d) /\ fields = <<>> /\ Len(handled) = 0
  BY <1>1, HeaderAdvances
<1>2. CASE /\ defaultPort = session.defaultPort /\ Len(handled) = 0
           /\ \E n \in 0..Len(session.fields) : KnownTypes(fields, n) /\ AtTypes(todo, d, n)
  <2>1. TypesSetting(b, h, q)
    BY <1>2 DEF TypesSetting
  <2> QED
    BY <1>2, <2>1, TypesAdvances
<1>3. CASE /\ defaultPort = session.defaultPort /\ fields = session.fields
           /\ Len(handled) \in 0..Len(Listing) /\ AtEntries(todo, d, b, h, q, Len(handled))
  <2>1. EntriesSetting(b, h, q, Len(handled))
    BY <1>3 DEF EntriesSetting
  <2> QED
    BY <1>3, <2>1, EntriesAdvances
<1> QED
  BY <1>1, <1>2, <1>3 DEF Place

-----------------------------------------------------------------------------
(* SBV2: the cipher state, and the order in which the list is handled.     *)

(* Once Shutdown has taken the cipher state away it is not made again, and *)
(* what is garbled was read after that.                                    *)
CipherOrder ==
  /\ enctypeXReady => enctypeXData = "live" /\ \A c \in Callers : shutdownPc[c] # "free"
  /\ garbled # 0 => enctypeXData # "none" /\ ~enctypeXReady
  /\ gotFatalError => lost

LEMMA CipherReturns ==
  ASSUME CipherOrder, ShutdownInv, NEW data, NEW isGarbage, Returns(data, isGarbage),
         \/ UNCHANGED cipherVars
         \/ enctypeXData = "none" /\ enctypeXData' = "live" /\ enctypeXReady' = TRUE,
         isGarbage => enctypeXData # "none" /\ ~enctypeXReady, garbled \in 0..1
  PROVE  CipherOrder'
<1>1. /\ UNCHANGED <<shutdownPc, gotFatalError, lost>>
      /\ garbled' = garbled + (IF isGarbage /\ dataBuffer # <<>> THEN 1 ELSE 0)
  BY DEF Returns, shutdownVars, histories
<1>2. garbled' # 0 => enctypeXData # "none" /\ ~enctypeXReady
  BY <1>1 DEF CipherOrder
<1>3. CASE UNCHANGED cipherVars
  BY <1>1, <1>2, <1>3 DEF CipherOrder, cipherVars
<1>4. CASE enctypeXData = "none" /\ enctypeXData' = "live" /\ enctypeXReady' = TRUE
  <2>1. \A c \in Callers : shutdownPc[c] # "free"
    BY <1>4 DEF ShutdownInv
  <2> QED
    BY <1>1, <1>2, <1>4, <2>1 DEF CipherOrder
<1> QED
  BY <1>3, <1>4

LEMMA CipherOrderStep ==
  ASSUME CipherOrder, WaitInv, ShutdownInv, CloseInv, session.kind = "sbv2",
         (MasterCloses /\ UNCHANGED sbv2Vars) \/ SBV2Next \/ UNCHANGED vars
  PROVE  CipherOrder'
<1>0. garbled \in 0..1
  BY DEF CloseInv
<1>1. CASE UNCHANGED <<enctypeXReady, enctypeXData, shutdownPc, garbled, gotFatalError>> /\ (lost => lost')
  BY <1>1 DEF CipherOrder
<1>2. CASE MasterCloses /\ UNCHANGED sbv2Vars
  <2>1. lost => lost'
    BY <1>2 DEF MasterCloses
  <2> QED
    BY <1>1, <1>2, <2>1 DEF sbv2Vars, cipherVars, shutdownVars
<1>3. CASE UNCHANGED vars
  BY <1>1, <1>3 DEF vars, sessionVars, histories, sbv2Vars, cipherVars, shutdownVars
<1>4. CASE WriteListRequest \/ RequestFails \/ \E n \in 1..Len(stream) : ReadField(n)
  <2>1. /\ UNCHANGED <<enctypeXReady, enctypeXData, shutdownPc, garbled, gotFatalError>>
        /\ lost => lost'
    BY <1>4 DEF WriteListRequest, RequestFails, ReadField, ReadErr, histories, sbv2Vars, cipherVars,
                shutdownVars
  <2> QED
    BY <1>1, <2>1
<1>5. CASE ReadFieldFails
  <2>1. UNCHANGED <<enctypeXReady, enctypeXData, shutdownPc, garbled>> /\ lost'
    BY <1>5 DEF ReadFieldFails, ReadErr, cipherVars, shutdownVars
  <2> QED
    BY <2>1 DEF CipherOrder
<1>6. CASE CheckReady
  <2>1. CASE enctypeXReady
    <3>1. UNCHANGED <<enctypeXReady, enctypeXData, shutdownPc, garbled, gotFatalError, lost>>
      BY <1>6, <2>1 DEF CheckReady, sessionVars, histories, cipherVars, shutdownVars
    <3> QED
      BY <1>1, <3>1
  <2>2. CASE ~enctypeXReady
    <3>1. PICK plain, noise : plain = dataBuffer \o Padding /\ noise = Garbage \o Padding
      OBVIOUS
    <3>2. Returns(plain, FALSE) \/ (enctypeXData # "none" /\ Returns(noise, TRUE))
      BY <1>6, <2>2, <3>1 DEF CheckReady
    <3>3. \/ UNCHANGED cipherVars
          \/ enctypeXData = "none" /\ enctypeXData' = "live" /\ enctypeXReady' = TRUE
      BY <1>6, CheckReadyStep
    <3> QED
      BY <1>0, <2>2, <3>2, <3>3, CipherReturns
  <2> QED
    BY <2>1, <2>2
<1>7. CASE Decrypt
  <2>1. PICK noise : noise = Garbage
    OBVIOUS
  <2>2. Returns(dataBuffer, FALSE) \/ (enctypeXData # "live" /\ Returns(noise, TRUE))
    BY <1>7, <2>1 DEF Decrypt
  <2>3. \/ UNCHANGED cipherVars
        \/ enctypeXData = "none" /\ enctypeXData' = "live" /\ enctypeXReady' = TRUE
    BY <1>7, DecryptStep
  <2>4. enctypeXData # "none" /\ (enctypeXData # "live" => ~enctypeXReady)
    BY <1>7 DEF Decrypt, WaitInv, CipherOrder
  <2> QED
    BY <1>0, <2>2, <2>3, <2>4, CipherReturns
<1>8. ASSUME NEW c \in Callers,
             ShutdownCloses(c) \/ ShutdownTests(c) \/ ShutdownClears(c) \/ ShutdownFrees(c)
      PROVE  CipherOrder'
  <2>1. UNCHANGED <<garbled, gotFatalError, lost>>
    BY <1>8 DEF ShutdownCloses, ShutdownTests, ShutdownClears, ShutdownFrees, notShutdown, histories
  <2>2. CASE ShutdownCloses(c) \/ ShutdownTests(c)
    <3>1. /\ UNCHANGED <<enctypeXReady, enctypeXData>>
          /\ \E x : x # "free" /\ shutdownPc' = [shutdownPc EXCEPT ![c] = x]
      BY <2>2 DEF ShutdownCloses, ShutdownTests, Steps, cipherVars
    <3>2. shutdownPc \in [Callers -> {"idle", "test", "clear", "free", "done"}]
      BY DEF ShutdownInv
    <3>3. \A d \in Callers : shutdownPc[d] # "free" => shutdownPc'[d] # "free"
      BY <3>1, <3>2
    <3> QED
      BY <2>1, <3>1, <3>3 DEF CipherOrder
  <2>3. CASE ShutdownClears(c)
    <3>1. enctypeXReady' = FALSE /\ enctypeXData' = enctypeXData
      BY <2>3 DEF ShutdownClears
    <3> QED
      BY <2>1, <3>1 DEF CipherOrder
  <2>4. CASE ShutdownFrees(c)
    <3>1. /\ shutdownPc[c] = "free" /\ enctypeXReady' = enctypeXReady /\ enctypeXData' = "freed"
      BY <2>4 DEF ShutdownFrees, Steps
    <3>2. ~enctypeXReady
      BY <3>1 DEF CipherOrder
    <3> QED
      BY <2>1, <3>1, <3>2 DEF CipherOrder
  <2> QED
    BY <1>8, <2>2, <2>3, <2>4
<1> QED
  BY <1>2, <1>3, <1>4, <1>5, <1>6, <1>7, <1>8 DEF SBV2Next, SBV2Works, SBV2Fails

-----------------------------------------------------------------------------
(* The reader's place, and that what was read and is on the stream is the  *)
(* start of what is to come there.                                         *)
SBV2At ==
  \E t, d, fs, b, h, q, dp, k :
    /\ t = todo /\ fs = fields /\ dp = defaultPort /\ k = Len(handled)
    /\ EntryIs(b, h, q)
    /\ Place(t, d, fs, b, h, q, dp, k)
    /\ IsSequence(stream) /\ StartOf(dataBuffer \o stream, d)

Unread ==
  /\ handled = <<>> /\ stream = <<>> /\ dataBuffer = <<>>
  /\ todo = Wait("random length", 1) /\ fields = <<>>
  /\ EntryIs(Zero, Zero, <<Zero, Zero>>)

ListOrder ==
  /\ IsSequence(handled)
  /\ garbled = 0 => InOrder
  /\ \A i \in 1..Len(handled) : i < Len(handled) => handled[i] = Listing[i]
  /\ pc = "request" => Unread
  /\ pc = "list" /\ garbled = 0 /\ ~gotFatalError => SBV2At
  /\ over /\ SBV2GotAll => pc = "done" /\ Len(handled) = Len(Listing)

(* The place stays, and what is to come does.                              *)
LEMMA PlaceKept ==
  ASSUME SBV2At, UNCHANGED <<session, todo, fields, defaultPort, entry, handled>>,
         \A d : IsSequence(stream) /\ StartOf(dataBuffer \o stream, d) =>
                  IsSequence(stream') /\ StartOf(dataBuffer' \o stream', d)
  PROVE  SBV2At'
<1>1. PICK t, d, fs, b, h, q, dp, k :
            /\ t = todo /\ fs = fields /\ dp = defaultPort /\ k = Len(handled)
            /\ EntryIs(b, h, q)
            /\ Place(t, d, fs, b, h, q, dp, k)
            /\ IsSequence(stream) /\ StartOf(dataBuffer \o stream, d)
  BY DEF SBV2At
<1>2. PlaceStays(t, d, fs, b, h, q, dp, k)
  BY SamePlace
<1>3. Place(t, d, fs, b, h, q, dp, k)'
  BY <1>1, <1>2 DEF PlaceStays
<1>4. EntryIs(b, h, q)'
  BY <1>1 DEF EntryIs
<1>5. t = todo' /\ fs = fields' /\ dp = defaultPort' /\ k = Len(handled')
  BY <1>1
<1>6. IsSequence(stream') /\ StartOf(dataBuffer' \o stream', d)
  BY <1>1
<1> QED
  BY <1>3, <1>4, <1>5, <1>6 DEF SBV2At

(* The request: the answer is on the way.                                  *)
LEMMA AnswerPlace ==
  ASSUME session \in Sessions, session.kind = "sbv2", Unread, WriteListRequest
  PROVE  SBV2At'
<1>1. PICK t, d, e, z : /\ t = Wait("random length", 1) /\ d = Response /\ e = <<>>
                        /\ z = <<Zero, Zero>>
  OBVIOUS
<1>2. /\ handled' = e /\ dataBuffer' = e /\ todo' = t /\ fields' = e /\ entry' = entry
      /\ stream' = (IF closed THEN e ELSE e \o d) /\ session' = session
  BY <1>1 DEF Unread, WriteListRequest, sbv2Vars, parserVars
<1>3. d = <<"1">> \o (<<"v">> \o (<<"2">> \o (<<"v", "v">> \o KeyedPart)))
  BY <1>1, ResponseParts
<1>4. IsSequence(d)
  <2>1. PICK x, y : x = <<"1">> /\ y = <<"v">> \o (<<"2">> \o (<<"v", "v">> \o KeyedPart))
    OBVIOUS
  <2>2. IsSequence(x) /\ IsSequence(y)
    BY <2>1, OneSequence, HeaderTexts
  <2>3. IsSequence(x \o y)
    BY <2>2, ConcatType
  <2> QED
    BY <1>3, <2>1, <2>3
<1>5. IsSequence(e) /\ Len(e) = 0
  BY <1>1, EmptySequence
<1>6. IsSequence(stream') /\ StartOf(dataBuffer' \o stream', d)
  <2>1. e \o d = d /\ e \o e = e
    BY <1>1, <1>4, <1>5, EmptyConcat
  <2>2. StartOf(e, d) /\ StartOf(d, d)
    BY <1>1, <1>4, EmptyStart, WholeStart
  <2> QED
    BY <1>2, <1>4, <1>5, <2>1, <2>2
<1>7. PICK dp : dp = defaultPort'
  OBVIOUS
<1>8. Place(t, d, e, Zero, Zero, z, dp, 0)
  BY <1>1, <1>3 DEF Place, AtHeader
<1>9. PlaceStays(t, d, e, Zero, Zero, z, dp, 0)
  BY <1>2, SamePlace
<1>10. Place(t, d, e, Zero, Zero, z, dp, 0)'
  BY <1>8, <1>9 DEF PlaceStays
<1>11. EntryIs(Zero, Zero, z)'
  BY <1>1, <1>2 DEF Unread, EntryIs
<1> QED
  BY <1>2, <1>5, <1>6, <1>7, <1>10, <1>11 DEF SBV2At

LEMMA FatalHandsNothing ==
  ASSUME gotFatalError, NEW data, Arrives(data)
  PROVE  handled' = handled
BY DEF Arrives, Stops, GoOn

LEMMA FieldHandsOne ==
  ASSUME NEW data, Arrives(data)
  PROVE  handled' = handled \/ \E e : handled' = Append(handled, e)
BY DEF Arrives, Stops, GoOn, Handle

(* All before the last server are those of the list.                       *)
LastStrange == \A i \in 1..Len(handled) : i < Len(handled) => handled[i] = Listing[i]

LEMMA OneMore ==
  ASSUME InOrder, handled' = handled \/ \E e : handled' = Append(handled, e)
  PROVE  IsSequence(handled') /\ LastStrange'
<1>1. IsSequence(handled) /\ Len(handled) \in Nat
  BY LenProperties DEF InOrder, IsSequence
<1>2. CASE handled' = handled
  BY <1>1, <1>2 DEF InOrder, LastStrange
<1>3. ASSUME NEW e, handled' = Append(handled, e)
      PROVE  IsSequence(handled') /\ LastStrange'
  <2>1. IsSequence(handled') /\ Len(handled') = Len(handled) + 1
    BY <1>1, <1>3, AppendSequence
  <2>2. \A i \in 1..Len(handled) + 1 : handled'[i] = IF i <= Len(handled) THEN handled[i] ELSE e
    BY <1>1, <1>3, AppendElements
  <2>3. \A i \in 1..Len(handled) : handled'[i] = Listing[i]
    BY <1>1, <2>2 DEF InOrder
  <2> QED
    BY <1>1, <2>1, <2>3 DEF LastStrange
<1> QED
  BY <1>2, <1>3

LEMMA OrderLast ==
  ASSUME InOrder
  PROVE  LastStrange
BY DEF InOrder, LastStrange

(* A field that was read in full and decrypted right.                      *)
LEMMA FieldReturns ==
  ASSUME SBV2At, InOrder, session \in Sessions, session.kind = "sbv2", pc = "list",
         ~gotFatalError, Returns(dataBuffer, FALSE), IsSequence(dataBuffer),
         Len(dataBuffer) = Need
  PROVE  /\ InOrder' /\ [Delivery!DeliveryNext]_(Delivery!deliveryVars)
         /\ \/ pc' = "list" /\ SBV2At'
            \/ pc' = "done" /\ (session.popular = Zero => Len(handled') = Len(Listing))
<1>1. PICK t, d, fs, b, h, q, dp, k :
            /\ t = todo /\ fs = fields /\ dp = defaultPort /\ k = Len(handled)
            /\ EntryIs(b, h, q)
            /\ Place(t, d, fs, b, h, q, dp, k)
            /\ IsSequence(stream) /\ StartOf(dataBuffer \o stream, d)
  BY DEF SBV2At
<1>2. /\ IsSequence(handled)
      /\ Place(todo, d, fields, b, h, q, defaultPort, Len(handled))
  BY <1>1 DEF InOrder
<1>3. Advances(d)
  BY <1>1, <1>2, PlaceAdvances
<1>4. PICK s, r : /\ d = s \o r /\ IsSequence(s) /\ IsSequence(r)
                  /\ Len(s) = Need /\ s # <<>>
                  /\ Arrives(s) => Lands(r)
  BY <1>3 DEF Advances
<1>5. dataBuffer = s /\ StartOf(stream, r)
  <2>1. PICK x, n : x = dataBuffer \o stream /\ n = Len(dataBuffer)
    OBVIOUS
  <2>2. /\ SubSeq(x, 1, n) = dataBuffer /\ SubSeq(x, n + 1, Len(x)) = stream
        /\ n <= Len(x)
    <3>1. Len(x) = n + Len(stream) /\ n \in Nat /\ Len(stream) \in Nat
      BY <1>1, <2>1, ConcatSequences
    <3> QED
      BY <1>1, <2>1, <3>1, ConcatCut
  <2>3. IsSequence(s) /\ IsSequence(r) /\ StartOf(x, s \o r) /\ n = Len(s) /\ n <= Len(x)
    BY <1>1, <1>4, <2>1, <2>2
  <2>4. SubSeq(x, 1, n) = s /\ StartOf(SubSeq(x, n + 1, Len(x)), r)
    BY ONLY <2>3, ReadPart
  <2> QED
    BY <2>2, <2>4
<1>6. /\ Arrives(s) /\ dataBuffer' = <<>> /\ stream' = stream /\ session' = session
  BY <1>5 DEF Returns, networkVars
<1>7. Lands(r)
  BY <1>4, <1>6
<1>8. ~over
  BY DEF over
<1>9. CASE /\ pc' = pc
           /\ \E b1, h1, q1 :
                /\ entry' = [byte |-> b1, host |-> h1, port |-> q1]
                /\ Place(todo', r, fields', b1, h1, q1, defaultPort', Len(handled'))
           /\ \/ handled' = handled
              \/ /\ Len(handled) < Len(Listing)
                 /\ handled' = Append(handled, Listing[Len(handled) + 1])
  <2>1. InOrder' /\ [Delivery!DeliveryNext]_(Delivery!deliveryVars)
    <3>1. CASE handled' = handled
      BY <1>8, <3>1, NothingHandled
    <3>2. CASE Len(handled) < Len(Listing) /\ handled' = Append(handled, Listing[Len(handled) + 1])
      BY <1>8, <3>2, NextHandled
    <3> QED
      BY <1>9, <3>1, <3>2
  <2>2. PICK b1, h1, q1 :
          /\ entry' = [byte |-> b1, host |-> h1, port |-> q1]
          /\ Place(todo', r, fields', b1, h1, q1, defaultPort', Len(handled'))
    BY <1>9
  <2>3. PICK t1, fs1, dp1, k1 : t1 = todo' /\ fs1 = fields' /\ dp1 = defaultPort' /\ k1 = Len(handled')
    OBVIOUS
  <2>4. Place(t1, r, fs1, b1, h1, q1, dp1, k1)
    BY <2>2, <2>3
  <2>5. PlaceStays(t1, r, fs1, b1, h1, q1, dp1, k1)
    BY <1>6, SamePlace
  <2>6. Place(t1, r, fs1, b1, h1, q1, dp1, k1)'
    BY <2>4, <2>5 DEF PlaceStays
  <2>7. EntryIs(b1, h1, q1)'
    BY <2>2 DEF EntryIs
  <2>8. IsSequence(stream') /\ StartOf(dataBuffer' \o stream', r)
    <3>1. PICK e : e = <<>>
      OBVIOUS
    <3>2. e \o stream = stream
      BY <1>1, <3>1, EmptyConcat
    <3> QED
      BY <1>1, <1>5, <1>6, <3>1, <3>2
  <2>9. SBV2At'
    BY <2>3, <2>6, <2>7, <2>8 DEF SBV2At
  <2> QED
    BY <1>9, <2>1, <2>9
<1>10. CASE /\ pc' = "done" /\ handled' = handled
            /\ session.popular = Zero => Len(handled) = Len(Listing)
  <2>1. over'
    BY <1>10 DEF over
  <2>2. InOrder' /\ [Delivery!DeliveryNext]_(Delivery!deliveryVars)
    BY <1>10, <2>1, NothingHandled
  <2> QED
    BY <1>10, <2>2
<1> QED
  BY <1>7, <1>9, <1>10 DEF Lands

(* The wait returns what it has: whatever it is.                           *)
LEMMA ReturnsOrder ==
  ASSUME ListOrder, CipherOrder, CipherOrder', WaitInv, CloseInv, SBV2Panics',
         session \in Sessions, session.kind = "sbv2", pc = "list", waiting # "read",
         NEW data, NEW isGarbage \in BOOLEAN, Returns(data, isGarbage),
         ~isGarbage /\ ~gotFatalError => data = dataBuffer,
         isGarbage => enctypeXData # "none" /\ ~enctypeXReady /\ UNCHANGED cipherVars
  PROVE  ListOrder' /\ [SBV2InStep' => Delivery!DeliveryNext]_(Delivery!deliveryVars)
<1>1. /\ garbled' = garbled + (IF isGarbage /\ dataBuffer # <<>> THEN 1 ELSE 0)
      /\ Arrives(data) /\ gotFatalError' = gotFatalError /\ session' = session
  BY DEF Returns
<1>2. /\ pc' \in {"list", "done", "panic"}
      /\ ~over
  BY <1>1 DEF Arrives, Stops, GoOn, over
<1>3. garbled \in 0..1 /\ (garbled = 1 => dataBuffer = <<>>)
  BY DEF CloseInv
<1>4. /\ IsSequence(handled) /\ LastStrange
      /\ garbled = 0 => InOrder
  BY DEF ListOrder, LastStrange
<1>5. CASE gotFatalError
  <2>1. handled' = handled
    BY <1>1, <1>5, FatalHandsNothing
  <2>2. (InOrder => InOrder') /\ [Delivery!DeliveryNext]_(Delivery!deliveryVars)
    BY <1>2, <2>1, NothingHandled
  <2>3. garbled' = 0 => garbled = 0
    BY <1>1, <1>3
  <2>4. lost'
    BY <1>1, <1>5 DEF CipherOrder
  <2>5. ~SBV2GotAll'
    BY <2>4 DEF SBV2GotAll
  <2>6. IsSequence(handled') /\ LastStrange'
    BY <1>4, <2>1 DEF LastStrange
  <2>7. ListOrder'
    BY <1>1, <1>2, <1>4, <1>5, <2>2, <2>3, <2>5, <2>6 DEF ListOrder, LastStrange
  <2> QED
    BY <2>2, <2>7
<1>6. CASE ~gotFatalError
  <2>1. IsSequence(dataBuffer) /\ Len(dataBuffer) = Need
    BY <1>6 DEF WaitInv
  <2>2. enctypeXData # "none" => dataBuffer # <<>>
    <3>1. enctypeXData # "none" => Need >= 1
      BY NeedType DEF WaitInv, TodoInv, Need
    <3> QED
      BY <2>1, <3>1, EmptySequence
  <2>3. garbled = 0
    <3>1. garbled # 0 => enctypeXData # "none" /\ dataBuffer = <<>>
      BY <1>3 DEF CipherOrder
    <3> QED
      BY <2>2, <3>1
  <2>4. pc' # "panic"
    BY <1>1, <1>6 DEF SBV2Panics
  <2>5. CASE ~isGarbage
    <3>1. Returns(dataBuffer, FALSE)
      <4>1. isGarbage = FALSE
        BY <2>5
      <4> QED
        BY <1>6, <4>1
    <3>2. SBV2At /\ InOrder
      BY <1>6, <2>3 DEF ListOrder
    <3>3. /\ InOrder' /\ [Delivery!DeliveryNext]_(Delivery!deliveryVars)
          /\ \/ pc' = "list" /\ SBV2At'
             \/ pc' = "done" /\ (session.popular = Zero => Len(handled') = Len(Listing))
      BY <1>6, <2>1, <3>1, <3>2, FieldReturns
    <3>4. IsSequence(handled') /\ LastStrange'
      BY <3>3 DEF InOrder, LastStrange
    <3>5. over' /\ SBV2GotAll' => pc' = "done" /\ Len(handled') = Len(Listing)
      BY <1>1, <3>3 DEF over, SBV2GotAll
    <3>6. ListOrder'
      BY <3>3, <3>4, <3>5 DEF ListOrder, LastStrange
    <3> QED
      BY <3>3, <3>6
  <2>6. CASE isGarbage
    <3>1. garbled' = 1
      BY <1>1, <2>2, <2>3, <2>6
    <3>2. handled' = handled \/ \E e : handled' = Append(handled, e)
      BY <1>1, FieldHandsOne
    <3>3. IsSequence(handled') /\ LastStrange'
      BY <1>4, <2>3, <3>2, OneMore
    <3>4. ~SBV2GotAll' /\ ~SBV2InStep'
      BY <2>6, <3>1 DEF SBV2GotAll, SBV2InStep, cipherVars
    <3>5. ListOrder'
      BY <1>2, <3>1, <3>3, <3>4 DEF ListOrder, LastStrange
    <3> QED
      BY <3>4, <3>5
  <2> QED
    BY <2>5, <2>6
<1> QED
  BY <1>5, <1>6

(* Nothing is returned by a wait.                                          *)
LEMMA NothingReturned ==
  ASSUME ListOrder, UNCHANGED <<session, handled, garbled>>, lost => lost',
         over => pc' = pc, over' => over \/ lost',
         pc' = "request" => Unread',
         pc' = "list" /\ garbled = 0 /\ ~gotFatalError' => SBV2At'
  PROVE  ListOrder' /\ [SBV2InStep' => Delivery!DeliveryNext]_(Delivery!deliveryVars)
<1>1. over => over'
  BY DEF over
<1>2. (InOrder => InOrder') /\ [Delivery!DeliveryNext]_(Delivery!deliveryVars)
  BY <1>1, NothingHandled
<1>3. over' /\ SBV2GotAll' => over /\ SBV2GotAll
  BY DEF SBV2GotAll
<1>4. over' /\ SBV2GotAll' => pc' = "done" /\ Len(handled') = Len(Listing)
  BY <1>3 DEF ListOrder
<1>5. IsSequence(handled') /\ \A i \in 1..Len(handled') : i < Len(handled') => handled'[i] = Listing[i]
  BY DEF ListOrder
<1>6. garbled' = 0 => InOrder'
  BY <1>2 DEF ListOrder
<1> QED
  BY <1>2, <1>4, <1>5, <1>6 DEF ListOrder

LEMMA PlaceCut ==
  ASSUME SBV2At, MasterCloses, UNCHANGED sbv2Vars, IsSequence(dataBuffer)
  PROVE  SBV2At'
<1>1. PICK n \in 0..Len(stream) : stream' = SubSeq(stream, 1, n)
  BY DEF MasterCloses
<1>2. UNCHANGED <<session, todo, fields, defaultPort, entry, handled, dataBuffer>>
  BY DEF MasterCloses, sbv2Vars, parserVars
<1>3. ASSUME NEW d, IsSequence(stream), StartOf(dataBuffer \o stream, d)
      PROVE  IsSequence(stream') /\ StartOf(dataBuffer' \o stream', d)
  BY <1>1, <1>2, <1>3, StartCutAfter
<1> QED
  BY <1>2, <1>3, PlaceKept

LEMMA PlaceRead ==
  ASSUME SBV2At, NEW n \in 1..Len(stream), ReadField(n), IsSequence(dataBuffer)
  PROVE  SBV2At'
<1>1. /\ n \in Nat /\ n <= Len(stream)
      /\ dataBuffer' = dataBuffer \o SubSeq(stream, 1, n)
      /\ stream' = SubSeq(stream, n + 1, Len(stream))
      /\ UNCHANGED <<session, todo, fields, defaultPort, entry, handled>>
  BY DEF ReadField, Reads, Chunk, Remaining, parserVars
<1>2. ASSUME NEW d, IsSequence(stream), StartOf(dataBuffer \o stream, d)
      PROVE  IsSequence(stream') /\ StartOf(dataBuffer' \o stream', d)
  <2>1. PICK none : none = <<>>
    OBVIOUS
  <2>2. IsSequence(d) /\ IsSequence(none) /\ d \o none = d
    BY <1>2, <2>1, EmptySequence, EmptyConcat DEF StartOf
  <2>3. Len(dataBuffer) + n <= Len(d)
    <3>1. /\ Len(dataBuffer \o stream) = Len(dataBuffer) + Len(stream)
          /\ Len(dataBuffer) \in Nat /\ Len(stream) \in Nat
      BY <1>2, ConcatSequences
    <3>2. Len(d) \in Nat /\ Len(dataBuffer \o stream) <= Len(d)
      BY <1>2, LenProperties DEF StartOf, IsSequence
    <3> QED
      BY <1>1, <3>1, <3>2
  <2>4. /\ IsSequence(dataBuffer) /\ IsSequence(stream) /\ IsSequence(d) /\ IsSequence(none)
        /\ StartOf(dataBuffer \o stream, d \o none)
        /\ n \in Nat /\ n <= Len(stream) /\ Len(dataBuffer) + n <= Len(d)
    BY <1>1, <1>2, <2>2, <2>3
  <2>5. /\ IsSequence(SubSeq(stream, n + 1, Len(stream)))
        /\ StartOf((dataBuffer \o SubSeq(stream, 1, n)) \o SubSeq(stream, n + 1, Len(stream)),
                   d \o none)
    BY ONLY <2>4, StartRead
  <2> QED
    BY <1>1, <2>2, <2>5
<1> QED
  BY <1>1, <1>2, PlaceKept

(* Nothing of what is waited for and handed on changes.                    *)
LEMMA OrderUntouched ==
  ASSUME ListOrder,
         UNCHANGED <<session, pc, stream, handled, lost, garbled, gotFatalError, dataBuffer,
                     parserVars>>
  PROVE  ListOrder' /\ [SBV2InStep' => Delivery!DeliveryNext]_(Delivery!deliveryVars)
<1>1. UNCHANGED <<todo, fields, defaultPort, entry>>
  BY DEF parserVars
<1>2. SBV2At => SBV2At'
  BY <1>1, PlaceKept
<1>3. Unread => Unread'
  BY <1>1 DEF Unread, EntryIs
<1>4. over' = over
  BY DEF over
<1> QED
  BY <1>2, <1>3, <1>4, NothingReturned DEF ListOrder

LEMMA ListOrderStep ==
  ASSUME ListOrder, CipherOrder, WaitInv, ShutdownInv, SBV2Panics, CloseInv,
         session \in Sessions, session.kind = "sbv2",
         (MasterCloses /\ UNCHANGED sbv2Vars) \/ SBV2Next \/ UNCHANGED vars
  PROVE  /\ ListOrder' /\ CipherOrder'
         /\ [SBV2InStep' => Delivery!DeliveryNext]_(Delivery!deliveryVars)
<1>0. CipherOrder' /\ IsSequence(dataBuffer)
  BY CipherOrderStep DEF WaitInv
<1> DEFINE Goal == ListOrder' /\ [SBV2InStep' => Delivery!DeliveryNext]_(Delivery!deliveryVars)
<1>1. CASE MasterCloses /\ UNCHANGED sbv2Vars
  <2>1. /\ UNCHANGED <<session, pc, handled, garbled, gotFatalError>>
        /\ lost => lost'
        /\ \E n \in 0..Len(stream) : stream' = SubSeq(stream, 1, n)
    BY <1>1 DEF MasterCloses, sbv2Vars
  <2>2. over' = over
    BY <2>1 DEF over
  <2>3. ASSUME Unread
        PROVE  Unread'
    <3>1. PICK n \in 0..Len(stream) : stream' = SubSeq(stream, 1, n)
      BY <2>1
    <3>2. PICK none : none = <<>>
      OBVIOUS
    <3>3. stream = none /\ IsSequence(none)
      BY <2>3, <3>2, EmptySequence DEF Unread
    <3>4. StartOf(stream', none)
      BY <3>1, <3>3, EmptyStart, WholeStart, StartCut
    <3>5. stream' = <<>>
      BY <3>2, <3>4, StartOfEmpty
    <3>6. UNCHANGED <<handled, dataBuffer, todo, fields, entry>>
      BY <1>1 DEF MasterCloses, sbv2Vars, parserVars
    <3> QED
      BY <2>3, <3>5, <3>6 DEF Unread, EntryIs
  <2>4. SBV2At => SBV2At'
    BY <1>0, <1>1, PlaceCut
  <2> QED
    BY <1>0, <2>1, <2>2, <2>3, <2>4, NothingReturned DEF ListOrder
<1>2. CASE UNCHANGED vars
  <2>1. UNCHANGED <<session, pc, stream, handled, lost, garbled, gotFatalError, dataBuffer,
                    parserVars>>
    BY <1>2 DEF vars, sessionVars, networkVars, histories, sbv2Vars
  <2> QED
    BY <1>0, <2>1, OrderUntouched
<1>3. CASE WriteListRequest
  <2>1. /\ pc = "request" /\ pc' = "list"
        /\ UNCHANGED <<session, handled, lost, garbled>>
    BY <1>3 DEF WriteListRequest, sbv2Vars
  <2>2. SBV2At'
    BY <1>3, <2>1, AnswerPlace DEF ListOrder
  <2>3. ~over /\ ~over'
    BY <2>1 DEF over
  <2> QED
    BY <1>0, <2>1, <2>2, <2>3, NothingReturned
<1>4. CASE RequestFails
  <2>1. /\ pc = "request" /\ pc' = "done" /\ lost'
        /\ UNCHANGED <<session, handled, garbled>>
    BY <1>4 DEF RequestFails, ReadErr, sbv2Vars
  <2>2. ~over
    BY <2>1 DEF over
  <2> QED
    BY <1>0, <2>1, <2>2, NothingReturned
<1>5. ASSUME NEW n \in 1..Len(stream), ReadField(n)
      PROVE  Goal
  <2>1. /\ pc = "list" /\ pc' = pc
        /\ UNCHANGED <<session, handled, lost, garbled, gotFatalError>>
    BY <1>5 DEF ReadField, histories
  <2>2. SBV2At => SBV2At'
    BY <1>0, <1>5, PlaceRead
  <2>3. ~over /\ ~over'
    BY <2>1 DEF over
  <2> QED
    BY <2>1, <2>2, <2>3, NothingReturned DEF ListOrder
<1>6. CASE ReadFieldFails
  <2>1. /\ pc = "list" /\ pc' = pc /\ gotFatalError' /\ lost'
        /\ UNCHANGED <<session, handled, garbled>>
    BY <1>6 DEF ReadFieldFails, ReadErr
  <2>2. ~over /\ ~over'
    BY <2>1 DEF over
  <2> QED
    BY <1>0, <2>1, <2>2, NothingReturned
<1>7. CASE SBV2Works
  <2>1. SBV2Panics' /\ pc = "list"
    BY <1>7, SBV2Step DEF SBV2Next, SBV2Works, CheckReady, Decrypt
  <2>2. CASE CheckReady
    <3>1. CASE enctypeXReady
      <4>1. UNCHANGED <<session, pc, stream, handled, lost, garbled, gotFatalError, dataBuffer,
                        parserVars>>
        BY <2>2, <3>1 DEF CheckReady, sessionVars, networkVars, histories
      <4> QED
        BY <1>0, <4>1, OrderUntouched
    <3>2. CASE ~enctypeXReady
      <4>1. PICK plain, noise : plain = dataBuffer \o Padding /\ noise = Garbage \o Padding
        OBVIOUS
      <4>2. /\ waiting = "check"
            /\ Returns(plain, FALSE) \/ (enctypeXData # "none" /\ Returns(noise, TRUE))
        BY <2>2, <3>2, <4>1 DEF CheckReady
      <4>3. ~gotFatalError => plain = dataBuffer
        <5>1. SUFFICES ASSUME ~gotFatalError
                       PROVE  plain = dataBuffer
          OBVIOUS
        <5>2. Len(dataBuffer) = Need /\ Need \in Nat
          BY <4>2, <5>1, LenProperties DEF WaitInv, IsSequence
        <5>3. PICK e : e = Padding
          OBVIOUS
        <5>4. PICK m \in Nat : m = Need - Len(dataBuffer) /\ m = 0
          BY <5>2
        <5>5. IsSequence(e) /\ Len(e) = m
          BY <5>3, <5>4, ConstantSequence DEF Padding
        <5>6. e = <<>>
          BY <5>4, <5>5, EmptySeq DEF IsSequence
        <5> QED
          BY <1>0, <4>1, <5>3, <5>6, EmptyConcat
      <4>4. enctypeXData # "none" => UNCHANGED cipherVars
        BY <2>2, CheckReadyStep
      <4>5. waiting # "read"
        BY <4>2
      <4>6. CASE Returns(plain, FALSE)
        BY <1>0, <2>1, <4>3, <4>5, <4>6, ReturnsOrder
      <4>7. CASE enctypeXData # "none" /\ Returns(noise, TRUE)
        BY <1>0, <2>1, <3>2, <4>4, <4>5, <4>7, ReturnsOrder
      <4> QED
        BY <1>0, <4>2, <4>6, <4>7
    <3> QED
      BY <3>1, <3>2
  <2>3. CASE Decrypt
    <3>1. PICK noise : noise = Garbage
      OBVIOUS
    <3>2. /\ waiting = "decrypt"
          /\ Returns(dataBuffer, FALSE) \/ (enctypeXData # "live" /\ Returns(noise, TRUE))
      BY <2>3, <3>1 DEF Decrypt
    <3>3. enctypeXData # "none" /\ (enctypeXData # "live" => ~enctypeXReady) /\ waiting # "read"
      BY <3>2 DEF WaitInv, CipherOrder
    <3>4. UNCHANGED cipherVars
      BY <2>3, <3>3, DecryptStep
    <3>5. CASE Returns(dataBuffer, FALSE)
      BY <1>0, <2>1, <3>3, <3>5, ReturnsOrder
    <3>6. CASE enctypeXData # "live" /\ Returns(noise, TRUE)
      BY <1>0, <2>1, <3>3, <3>4, <3>6, ReturnsOrder
    <3> QED
      BY <1>0, <3>2, <3>5, <3>6
  <2> QED
    BY <1>7, <2>2, <2>3 DEF SBV2Works
<1>8. ASSUME NEW c \in Callers,
             ShutdownCloses(c) \/ ShutdownTests(c) \/ ShutdownClears(c) \/ ShutdownFrees(c)
      PROVE  Goal
  <2>1. UNCHANGED <<session, pc, stream, handled, lost, garbled, gotFatalError, dataBuffer,
                    parserVars>>
    BY <1>8 DEF ShutdownCloses, ShutdownTests, ShutdownClears, ShutdownFrees, notShutdown,
                histories
  <2> QED
    BY <2>1, OrderUntouched
<1> QED
  BY <1>0, <1>1, <1>2, <1>3, <1>4, <1>5, <1>6, <1>7, <1>8 DEF SBV2Next, SBV2Fails

LEMMA OrderStarts ==
  ASSUME ListSessionsInit, session.kind = "sbv2"
  PROVE  CipherOrder /\ ListOrder
<1>1. /\ SessionInit("request", <<>>) /\ SBV2Init
  BY DEF ListSessionsInit
<1>2. /\ pc = "request" /\ handled = <<>> /\ stream = <<>> /\ dataBuffer = <<>>
      /\ todo = Wait("random length", 1) /\ fields = <<>>
      /\ entry = [byte |-> Zero, host |-> Zero, port |-> <<Zero, Zero>>]
      /\ enctypeXReady = FALSE /\ garbled = 0 /\ gotFatalError = FALSE
  BY <1>1 DEF SessionInit, SBV2Init
<1>3. CipherOrder
  BY <1>2 DEF CipherOrder
<1>4. InOrder /\ ~over
  BY <1>2, NothingInOrder DEF over
<1>5. IsSequence(handled) /\ Len(handled) = 0
  BY <1>2, EmptySequence
<1>6. \A i \in 1..Len(handled) : i < Len(handled) => handled[i] = Listing[i]
  BY <1>4 DEF InOrder
<1>7. Unread
  BY <1>2 DEF Unread, EntryIs
<1> QED
  BY <1>2, <1>3, <1>4, <1>5, <1>6, <1>7 DEF ListOrder

-----------------------------------------------------------------------------
(* The sessions of the three kinds together.                               *)

DeliveryInv ==
  /\ session \in Sessions
  /\ UTMSInv /\ UTMSOrder
  /\ WaitInv /\ ShutdownInv /\ SBV2Panics /\ CloseInv
  /\ session.kind = "sbv2" => CipherOrder /\ ListOrder
  /\ GOAPanics /\ CompressedInv /\ TextInv

LEMMA DeliveryStarts ==
  ASSUME ListSessionsInit
  PROVE  DeliveryInv /\ Delivery!DeliveryInit
<1>1. session \in Sessions /\ session.kind \in {"goa", "sbv2", "utms"}
  BY KindAssumption DEF ListSessionsInit
<1>2. /\ session.kind = "goa" => SessionInit("auth", Greeting)
      /\ session.kind = "sbv2" => SessionInit("request", <<>>)
      /\ session.kind = "utms" => SessionInit("challenge", Message(CompactString(ChallengeText)))
      /\ ipStringAccum = <<>>
  BY DEF ListSessionsInit, ReaderInit
<1>3. handled = <<>> /\ closed = FALSE /\ validated = FALSE /\ shortRead = FALSE /\ lost = FALSE
  BY <1>1, <1>2 DEF SessionInit
<1>4. InOrder
  BY <1>3, NothingInOrder
<1>5. pc \in {"auth", "request", "challenge"}
  BY <1>1, <1>2 DEF SessionInit
<1>6. ASSUME session.kind = "goa"
      PROVE  pc = "auth" /\ stream = Greeting /\ StartOf(stream, Greeting)
  <2>1. IsSequence(Greeting)
    BY <1>1, <1>6, GreetingFacts
  <2>2. StartOf(Greeting, Greeting)
    BY <2>1, WholeStart
  <2> QED
    BY <1>2, <1>6, <2>2 DEF SessionInit
<1>7. UTMSOrder
  BY <1>3, <1>4, <1>5 DEF UTMSOrder
<1>8. CompressedInv
  BY <1>3, <1>4, <1>6 DEF CompressedInv, CompressedAt
<1>9. TextInv
  BY <1>2, <1>3, <1>6 DEF TextInv
<1>10. GOAPanics
  BY <1>6 DEF GOAPanics
<1>11. Delivery!DeliveryInit
  BY <1>3, <1>5 DEF Delivery!DeliveryInit, over
<1>12. WaitInv /\ ShutdownInv /\ CloseInv
  BY WaitInit, CloseStarts DEF ListSessionsInit
<1>13. SBV2Panics
  BY <1>5 DEF SBV2Panics
<1>14. session.kind = "sbv2" => CipherOrder /\ ListOrder
  BY OrderStarts
<1> QED
  BY <1>1, <1>7, <1>8, <1>9, <1>10, <1>11, <1>12, <1>13, <1>14, UTMSStarts DEF DeliveryInv

LEMMA DeliveryStep ==
  ASSUME DeliveryInv, ListSessionsNext \/ UNCHANGED vars
  PROVE  /\ DeliveryInv'
         /\ [InStep' => Delivery!DeliveryNext]_(Delivery!deliveryVars)
<1>1. session' = session /\ session' \in Sessions
  BY SessionStays DEF DeliveryInv
<1>2. session.kind \in {"goa", "sbv2", "utms"}
  BY KindAssumption DEF DeliveryInv
<1>7. session.kind = "goa" /\ EntryPanics => ReaderMayPanic
  <2>1. SUFFICES ASSUME session.kind = "goa", EntryPanics
                 PROVE  ReaderMayPanic
    OBVIOUS
  <2>2. NoCompressedList
    BY <2>1 DEF DeliveryInv, GOAPanics, EntryPanics
  <2>3. TextOn
    BY <2>1, <2>2 DEF DeliveryInv, TextOn
  <2> QED
    BY <2>1, <2>3, EntryPanicsAtNext
<1>3. /\ UTMSInv' /\ GOAPanics'
      /\ WaitInv' /\ ShutdownInv' /\ SBV2Panics' /\ CloseInv'
  BY <1>2, <1>7, KindStep, CipherStep, CloseKept DEF DeliveryInv
<1>4. CASE session.kind = "sbv2"
  <2>1. UTMSOrder' /\ CompressedInv' /\ TextInv'
    BY <1>1, <1>4 DEF UTMSOrder, CompressedInv, TextInv
  <2>2. (MasterCloses /\ UNCHANGED sbv2Vars) \/ SBV2Next \/ UNCHANGED vars
    BY <1>4 DEF ListSessionsNext, Ended
  <2>3. /\ CipherOrder' /\ ListOrder'
        /\ [SBV2InStep' => Delivery!DeliveryNext]_(Delivery!deliveryVars)
    BY <1>4, <2>2, ListOrderStep DEF DeliveryInv
  <2>4. InStep' => SBV2InStep'
    BY <1>1, <1>4 DEF InStep
  <2> QED
    BY <1>1, <1>3, <1>4, <2>1, <2>3, <2>4 DEF DeliveryInv
<1>5. CASE session.kind = "utms"
  <2>1. (MasterCloses /\ UNCHANGED utmsVars) \/ UTMSNext \/ UNCHANGED vars
    BY <1>5 DEF ListSessionsNext, Ended
  <2>2. UTMSOrder' /\ [(~shortRead)' => Delivery!DeliveryNext]_(Delivery!deliveryVars)
    BY <1>5, <2>1, UTMSDelivers DEF DeliveryInv
  <2>3. CompressedInv' /\ TextInv'
    BY <1>1, <1>5 DEF CompressedInv, TextInv
  <2>4. InStep' => (~shortRead)'
    BY <1>1, <1>5 DEF InStep, UTMSInStep
  <2> QED
    BY <1>1, <1>3, <1>5, <2>2, <2>3, <2>4 DEF DeliveryInv
<1>6. CASE session.kind = "goa"
  <2>1. (MasterCloses /\ UNCHANGED readerVars) \/ ReaderNext \/ UNCHANGED vars
    BY <1>6 DEF ListSessionsNext, Ended
  <2>2. UTMSOrder'
    BY <1>1, <1>6 DEF UTMSOrder
  <2>3. CASE NoCompressedList
    <3>1. TextInv' /\ [Delivery!DeliveryNext]_(Delivery!deliveryVars)
      BY <1>6, <2>1, <2>3, TextDelivers DEF DeliveryInv
    <3>2. CompressedInv'
      BY <1>1, <2>3 DEF CompressedInv, NoCompressedList
    <3> QED
      BY <1>1, <1>3, <1>6, <2>2, <3>1, <3>2 DEF DeliveryInv
  <2>4. CASE ~NoCompressedList
    <3>1. CompressedInv' /\ [(~shortRead)' => Delivery!DeliveryNext]_(Delivery!deliveryVars)
      BY <1>6, <2>1, <2>4, CompressedDelivers DEF DeliveryInv
    <3>2. TextInv'
      BY <1>1, <2>4 DEF TextInv, NoCompressedList
    <3>3. InStep' => (~shortRead)'
      BY <1>1, <1>6, <2>4 DEF InStep, ReaderInStep, NoCompressedList
    <3> QED
      BY <1>1, <1>3, <1>6, <2>2, <3>1, <3>2, <3>3 DEF DeliveryInv
  <2> QED
    BY <2>3, <2>4
<1> QED
  BY <1>2, <1>4, <1>5, <1>6

LEMMA GotWhole ==
  ASSUME DeliveryInv
  PROVE  WholeListHandled
<1> SUFFICES ASSUME over, GotAll
             PROVE  pc = "done" /\ handled = Listing
  BY DEF WholeListHandled
<1>1. session.kind \in {"goa", "sbv2", "utms"}
  BY KindAssumption DEF DeliveryInv
<1>4. CASE session.kind = "sbv2"
  <2>1. SBV2GotAll
    BY <1>4 DEF GotAll
  <2>2. InOrder /\ pc = "done" /\ Len(handled) = Len(Listing)
    BY <1>4, <2>1 DEF DeliveryInv, ListOrder, SBV2GotAll
  <2> QED
    BY <2>2, WholeInOrder
<1>2. CASE session.kind = "utms"
  <2>1. ~lost /\ ~shortRead /\ validated
    BY <1>2 DEF GotAll, UTMSGotAll
  <2>2. pc = "done"
    BY <1>2, <2>1 DEF DeliveryInv, UTMSInv, over
  <2>3. InOrder /\ Len(handled) = Len(Listing)
    BY <1>2, <2>1, <2>2 DEF DeliveryInv, UTMSOrder
  <2> QED
    BY <2>2, <2>3, WholeInOrder
<1>3. CASE session.kind = "goa"
  <2>1. /\ ~lost /\ (~shortRead \/ (NoCompressedList /\ validated))
        /\ MaxChallengeLen <= ChallengeRoom
        /\ \A i \in 1..Len(Listing) : Listing[i].host \notin IPv6Hosts
    BY <1>3 DEF GotAll, ReaderGotAll
  <2>2. pc = "done"
    <3>1. SUFFICES ASSUME pc = "panic" PROVE FALSE
      BY DEF over
    <3>2. MaxChallengeLen \in Nat /\ ChallengeRoom \in Nat
      BY <1>3, ReaderFacts DEF DeliveryInv
    <3>3. ~(MaxChallengeLen > ChallengeRoom)
      BY <2>1, <3>2
    <3>4. /\ NoCompressedList /\ Len(handled) < Len(Listing)
          /\ Listing[Len(handled) + 1].host \in IPv6Hosts
      BY <1>3, <3>1, <3>3 DEF DeliveryInv, GOAPanics, ReaderMayPanic
    <3>5. InOrder
      BY <1>3, <3>1, <3>4 DEF DeliveryInv, TextInv
    <3>6. Len(handled) \in Nat /\ Len(Listing) \in Nat
      BY <3>5, ListingFacts, LenProperties DEF InOrder, IsSequence
    <3>7. Len(handled) + 1 \in 1..Len(Listing)
      BY <3>4, <3>6
    <3> QED
      BY <2>1, <3>4, <3>7
  <2>3. CASE NoCompressedList
    <3>1. validated
      BY <1>3, <2>1, <2>2, <2>3 DEF DeliveryInv, TextInv
    <3> QED
      BY <1>3, <2>1, <2>2, <2>3, <3>1 DEF DeliveryInv, TextInv
  <2>4. CASE ~NoCompressedList
    <3>1. InOrder /\ Len(handled) = Len(Listing)
      BY <1>3, <2>1, <2>2, <2>4 DEF DeliveryInv, CompressedInv, CompressedAt
    <3> QED
      BY <2>2, <3>1, WholeInOrder
  <2> QED
    BY <2>3, <2>4
<1> QED
  BY <1>1, <1>2, <1>3, <1>4

(* DeliversInOrder: wherever the connection fails or is closed and however *)
(* the stream is cut into Reads (a record or a length at a time where the  *)
(* code needs it, and for SBV2 until Shutdown takes the cipher state       *)
(* away), the servers are handled in the order of the master's list, none  *)
(* is left out or invented, and only the last may have lost digits of its  *)
(* port.                                                                   *)
THEOREM SessionDeliversInOrder ==
  ListSessionsSpec => DeliversInOrder
<1>1. ListSessionsInit => DeliveryInv /\ Delivery!DeliveryInit
  BY DeliveryStarts
<1>2. DeliveryInv /\ [ListSessionsNext]_vars =>
        DeliveryInv' /\ [InStep' => Delivery!DeliveryNext]_(Delivery!deliveryVars)
  BY DeliveryStep
<1> QED
  BY <1>1, <1>2, PTL DEF ListSessionsSpec, DeliversInOrder

(* WholeListHandled: a session that got all its master server sends, and   *)
(* for SBV2 decrypted all of it, ends without a panic and with the whole   *)
(* list handled.                                                           *)
THEOREM SessionHandlesWholeList ==
  ListSessionsSpec => []WholeListHandled
<1>1. ListSessionsInit => DeliveryInv
  BY DeliveryStarts
<1>2. DeliveryInv /\ [ListSessionsNext]_vars => DeliveryInv'
  BY DeliveryStep
<1>3. DeliveryInv => WholeListHandled
  BY GotWhole
<1> QED
  BY <1>1, <1>2, <1>3, PTL DEF ListSessionsSpec

(* PanicNeedsFailure: nothing a master server sends that is a list, cut    *)
(* into whatever Reads and broken off wherever, ends the process, unless a *)
(* Read fails while SBV2 decrypts, UTMS reads a length in part, or GOA has *)
(* a MaxChallengeLen that does not fit or the next server of the text is   *)
(* an IPv6 one.                                                            *)
THEOREM SessionPanicNeedsFailure ==
  ListSessionsSpec => []PanicNeedsFailure
<1>1. ListSessionsInit => DeliveryInv
  BY DeliveryStarts
<1>2. DeliveryInv /\ [ListSessionsNext]_vars => DeliveryInv'
  BY DeliveryStep
<1>3. DeliveryInv => PanicNeedsFailure
  <2> SUFFICES ASSUME DeliveryInv, pc = "panic"
               PROVE  \/ session.kind = "goa" /\ ReaderMayPanic
                      \/ session.kind = "sbv2" /\ gotFatalError /\ enctypeXData # "none"
                      \/ session.kind = "utms" /\ shortRead
    BY DEF PanicNeedsFailure
  <2>1. session.kind \in {"goa", "sbv2", "utms"}
    BY KindAssumption DEF DeliveryInv
  <2> QED
    BY <2>1 DEF DeliveryInv, SBV2Panics, UTMSInv, GOAPanics
<1> QED
  BY <1>1, <1>2, <1>3, PTL DEF ListSessionsSpec

(* OnlyLastStrange: whenever Shutdown takes the cipher state away from an  *)
(* SBV2 session, only the last server it queries may not be the one the    *)
(* list has at that place.                                                 *)
THEOREM SessionOnlyLastStrange ==
  ListSessionsSpec => []OnlyLastStrange
<1>1. ListSessionsInit => DeliveryInv
  BY DeliveryStarts
<1>2. DeliveryInv /\ [ListSessionsNext]_vars => DeliveryInv'
  BY DeliveryStep
<1>3. DeliveryInv => OnlyLastStrange
  BY DEF DeliveryInv, ListOrder, OnlyLastStrange
<1> QED
  BY <1>1, <1>2, <1>3, PTL DEF ListSessionsSpec
=============================================================================
