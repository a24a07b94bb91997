--------------------------- MODULE QueryResponses ---------------------------
(***************************************************************************)
(* The listeners of the query engines: a datagram is received into a       *)
(* buffer that keeps what earlier datagrams left in it, is parsed, and     *)
(* either is published and completes its query, or is ignored.  A slice or *)
(* an index outside the buffer ends the process.                           *)
(*                                                                         *)
(* Bytes are numbers.  A number of two or four bytes is one of them, and   *)
(* so are the parts of a header that are skipped together.                 *)
(***************************************************************************)
EXTENDS Integers, SequencesExt

CONSTANTS
  Engines,        \* the query engines to look at: kind, version_id of its
                  \* parameters, and whether it has an output handler
  Answers,        \* what servers send to each kind of engine
  BufLen,         \* 1492 in the code
  Low6, Low7,     \* 64 and 128 in the code: how many values the first and
                  \* the later bytes of a compact number carry
  MaxDatagrams    \* bound: how many datagrams a listener receives

ASSUME ResponsesAssumption ==
  /\ \A e \in Engines : e.kind \in DOMAIN Answers /\ e.outputHandler \in BOOLEAN
  /\ DOMAIN Answers \subseteq {"ut2k", "samp", "qr2", "goa0"}
  /\ {BufLen, MaxDatagrams} \subseteq Nat \ {0}
  /\ Low6 \in 1..64 /\ Low7 \in 2..128
  /\ BufLen <= Low6 * Low7 * Low7    \* three bytes give every length that fits

Esc == 27             \* 0x1B: three bytes of colour follow
Backslash == 92
Final == <<250>>      \* the keys final and queryid, each as one byte
QueryID == <<251>>
Magic == 83
UT2004_VERSION == 128

VARIABLES
  engine,      \* the query engine this is; it does not change
  buf,         \* its buffer
  datagram,    \* history: the last datagram
  outcome,     \* what became of it
  count        \* how many were received

vars == <<engine, buf, datagram, outcome, count>>

(* Assigning to a map, and assigning only to a key that it does not have.  *)
Set(m, key, value) == [k \in DOMAIN m \cup {key} |-> IF k = key THEN value ELSE m[k]]
SetIfNew(m, key, value) == [k \in DOMAIN m \cup {key} |-> IF k \in DOMAIN m THEN m[k] ELSE value]

Ignored == [what |-> "ignored", props |-> <<>>]
Panic == [what |-> "panic", props |-> <<>>]
Published(props) == [what |-> "published", props |-> props]
(* QR2 completes its query also when it has no output handler. *)
CompletedOnly == [what |-> "completed", props |-> <<>>]

-----------------------------------------------------------------------------
(***************************************************************************)
(* Answers with fixed fields (UT2K, SAMP).  A field has the key it is      *)
(* published under, NoKey if it is not, and a kind: a number, a compact    *)
(* string of UT2K, a counted string of SAMP.                               *)
(***************************************************************************)
Field(key, kind) == [key |-> key, kind |-> kind]
NoKey == ""
Skipped == Field(NoKey, "number")

UT2KFields(version) ==
  <<Skipped, Skipped, Skipped, Field(NoKey, "compact"), Skipped, Skipped,
    Field("hostname", "compact"), Field("mapname", "compact"), Field("gametype", "compact"),
    Field("numplayers", "number"), Field("maxplayers", "number"), Skipped>>
    \o (IF version = UT2004_VERSION THEN <<Skipped, Field("botlevel", "compact")>> ELSE <<>>)

SAMPFields ==
  <<Skipped, Skipped, Field("password", "number"), Field("numplayers", "number"),
    Field("maxplayers", "number"), Field("hostname", "counted"), Field("gamemode", "counted"),
    Field("gamevariant", "counted")>>

(* What a read yields: the value and the offset behind it. *)
Got(value, at) == [ok |-> TRUE, value |-> value, at |-> at]
OutOfRange == [ok |-> FALSE]

ReadNumber(b, at) == IF at <= BufLen THEN Got(b[at], at + 1) ELSE OutOfRange

(* Mutant: the bits of the later bytes are not moved up. *)
MagnitudeUnshifted(low, high) == high + low

Magnitude(low, high) == (high * Low6) + low

(* readCompactInt: one to five bytes, each but the fifth with a bit that   *)
(* says whether another one follows; the first has a sign bit as well,     *)
(* for strings of two bytes per character.                                 *)
ReadCompactInt(b, at) ==
  LET Byte(j) == IF at + j <= BufLen THEN b[at + j] ELSE 0
      Follows(j) == IF j = 0 THEN (Byte(0) \div Low6) % 2 = 1 ELSE Byte(j) >= Low7
      n == CHOOSE n \in 0..4 : (n = 4 \/ ~Follows(n)) /\ \A j \in 0..n - 1 : Follows(j)
      Bits(j) == IF j = 4 THEN Byte(4) ELSE Byte(j) % Low7
      High[j \in 1..5] == IF j > n THEN 0 ELSE High[j + 1] * Low7 + Bits(j)
      magnitude == Magnitude(Byte(0) % Low6, High[1])
  IN IF at + n > BufLen
       THEN OutOfRange
       ELSE Got(IF Byte(0) >= 2 * Low6 THEN 2 * magnitude ELSE magnitude, at + n + 1)

(* readCompactString: up to a zero or to the length, whichever comes       *)
(* first; a colour code counts as four characters.  The loop counter is    *)
(* how far the offset has moved.                                           *)
ReadCompactString(b, at) ==
  LET length == ReadCompactInt(b, at)
      Chars[o \in 1..BufLen + 4] ==
        IF o - length.at >= length.value THEN Got(<<>>, o)
        ELSE IF o > BufLen THEN OutOfRange
        ELSE IF b[o] = 0 THEN Got(<<>>, o + 1)
        ELSE IF b[o] = Esc THEN Chars[o + 4]
        ELSE LET r == Chars[o + 1] IN
             IF r.ok THEN Got(<<b[o]>> \o r.value, r.at) ELSE OutOfRange
  IN IF length.ok THEN Chars[length.at] ELSE OutOfRange

(* Mutant: the offset is not moved behind the length. *)
ReadCountedOff(b, at) ==
  IF at > BufLen \/ at + b[at] > BufLen
    THEN OutOfRange
    ELSE Got(SubSeq(b, at + 1, at + b[at]), at + b[at])

ReadCounted(b, at) ==
  IF at > BufLen \/ at + b[at] > BufLen
    THEN OutOfRange
    ELSE Got(SubSeq(b, at + 1, at + b[at]), at + b[at] + 1)

Read(kind, b, at) ==
  CASE kind = "number"  -> ReadNumber(b, at)
    [] kind = "compact" -> ReadCompactString(b, at)
    [] kind = "counted" -> ReadCounted(b, at)

ReadField(s, f, b) ==
  LET r == Read(f.kind, b, s.at) IN
  IF ~s.ok \/ ~r.ok
    THEN [s EXCEPT !.ok = FALSE]
    ELSE [ok |-> TRUE, at |-> r.at,
          props |-> IF f.key = NoKey THEN s.props ELSE Set(s.props, f.key, r.value)]

(* The fields one after the other, from the first byte of the buffer. *)
ReadFields(fields, b) ==
  LET after[j \in 0..Len(fields)] ==
        IF j = 0 THEN [ok |-> TRUE, at |-> 1, props |-> <<>>]
                 ELSE ReadField(after[j - 1], fields[j], b)
  IN after[Len(fields)]

(* What UT2K publishes besides. *)
WithFreespace(props) ==
  Set(Set(props, "freespace", IF props.numplayers < props.maxplayers THEN 1 ELSE 0),
      "currentplayers", props.numplayers)

-----------------------------------------------------------------------------
(* The listeners: the outcome of a datagram of that length in the buffer b. *)

UT2KOutcome(b, len) ==
  LET s == ReadFields(UT2KFields(engine.version_id), b) IN
  IF len = BufLen THEN Panic        \* buf[len] = 0
  ELSE IF ~engine.outputHandler \/ b[1] # engine.version_id \/ b[2] # 0 THEN Ignored
  ELSE IF s.ok THEN Published(WithFreespace(s.props)) ELSE Panic

SAMPMinimum == 2     \* 11 bytes: the magic number and what is skipped

SAMPOutcome(b, len) ==
  LET s == ReadFields(SAMPFields, b) IN
  IF len < SAMPMinimum \/ ~engine.outputHandler \/ b[1] # Magic THEN Ignored
  ELSE IF s.ok
    THEN Published([s.props EXCEPT !.password = IF @ = 0 THEN 0 ELSE 1])
    ELSE Panic

QR2Header == 1       \* 5 bytes of key data

(* Mutant: as far as the buffer goes. *)
ReadStringUnbounded(b, at, len) ==
  LET zeros == {i \in at..BufLen : b[i] = 0} IN
  IF zeros = {}
    THEN Got(SubSeq(b, at, BufLen), BufLen + 1)
    ELSE LET z == CHOOSE z \in zeros : \A i \in zeros : z <= i IN
         Got(SubSeq(b, at, z - 1), z + 1)

(* readString: no further than the datagram. *)
ReadString(b, at, len) ==
  LET zeros == {i \in at..len : b[i] = 0} IN
  IF zeros = {}
    THEN Got(SubSeq(b, at, len), len + 1)
    ELSE LET z == CHOOSE z \in zeros : \A i \in zeros : z <= i IN
         Got(SubSeq(b, at, z - 1), z + 1)

(* Pairs up to an empty key; a later value of a key replaces an earlier one. *)
QR2Outcome(b, len) ==
  LET Pairs[at \in 1..BufLen + 1] ==
        LET key == ReadString(b, at, len)
            value == ReadString(b, key.at, len)
        IN IF key.value = <<>>
             THEN <<>>
             ELSE SetIfNew(Pairs[value.at], key.value, value.value)
  IN IF len < QR2Header + 1 THEN Ignored
     ELSE IF engine.outputHandler THEN Published(Pairs[QR2Header + 1])
     ELSE CompletedOnly

(* strings.Split at the backslash. *)
Pieces(text) ==
  LET pieces[n \in 0..Len(text)] ==
        IF n = 0 THEN <<<<>>>>
        ELSE LET before == pieces[n - 1] IN
             IF text[n] = Backslash
               THEN Append(before, <<>>)
               ELSE Append(Front(before), Append(Last(before), text[n]))
  IN pieces[Len(text)]

(* Behind the first backslash keys and values alternate. *)
GOAOutcome(b, len) ==
  LET ps == Tail(Pieces(SubSeq(b, 1, len)))
      props[j \in 0..Len(ps) \div 2] ==
        IF j = 0 THEN <<>>
        ELSE IF ps[2 * j - 1] \in {Final, QueryID} THEN props[j - 1]
        ELSE Set(props[j - 1], ps[2 * j - 1], ps[2 * j])
  IN IF engine.outputHandler THEN Published(props[Len(ps) \div 2]) ELSE Ignored

Outcome(b, len) ==
  CASE engine.kind = "ut2k" -> UT2KOutcome(b, len)
    [] engine.kind = "samp" -> SAMPOutcome(b, len)
    [] engine.kind = "qr2"  -> QR2Outcome(b, len)
    [] engine.kind = "goa0" -> GOAOutcome(b, len)

-----------------------------------------------------------------------------
(* What a server sends: the fields or pairs of its answer. *)

(* An answer of UT2K or SAMP has all its fields; a zero would end a        *)
(* compact text.  One of QR2 or GOA is pairs of a key and a value, in      *)
(* which the byte that separates them does not occur; an empty key would   *)
(* end an answer of QR2.                                                   *)
Separator(kind) == IF kind = "qr2" THEN 0 ELSE Backslash
Words(kind) == {t \in Seq(0..255) : \A i \in 1..Len(t) : t[i] # Separator(kind)}

ASSUME AnswersAssumption ==
  /\ \A kind \in DOMAIN Answers \cap {"qr2", "goa0"} : \A answer \in Answers[kind] :
       /\ answer \in Seq(Words(kind) \X Words(kind))
       /\ kind = "qr2" => \A i \in 1..Len(answer) : answer[i][1] # <<>>
  /\ \A kind \in DOMAIN Answers \cap {"ut2k", "samp"} : \A answer \in Answers[kind] :
       LET fields == IF kind = "ut2k" THEN UT2KFields(answer[1]) ELSE SAMPFields IN
       /\ Len(answer) = Len(fields) /\ answer = [i \in 1..Len(fields) |-> answer[i]]
       /\ \A i \in 1..Len(fields) :
            /\ fields[i].kind = "number" => answer[i] \in 0..255
            /\ fields[i].kind # "number" => answer[i] \in Seq(0..255)
            /\ fields[i].kind = "counted" => Len(answer[i]) \in 0..255
            /\ fields[i].kind = "compact" => \A c \in ToSet(answer[i]) : c # 0

Compact(n) ==
  LET Digits[k \in Nat] == IF k < Low7 THEN <<k>> ELSE <<(k % Low7) + Low7>> \o Digits[k \div Low7]
  IN IF n < Low6 THEN <<n>> ELSE <<(n % Low6) + Low6>> \o Digits[n \div Low6]

(* A colour code, which a text names by Esc alone, and a text without it. *)
Raw(text) == FlattenSeq([i \in 1..Len(text) |-> IF text[i] = Esc THEN <<Esc, 9, 9, 9>>
                                                                  ELSE <<text[i]>>])
Plain(text) == FlattenSeq([i \in 1..Len(text) |-> IF text[i] = Esc THEN <<>> ELSE <<text[i]>>])

Encoded(kind, value) ==
  CASE kind = "number"  -> <<value>>
    [] kind = "counted" -> <<Len(value)>> \o value
    [] kind = "compact" -> Compact(Len(Raw(value)) + 1) \o Raw(value) \o <<0>>

Fields(answer) == IF engine.kind = "ut2k" THEN UT2KFields(answer[1]) ELSE SAMPFields

BytesOf(answer) ==
  CASE engine.kind \in {"ut2k", "samp"} ->
         FlattenSeq([i \in 1..Len(answer) |-> Encoded(Fields(answer)[i].kind, answer[i])])
    [] engine.kind = "qr2" ->
         <<1>> \o FlattenSeq([i \in 1..Len(answer) |-> answer[i][1] \o <<0>> \o answer[i][2] \o <<0>>])
               \o <<0>>
    [] engine.kind = "goa0" ->
         FlattenSeq([i \in 1..Len(answer) |-> <<Backslash>> \o answer[i][1] \o <<Backslash>> \o answer[i][2]])
           \o <<Backslash>> \o Final \o <<Backslash>>

(* What is to be published of it: each key with the value it was last      *)
(* given; of a password, whether there is one.                             *)
Meant(answer) ==
  LET Keys == IF engine.kind \in {"ut2k", "samp"}
                THEN [i \in 1..Len(answer) |-> Fields(answer)[i].key]
                ELSE [i \in 1..Len(answer) |-> answer[i][1]]
      At(k) == CHOOSE i \in 1..Len(answer) :
                 Keys[i] = k /\ \A j \in i + 1..Len(answer) : Keys[j] # k
      Value(i) == CASE engine.kind = "ut2k" ->
                         IF Fields(answer)[i].kind = "compact" THEN Plain(answer[i]) ELSE answer[i]
                    [] engine.kind = "samp" ->
                         IF Keys[i] # "password" \/ answer[i] = 0 THEN answer[i] ELSE 1
                    [] OTHER -> answer[i][2]
      Unpublished == CASE engine.kind \in {"ut2k", "samp"} -> {NoKey}
                       [] engine.kind = "goa0" -> {Final, QueryID}
                       [] OTHER -> {}
  IN [k \in {Keys[i] : i \in 1..Len(answer)} \ Unpublished |-> Value(At(k))]

-----------------------------------------------------------------------------

NoDatagram == [bytes |-> <<>>, whole |-> FALSE]

ResponsesInit ==
  /\ engine \in Engines
  /\ buf = [i \in 1..BufLen |-> 0]
  /\ datagram = NoDatagram
  /\ outcome = Ignored
  /\ count = 0

(* Mutant: the buffer is as long as the datagram. *)
FilledAnew(b, bytes) == IF bytes = <<>> THEN b ELSE bytes

(* ReadFrom: the buffer takes what fits.  UT2K puts a zero behind it. *)
Filled(b, bytes) ==
  [i \in 1..BufLen |->
     IF i <= Len(bytes) THEN bytes[i]
     ELSE IF engine.kind = "ut2k" /\ i = Len(bytes) + 1 THEN 0
     ELSE b[i]]

(* A datagram arrives: the answer of a server, or the first len bytes of   *)
(* it, as from a server that sends less than the code reads.               *)
Listen(answer, len) ==
  /\ outcome # Panic
  /\ count < MaxDatagrams
  /\ count' = count + 1
  /\ LET received == IF len <= BufLen THEN len ELSE BufLen IN
       /\ datagram' = [answer |-> answer,
                       whole |-> received = Len(BytesOf(answer)),
                       bytes |-> SubSeq(BytesOf(answer), 1, received)]
       /\ buf' = Filled(buf, datagram'.bytes)
       /\ outcome' = Outcome(buf', received)
  /\ UNCHANGED engine

Ended == (outcome = Panic \/ count = MaxDatagrams) /\ UNCHANGED vars

ResponsesNext ==
  \/ \E answer \in Answers[engine.kind] :
       \E len \in 0..Len(BytesOf(answer)) : Listen(answer, len)
  \/ Ended

ResponsesSpec == ResponsesInit /\ [][ResponsesNext]_vars

-----------------------------------------------------------------------------
(* Properties. *)

(* Every variable has its type; the buffer never changes its size.         *)
ResponsesTypeOK ==
  /\ engine \in Engines
  /\ DOMAIN buf = 1..BufLen /\ \A i \in 1..BufLen : buf[i] \in 0..255
  /\ Len(datagram.bytes) \in 0..BufLen /\ datagram.whole \in BOOLEAN
  /\ outcome.what \in {"ignored", "panic", "published", "completed"}
  /\ count \in 0..MaxDatagrams

(* UT2K also writes the byte behind the datagram. *)
FitsTheBuffer == engine.kind = "ut2k" => Len(datagram.bytes) < BufLen

(* The answers an engine is waiting for. *)
OfThisGame ==
  CASE engine.kind = "ut2k" -> datagram.answer[1] = engine.version_id /\ datagram.answer[2] = 0
    [] engine.kind = "samp" -> datagram.answer[1] = Magic
    [] OTHER -> TRUE

(* An answer that arrived whole is published with every key and value the  *)
(* server gave it, whatever datagrams the buffer held before: nothing is   *)
(* shifted by a colour code, a long string or an empty one.                *)
CompleteAnswerRead ==
  (datagram.whole /\ FitsTheBuffer /\ OfThisGame /\ engine.outputHandler) =>
    /\ outcome.what = "published"
    /\ \A k \in DOMAIN Meant(datagram.answer) :
         k \in DOMAIN outcome.props /\ outcome.props[k] = Meant(datagram.answer)[k]

(* What the listener makes of a datagram depends on this datagram only,    *)
(* though it reads it in a buffer with bytes of earlier ones: QR2 and GOA  *)
(* stop at its end, UT2K and SAMP need all of it.                          *)
OwnDatagramOnly ==
  (datagram # NoDatagram /\ (datagram.whole \/ engine.kind \in {"qr2", "goa0"})) =>
    outcome = Outcome(Filled([i \in 1..BufLen |-> 0], datagram.bytes), Len(datagram.bytes))

(* No answer that arrives whole ends the process, as long as it does not   *)
(* fill the UT2K buffer; to QR2 and GOA no datagram does.                  *)
ListenerSurvives ==
  (outcome = Panic) =>
    engine.kind \in {"ut2k", "samp"} /\ (datagram.whole => ~FitsTheBuffer)
=============================================================================
