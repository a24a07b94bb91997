------------------------ MODULE QueryResponsesProofs ------------------------
(***************************************************************************)
(* Proofs about QueryResponses, for every set of answers that separates    *)
(* its words and for every size of the buffer: what a query engine makes   *)
(* of a datagram depends on this datagram only, an answer that arrives     *)
(* whole is published with all it gives, and none ends the process.        *)
(*                                                                         *)
(* Made restates, without the engine, the outcome of QR2 and GOA, and      *)
(* FieldsMade that of UT2K and SAMP.  View says what is left of a datagram *)
(* behind an offset: each read takes one word, or one field, off it.       *)
(***************************************************************************)
EXTENDS QueryResponses, ListLemmas, TLAPS

(***************************************************************************)
(* What is read of a datagram depends on its own bytes.                    *)
(***************************************************************************)

Agree(b, c, len) == \A i \in 1..len : b[i] = c[i]

LEMMA CutAgrees ==
  ASSUME NEW b, NEW c, NEW m \in Int, NEW n \in Int, \A i \in m..n : b[i] = c[i]
  PROVE  SubSeq(b, m, n) = SubSeq(c, m, n)
<1> DEFINE S == {b[i] : i \in m..n}
<1>1. \A i \in m..n : b[i] \in S /\ c[i] \in S
  OBVIOUS
<1> HIDE DEF S
<1>2. /\ SubSeq(b, m, n) \in Seq(S)
      /\ Len(SubSeq(b, m, n)) = IF m <= n THEN n - m + 1 ELSE 0
      /\ \A i \in 1..n - m + 1 : SubSeq(b, m, n)[i] = b[m + i - 1]
  BY <1>1, SubSeqProperties
<1>3. /\ SubSeq(c, m, n) \in Seq(S)
      /\ Len(SubSeq(c, m, n)) = IF m <= n THEN n - m + 1 ELSE 0
      /\ \A i \in 1..n - m + 1 : SubSeq(c, m, n)[i] = c[m + i - 1]
  BY <1>1, SubSeqProperties
<1>4. \A i \in 1..n - m + 1 : m + i - 1 \in m..n
  OBVIOUS
<1> DEFINE x == SubSeq(b, m, n)
           y == SubSeq(c, m, n)
<1>5. /\ x \in Seq(S) /\ y \in Seq(S) /\ Len(x) = Len(y)
      /\ \A i \in 1..n - m + 1 : x[i] = y[i]
      /\ Len(x) = IF m <= n THEN n - m + 1 ELSE 0
  BY <1>2, <1>3, <1>4
<1> HIDE DEF x, y
<1>6. \A i \in 1..Len(x) : x[i] = y[i]
  BY <1>5
<1>7. x = y
  BY <1>5, <1>6, SeqEqual
<1> QED
  BY <1>7 DEF x, y

(* The first zero of a part of the datagram.                               *)
FirstZero(b, at, len) ==
  CHOOSE z \in {i \in at..len : b[i] = 0} : \A i \in {i \in at..len : b[i] = 0} : z <= i

LEMMA FirstZeroFound ==
  ASSUME NEW b, NEW at \in Nat, NEW len \in Nat, {i \in at..len : b[i] = 0} # {}
  PROVE  /\ FirstZero(b, at, len) \in at..len
         /\ b[FirstZero(b, at, len)] = 0
         /\ \A i \in at..FirstZero(b, at, len) - 1 : b[i] # 0
<1> DEFINE Z == {i \in at..len : b[i] = 0}
<1>1. Z \in SUBSET Nat /\ Z # {}
  OBVIOUS
<1>2. PICK m : m = Min(Z)
  OBVIOUS
<1>3. m \in Z /\ \A i \in Z : m <= i
  <2> HIDE DEF Z
  <2>1. Min(Z) \in Z /\ \A i \in Z : Min(Z) <= i
    BY <1>1, LeastElement
  <2> QED
    BY <1>2, <2>1
<1>4. PICK z : z = FirstZero(b, at, len)
  OBVIOUS
<1>5. z \in Z /\ \A i \in Z : z <= i
  BY <1>3, <1>4 DEF FirstZero
<1> QED
  BY <1>4, <1>5

LEMMA ReadStringAgrees ==
  ASSUME NEW b, NEW c, NEW len \in Nat, NEW at \in Nat \ {0}, Agree(b, c, len)
  PROVE  /\ ReadString(b, at, len) = ReadString(c, at, len)
         /\ ReadString(b, at, len).at \in Nat \ {0}
<1> DEFINE Z == {i \in at..len : b[i] = 0}
<1>1. Z = {i \in at..len : c[i] = 0}
  BY DEF Agree
<1>2. CASE Z = {}
  <2>1. SubSeq(b, at, len) = SubSeq(c, at, len)
    <3>1. \A i \in at..len : b[i] = c[i]
      BY DEF Agree
    <3> QED
      BY <3>1, CutAgrees
  <2>2. /\ ReadString(b, at, len) = Got(SubSeq(b, at, len), len + 1)
        /\ ReadString(c, at, len) = Got(SubSeq(c, at, len), len + 1)
    BY <1>1, <1>2 DEF ReadString
  <2> QED
    BY <2>1, <2>2 DEF Got
<1>3. CASE Z # {}
  <2>1. PICK z : z = FirstZero(b, at, len)
    OBVIOUS
  <2>2. z \in at..len
    BY <1>3, <2>1, FirstZeroFound
  <2>3. z = FirstZero(c, at, len)
    BY <1>1, <2>1 DEF FirstZero
  <2>4. SubSeq(b, at, z - 1) = SubSeq(c, at, z - 1)
    <3>1. \A i \in at..z - 1 : b[i] = c[i]
      BY <2>2 DEF Agree
    <3> QED
      BY <2>2, <3>1, CutAgrees
  <2>5. ReadString(b, at, len) = Got(SubSeq(b, at, z - 1), z + 1)
    BY <1>3, <2>1 DEF ReadString, FirstZero
  <2>6. ReadString(c, at, len) = Got(SubSeq(c, at, z - 1), z + 1)
    BY <1>1, <1>3, <2>3 DEF ReadString, FirstZero
  <2>7. PICK x : x = SubSeq(b, at, z - 1)
    OBVIOUS
  <2>8. ReadString(b, at, len) = Got(x, z + 1) /\ ReadString(c, at, len) = Got(x, z + 1)
    BY <2>4, <2>5, <2>6, <2>7
  <2>9. Got(x, z + 1).at = z + 1 /\ z + 1 \in Nat \ {0}
    BY <2>2 DEF Got
  <2> QED
    BY <2>8, <2>9
<1> QED
  BY <1>2, <1>3

(* What QR2 makes of the pairs from an offset on, if g is that for the     *)
(* offsets behind it.                                                      *)
PairsFrom(b, len, g, at) ==
  IF ReadString(b, at, len).value = <<>>
    THEN <<>>
    ELSE SetIfNew(g[ReadString(b, ReadString(b, at, len).at, len).at],
                  ReadString(b, at, len).value,
                  ReadString(b, ReadString(b, at, len).at, len).value)
PairsOf(b, len, g) == g = [at \in 1..BufLen + 1 |-> PairsFrom(b, len, g, at)]

LEMMA QR2Value ==
  ASSUME NEW b, NEW len \in Nat, len >= 2, engine.outputHandler
  PROVE  QR2Outcome(b, len) = Published((CHOOSE g : PairsOf(b, len, g))[2])
BY DEF QR2Outcome, PairsOf, PairsFrom, QR2Header

LEMMA PairsAgree ==
  ASSUME NEW b, NEW c, NEW len \in Nat, Agree(b, c, len)
  PROVE  \A g : PairsOf(b, len, g) <=> PairsOf(c, len, g)
<1> TAKE g
<1>1. ASSUME NEW at \in 1..BufLen + 1
      PROVE  PairsFrom(b, len, g, at) = PairsFrom(c, len, g, at)
  <2>1. at \in Nat \ {0}
    OBVIOUS
  <2>2. PICK k : k = ReadString(b, at, len)
    OBVIOUS
  <2>3. k = ReadString(c, at, len) /\ k.at \in Nat \ {0}
    BY <2>1, <2>2, ReadStringAgrees
  <2>4. ReadString(b, k.at, len) = ReadString(c, k.at, len)
    BY <2>3, ReadStringAgrees
  <2> QED
    BY <2>2, <2>3, <2>4 DEF PairsFrom
<1> QED
  BY <1>1 DEF PairsOf

(* What GOA makes of the pieces of a text, if g is that for fewer of them. *)
PropsOf(ps, g) ==
  g = [j \in 0..Len(ps) \div 2 |->
         IF j = 0 THEN <<>>
         ELSE IF ps[2 * j - 1] \in {Final, QueryID} THEN g[j - 1]
         ELSE Set(g[j - 1], ps[2 * j - 1], ps[2 * j])]

LEMMA GOAValue ==
  ASSUME NEW b, NEW len, NEW ps, ps = Tail(Pieces(SubSeq(b, 1, len)))
  PROVE  GOAOutcome(b, len) =
           IF engine.outputHandler THEN Published((CHOOSE g : PropsOf(ps, g))[Len(ps) \div 2])
                                   ELSE Ignored
BY DEF GOAOutcome, PropsOf

-----------------------------------------------------------------------------
(* The answers of QR2 and GOA.                                             *)

ByPairs == engine \in Engines /\ engine.kind \in {"qr2", "goa0"}

LEMMA AnswerFacts ==
  ASSUME ByPairs, NEW answer \in Answers[engine.kind]
  PROVE  /\ Len(answer) \in Nat
         /\ \A i \in 1..Len(answer) :
              answer[i] \in Words(engine.kind) \X Words(engine.kind)
         /\ engine.kind = "qr2" => \A i \in 1..Len(answer) : answer[i][1] # <<>>
<1>1. engine.kind \in DOMAIN Answers \cap {"qr2", "goa0"}
  BY ResponsesAssumption DEF ByPairs
<1>2. PICK S : S = Words(engine.kind) \X Words(engine.kind)
  OBVIOUS
<1>3. /\ answer \in Seq(S)
      /\ engine.kind = "qr2" => \A i \in 1..Len(answer) : answer[i][1] # <<>>
  BY <1>1, <1>2, AnswersAssumption
<1>4. Len(answer) \in Nat
  BY <1>3, LenProperties
<1>5. \A i \in 1..Len(answer) : answer[i] \in S
  BY <1>3, ElementOfSeq
<1> QED
  BY <1>2, <1>3, <1>4, <1>5, Zenon

LEMMA WordFacts ==
  ASSUME NEW kind, NEW t \in Words(kind)
  PROVE  /\ IsSequence(t)
         /\ \A i \in 1..Len(t) : t[i] # Separator(kind)
<1>1. t \in Seq(0..255) /\ \A i \in 1..Len(t) : t[i] # Separator(kind)
  BY DEF Words
<1> QED
  BY <1>1, SequenceOf

(* A pair on the wire.                                                     *)
QR2Pair(p) == p[1] \o <<0>> \o p[2] \o <<0>>
GOAPair(p) == <<Backslash>> \o p[1] \o <<Backslash>> \o p[2]

LEMMA PairSequences ==
  ASSUME NEW kind, NEW p \in Words(kind) \X Words(kind)
  PROVE  /\ IsSequence(p[1]) /\ IsSequence(p[2])
         /\ IsSequence(QR2Pair(p)) /\ IsSequence(GOAPair(p))
<1>1. PICK a, b : a = p[1] /\ b = p[2]
  OBVIOUS
<1>2. a \in Words(kind) /\ b \in Words(kind)
  BY <1>1
<1>3. IsSequence(a) /\ IsSequence(b)
  BY <1>2, WordFacts
<1>4. PICK z, s : z = <<0>> /\ s = <<Backslash>>
  OBVIOUS
<1>5. IsSequence(z) /\ IsSequence(s)
  BY <1>4, OneSymbol
<1>6. IsSequence(a \o z) /\ IsSequence(s \o a)
  BY <1>3, <1>5, ConcatType
<1>7. IsSequence((a \o z) \o b) /\ IsSequence((s \o a) \o s)
  BY <1>3, <1>5, <1>6, ConcatType
<1>8. IsSequence(((a \o z) \o b) \o z) /\ IsSequence(((s \o a) \o s) \o b)
  BY <1>3, <1>5, <1>7, ConcatType
<1> QED
  BY <1>1, <1>3, <1>4, <1>8 DEF QR2Pair, GOAPair

QR2Pairs(answer) == [i \in 1..Len(answer) |-> QR2Pair(answer[i])]
GOAPairs(answer) == [i \in 1..Len(answer) |-> GOAPair(answer[i])]

LEMMA PairsSent ==
  ASSUME ByPairs, NEW answer \in Answers[engine.kind]
  PROVE  /\ \A i \in 1..Len(answer) :
              /\ IsSequence(QR2Pairs(answer)[i]) /\ IsSequence(GOAPairs(answer)[i])
         /\ QR2Pairs(answer) = [i \in 1..Len(answer) |-> QR2Pairs(answer)[i]]
         /\ GOAPairs(answer) = [i \in 1..Len(answer) |-> GOAPairs(answer)[i]]
<1>1. ASSUME NEW i \in 1..Len(answer)
      PROVE  IsSequence(QR2Pairs(answer)[i]) /\ IsSequence(GOAPairs(answer)[i])
  <2>1. answer[i] \in Words(engine.kind) \X Words(engine.kind)
    BY AnswerFacts
  <2>2. IsSequence(QR2Pair(answer[i])) /\ IsSequence(GOAPair(answer[i]))
    BY <2>1, PairSequences
  <2> QED
    BY <2>2 DEF QR2Pairs, GOAPairs
<1> QED
  BY <1>1 DEF QR2Pairs, GOAPairs

LEMMA FinalFacts ==
  /\ IsSequence(Final) /\ Len(Final) = 1 /\ Final[1] = 250
  /\ IsSequence(<<Backslash>> \o Final \o <<Backslash>>)
<1>1. PICK s, f : s = <<Backslash>> /\ f = Final
  OBVIOUS
<1>2. IsSequence(s) /\ IsSequence(f) /\ Len(f) = 1 /\ f[1] = 250
  BY <1>1, OneSymbol DEF Final
<1>3. IsSequence(s \o f)
  BY <1>2, ConcatType
<1>4. IsSequence((s \o f) \o s)
  BY <1>2, <1>3, ConcatType
<1> QED
  BY <1>1, <1>2, <1>4

LEMMA BytesFacts ==
  ASSUME ByPairs, NEW answer \in Answers[engine.kind]
  PROVE  /\ IsSequence(BytesOf(answer)) /\ Len(BytesOf(answer)) \in Nat
         /\ engine.kind = "qr2" =>
              /\ BytesOf(answer) = <<1>> \o (Behind(QR2Pairs(answer), 0) \o <<0>>)
              /\ IsSequence(Behind(QR2Pairs(answer), 0) \o <<0>>)
         /\ engine.kind = "goa0" =>
              BytesOf(answer) = Behind(GOAPairs(answer), 0)
                                  \o (<<Backslash>> \o Final \o <<Backslash>>)
<1>1. Len(answer) \in Nat
  BY AnswerFacts
<1>2. PICK n \in Nat : n = Len(answer)
  BY <1>1
<1>3. PICK Q, G : Q = QR2Pairs(answer) /\ G = GOAPairs(answer)
  OBVIOUS
<1>4. /\ Q = [i \in 1..n |-> Q[i]] /\ \A i \in 1..n : IsSequence(Q[i])
      /\ G = [i \in 1..n |-> G[i]] /\ \A i \in 1..n : IsSequence(G[i])
  BY <1>2, <1>3, PairsSent
<1>5. Behind(Q, 0) = FlattenSeq(Q) /\ \A k \in 0..n : IsSequence(Behind(Q, k))
  BY <1>4, BehindFacts
<1>6. Behind(G, 0) = FlattenSeq(G) /\ \A k \in 0..n : IsSequence(Behind(G, k))
  BY <1>4, BehindFacts
<1>7. PICK q, g : q = Behind(Q, 0) /\ g = Behind(G, 0)
  OBVIOUS
<1>8. IsSequence(q) /\ IsSequence(g)
  BY <1>5, <1>6, <1>7
<1>9. CASE engine.kind = "qr2"
  <2>1. PICK h, z : h = <<1>> /\ z = <<0>>
    OBVIOUS
  <2>2. IsSequence(h) /\ IsSequence(z)
    BY <2>1, OneSymbol
  <2>3. BytesOf(answer) = (h \o q) \o z
    BY <1>3, <1>5, <1>7, <1>9, <2>1 DEF BytesOf, QR2Pairs, QR2Pair
  <2>4. (h \o q) \o z = h \o (q \o z)
    BY <1>8, <2>2, ConcatRegroups
  <2>5. IsSequence(q \o z)
    BY <1>8, <2>2, ConcatType
  <2>6. IsSequence(h \o (q \o z)) /\ Len(h \o (q \o z)) = Len(h) + Len(q \o z)
        /\ Len(h) \in Nat /\ Len(q \o z) \in Nat
    BY <2>2, <2>5, ConcatSequences
  <2>7. BytesOf(answer) = h \o (q \o z)
    BY <2>3, <2>4
  <2>8. IsSequence(BytesOf(answer)) /\ Len(BytesOf(answer)) \in Nat
    BY <2>6, <2>7
  <2>9. /\ BytesOf(answer) = <<1>> \o (Behind(QR2Pairs(answer), 0) \o <<0>>)
        /\ IsSequence(Behind(QR2Pairs(answer), 0) \o <<0>>)
    BY <1>3, <1>7, <2>1, <2>5, <2>7
  <2> QED
    BY <1>9, <2>8, <2>9
<1>10. CASE engine.kind = "goa0"
  <2>1. PICK e : e = <<Backslash>> \o Final \o <<Backslash>>
    OBVIOUS
  <2>2. IsSequence(e)
    BY <2>1, FinalFacts
  <2>3. PICK s, f : s = <<Backslash>> /\ f = Final
    OBVIOUS
  <2>4. IsSequence(s) /\ IsSequence(f)
    BY <2>3, OneSymbol, FinalFacts
  <2>5. IsSequence(g \o s) /\ IsSequence(s \o f)
    BY <1>8, <2>4, ConcatType
  <2>6. BytesOf(answer) = ((g \o s) \o f) \o s
    BY <1>3, <1>6, <1>7, <1>10, <2>3 DEF BytesOf, GOAPairs, GOAPair
  <2>7. (g \o s) \o f = g \o (s \o f)
    BY <1>8, <2>4, ConcatRegroups
  <2>8. (g \o (s \o f)) \o s = g \o ((s \o f) \o s)
    BY <1>8, <2>4, <2>5, ConcatRegroups
  <2>9. BytesOf(answer) = g \o e
    BY <2>1, <2>3, <2>6, <2>7, <2>8
  <2>10. IsSequence(g \o e) /\ Len(g \o e) = Len(g) + Len(e)
         /\ Len(g) \in Nat /\ Len(e) \in Nat
    BY <1>8, <2>2, ConcatSequences
  <2> QED
    BY <1>3, <1>7, <1>10, <2>1, <2>9, <2>10
<1> QED
  BY <1>9, <1>10 DEF ByPairs

-----------------------------------------------------------------------------
(* What the listener of a QR2 or GOA engine keeps.                         *)

Fits(b, bytes) ==
  /\ b = [i \in 1..BufLen |-> b[i]]
  /\ IsSequence(bytes) /\ Len(bytes) \in 0..BufLen
  /\ \A i \in 1..Len(bytes) : b[i] = bytes[i]

(* The outcome and the bytes of an answer, for the kind of the engine.     *)
Made(kind, handler, b, len) ==
  IF kind = "goa0"
    THEN LET ps == Tail(Pieces(SubSeq(b, 1, len))) IN
         IF handler THEN Published((CHOOSE g : PropsOf(ps, g))[Len(ps) \div 2]) ELSE Ignored
    ELSE IF len < 2 THEN Ignored
         ELSE IF handler THEN Published((CHOOSE g : PairsOf(b, len, g))[2]) ELSE CompletedOnly

OnWire(kind, answer) ==
  IF kind = "goa0"
    THEN Behind(GOAPairs(answer), 0) \o (<<Backslash>> \o Final \o <<Backslash>>)
    ELSE <<1>> \o (Behind(QR2Pairs(answer), 0) \o <<0>>)

LEMMA OutcomeMade ==
  ASSUME ByPairs, NEW b, NEW len \in Nat
  PROVE  Outcome(b, len) = Made(engine.kind, engine.outputHandler, b, len)
<1>1. CASE engine.kind = "qr2"
  <2>1. Outcome(b, len) = QR2Outcome(b, len)
    BY <1>1 DEF Outcome
  <2>2. ASSUME len >= 2, engine.outputHandler
        PROVE  QR2Outcome(b, len) = Published((CHOOSE g : PairsOf(b, len, g))[2])
    BY <2>2, QR2Value
  <2>3. len < 2 => QR2Outcome(b, len) = Ignored
    BY DEF QR2Outcome, QR2Header
  <2>4. (len >= 2 /\ ~engine.outputHandler) => QR2Outcome(b, len) = CompletedOnly
    BY DEF QR2Outcome, QR2Header
  <2> QED
    BY <1>1, <2>1, <2>2, <2>3, <2>4 DEF Made
<1>2. CASE engine.kind = "goa0"
  <2>1. Outcome(b, len) = GOAOutcome(b, len)
    BY <1>2 DEF Outcome
  <2>2. PICK ps : ps = Tail(Pieces(SubSeq(b, 1, len)))
    OBVIOUS
  <2> QED
    BY <1>2, <2>1, <2>2, GOAValue DEF Made
<1> QED
  BY <1>1, <1>2 DEF ByPairs

LEMMA MadeAgrees ==
  ASSUME NEW kind \in {"qr2", "goa0"}, NEW handler, NEW b, NEW c, NEW len \in Nat,
         Agree(b, c, len)
  PROVE  Made(kind, handler, b, len) = Made(kind, handler, c, len)
<1>1. SubSeq(b, 1, len) = SubSeq(c, 1, len)
  BY CutAgrees DEF Agree
<1>2. (CHOOSE g : PairsOf(b, len, g)) = (CHOOSE g : PairsOf(c, len, g))
  <2>1. \A g : PairsOf(b, len, g) <=> PairsOf(c, len, g)
    BY PairsAgree
  <2> HIDE DEF PairsOf
  <2> QED
    BY <2>1, Zenon
<1>3. PICK x : x = (CHOOSE g : PairsOf(b, len, g))
  OBVIOUS
<1>4. x = (CHOOSE g : PairsOf(c, len, g))
  BY <1>2, <1>3
<1>5. PICK ps : ps = Tail(Pieces(SubSeq(b, 1, len)))
  OBVIOUS
<1>6. ps = Tail(Pieces(SubSeq(c, 1, len)))
  BY <1>1, <1>5
<1>7. PICK y : y = (CHOOSE g : PropsOf(ps, g))
  OBVIOUS
<1>8. CASE kind = "goa0"
  <2>1. Made(kind, handler, b, len) = IF handler THEN Published(y[Len(ps) \div 2]) ELSE Ignored
    BY <1>5, <1>7, <1>8 DEF Made
  <2>2. Made(kind, handler, c, len) = IF handler THEN Published(y[Len(ps) \div 2]) ELSE Ignored
    BY <1>6, <1>7, <1>8 DEF Made
  <2> QED
    BY <2>1, <2>2
<1>9. CASE kind = "qr2"
  <2>1. Made(kind, handler, b, len)
          = IF len < 2 THEN Ignored ELSE IF handler THEN Published(x[2]) ELSE CompletedOnly
    BY <1>3, <1>9 DEF Made
  <2>2. Made(kind, handler, c, len)
          = IF len < 2 THEN Ignored ELSE IF handler THEN Published(x[2]) ELSE CompletedOnly
    BY <1>4, <1>9 DEF Made
  <2> QED
    BY <2>1, <2>2
<1> QED
  BY <1>8, <1>9

ReceivedInv ==
  /\ engine \in Engines
  /\ engine.kind \in {"qr2", "goa0"} => outcome # Panic
  /\ (engine.kind \in {"qr2", "goa0"} /\ datagram # NoDatagram) =>
       /\ Fits(buf, datagram.bytes)
       /\ outcome = Made(engine.kind, engine.outputHandler, buf, Len(datagram.bytes))
       /\ datagram.whole =>
            /\ datagram.answer \in Answers[engine.kind]
            /\ datagram.bytes = OnWire(engine.kind, datagram.answer)

LEMMA MadeSurvives ==
  ASSUME NEW kind \in {"qr2", "goa0"}, NEW handler, NEW b, NEW len
  PROVE  Made(kind, handler, b, len) # Panic
<1>1. \A p : /\ Published(p).what = "published" /\ Ignored.what = "ignored"
             /\ CompletedOnly.what = "completed" /\ Panic.what = "panic"
  BY DEF Published, Ignored, CompletedOnly, Panic
<1>2. PICK g, d : g = (CHOOSE f : PairsOf(b, len, f))[2] /\ d = Tail(Pieces(SubSeq(b, 1, len)))
  OBVIOUS
<1>3. PICK h : h = (CHOOSE f : PropsOf(d, f))[Len(d) \div 2]
  OBVIOUS
<1>4. \A p : Published(p) # Panic /\ Ignored # Panic /\ CompletedOnly # Panic
  BY <1>1
<1>5. \/ Made(kind, handler, b, len) \in {Ignored, CompletedOnly}
      \/ Made(kind, handler, b, len) = Published(g)
      \/ Made(kind, handler, b, len) = Published(h)
  BY <1>2, <1>3 DEF Made
<1> QED
  BY <1>4, <1>5

LEMMA FilledFits ==
  ASSUME NEW b, NEW bytes, IsSequence(bytes), Len(bytes) \in 0..BufLen
  PROVE  Fits(Filled(b, bytes), bytes)
<1>1. PICK f : f = Filled(b, bytes)
  OBVIOUS
<1>2. BufLen \in Nat
  BY ResponsesAssumption
<1>3. /\ f = [i \in 1..BufLen |-> f[i]]
      /\ \A i \in 1..Len(bytes) : f[i] = bytes[i]
  BY <1>1, <1>2 DEF Filled
<1> QED
  BY <1>1, <1>3 DEF Fits

(* A datagram: the first part of the answer that the buffer takes.         *)
LEMMA PartReceived ==
  ASSUME ByPairs, NEW answer \in Answers[engine.kind], NEW len \in 0..Len(BytesOf(answer)),
         NEW received, received = IF len <= BufLen THEN len ELSE BufLen,
         NEW bytes, bytes = SubSeq(BytesOf(answer), 1, received)
  PROVE  /\ IsSequence(bytes) /\ Len(bytes) = received /\ received \in 0..BufLen
         /\ received = Len(BytesOf(answer)) => bytes = BytesOf(answer)
<1>1. IsSequence(BytesOf(answer)) /\ Len(BytesOf(answer)) \in Nat
  BY BytesFacts
<1>2. PICK all : all = BytesOf(answer)
  OBVIOUS
<1>3. BufLen \in Nat
  BY ResponsesAssumption
<1>4. received \in Nat /\ received \in 0..BufLen
  BY <1>1, <1>3
<1>5. IsSequence(bytes) /\ Len(bytes) = received
  BY <1>4, ChunkSequence
<1>6. ASSUME received = Len(all)
      PROVE  bytes = all
  <2>1. IsSequence(all) /\ Len(all) = Len(bytes)
    BY <1>1, <1>2, <1>5, <1>6
  <2>2. \A i \in 1..Len(bytes) : bytes[i] = all[i]
    <3>1. all \in Seq(ToSet(all))
      BY <2>1 DEF IsSequence
    <3>2. \A i \in 1..received : all[i] \in ToSet(all)
      BY <1>6, <3>1, ElementOfSeq
    <3>3. \A i \in 1..received - 1 + 1 : SubSeq(all, 1, received)[i] = all[1 + i - 1]
      BY <1>4, <3>2, SubSeqProperties
    <3> QED
      BY <1>2, <1>4, <1>5, <3>3
  <2> QED
    BY <1>5, <2>1, <2>2, SequencesEqual
<1> QED
  BY <1>2, <1>4, <1>5, <1>6

LEMMA ReceivedStep ==
  ASSUME ReceivedInv, [ResponsesNext]_vars
  PROVE  ReceivedInv'
<1>1. CASE UNCHANGED vars
  <2>1. /\ engine' = engine /\ datagram' = datagram /\ buf' = buf /\ outcome' = outcome
    BY <1>1 DEF vars
  <2> QED
    BY <2>1 DEF ReceivedInv, NoDatagram
<1>2. CASE Ended
  <2>1. /\ engine' = engine /\ datagram' = datagram /\ buf' = buf /\ outcome' = outcome
    BY <1>2 DEF Ended, vars
  <2> QED
    BY <2>1 DEF ReceivedInv, NoDatagram
<1>3. ASSUME NEW answer \in Answers[engine.kind], NEW len \in 0..Len(BytesOf(answer)),
             Listen(answer, len), engine.kind \in {"qr2", "goa0"}
      PROVE  ReceivedInv'
  <2>1. ByPairs
    BY <1>3 DEF ByPairs, ReceivedInv
  <2>2. PICK received : received = IF len <= BufLen THEN len ELSE BufLen
    OBVIOUS
  <2>3. PICK bytes : bytes = SubSeq(BytesOf(answer), 1, received)
    OBVIOUS
  <2>4. PICK w : w = (received = Len(BytesOf(answer)))
    OBVIOUS
  <2>5. /\ datagram' = [answer |-> answer, whole |-> w, bytes |-> bytes]
        /\ buf' = Filled(buf, datagram'.bytes)
        /\ outcome' = Outcome(buf', received)
        /\ engine' = engine
    BY <1>3, <2>2, <2>3, <2>4 DEF Listen
  <2>6. /\ IsSequence(bytes) /\ Len(bytes) = received /\ received \in 0..BufLen
        /\ received = Len(BytesOf(answer)) => bytes = BytesOf(answer)
    BY <2>1, <2>2, <2>3, PartReceived
  <2>7. datagram'.bytes = bytes /\ datagram'.answer = answer /\ datagram'.whole = w
    BY <2>5
  <2>8. Fits(Filled(buf, bytes), bytes)
    BY <2>6, FilledFits
  <2>9. Fits(buf', bytes)
    BY <2>5, <2>7, <2>8
  <2>10. received \in Nat
    BY <2>6
  <2>11. Outcome(buf', received) = Made(engine.kind, engine.outputHandler, buf', received)
    BY <2>1, <2>10, OutcomeMade
  <2>12. BytesOf(answer) = OnWire(engine.kind, answer)
    BY <2>1, BytesFacts DEF OnWire, ByPairs
  <2>13. w => bytes = OnWire(engine.kind, answer)
    BY <2>4, <2>6, <2>12
  <2>14. outcome' = Made(engine.kind, engine.outputHandler, buf', Len(bytes))
    BY <2>5, <2>6, <2>11
  <2>15. outcome' # Panic
    BY <2>14, <1>3, MadeSurvives
  <2> QED
    BY <2>1, <2>5, <2>7, <2>9, <2>13, <2>14, <2>15 DEF ReceivedInv, ByPairs, Panic
<1>4. ASSUME NEW answer \in Answers[engine.kind], NEW len \in 0..Len(BytesOf(answer)),
             Listen(answer, len), engine.kind \notin {"qr2", "goa0"}
      PROVE  ReceivedInv'
  <2>1. engine' = engine
    BY <1>4 DEF Listen
  <2> QED
    BY <1>4, <2>1 DEF ReceivedInv
<1> QED
  BY <1>1, <1>2, <1>3, <1>4 DEF ResponsesNext

(* Only the own bytes of a datagram count, not those of earlier datagrams  *)
(* behind them in the buffer.                                              *)
LEMMA PairsOwnDatagram ==
  ASSUME ReceivedInv, engine.kind \in {"qr2", "goa0"}
  PROVE  OwnDatagramOnly
<1> SUFFICES ASSUME datagram # NoDatagram
             PROVE  outcome = Outcome(Filled([i \in 1..BufLen |-> 0], datagram.bytes),
                                      Len(datagram.bytes))
  BY DEF OwnDatagramOnly
<1>1. PICK n : n = Len(datagram.bytes)
  OBVIOUS
<1>2. PICK b : b = [i \in 1..BufLen |-> 0]
  OBVIOUS
<1>3. PICK c : c = Filled(b, datagram.bytes)
  OBVIOUS
<1>4. Fits(buf, datagram.bytes) /\ outcome = Made(engine.kind, engine.outputHandler, buf, n)
  BY <1>1 DEF ReceivedInv
<1>5. IsSequence(datagram.bytes) /\ Len(datagram.bytes) \in 0..BufLen
  BY <1>4 DEF Fits
<1>6. Fits(c, datagram.bytes)
  BY <1>3, <1>5, FilledFits
<1>7. Agree(buf, c, n)
  BY <1>1, <1>4, <1>6 DEF Fits, Agree
<1>8. n \in Nat
  BY <1>1, <1>5
<1>9. Made(engine.kind, engine.outputHandler, buf, n) = Made(engine.kind, engine.outputHandler, c, n)
  BY <1>7, <1>8, MadeAgrees
<1>10. ByPairs
  BY DEF ByPairs, ReceivedInv
<1>11. Outcome(c, n) = Made(engine.kind, engine.outputHandler, c, n)
  BY <1>8, <1>10, OutcomeMade
<1> QED
  BY <1>1, <1>2, <1>3, <1>4, <1>9, <1>11

-----------------------------------------------------------------------------
(* What is left of a datagram behind an offset.                            *)

View(b, at, len, t) ==
  /\ IsSequence(t) /\ at \in Nat \ {0} /\ at + Len(t) = len + 1
  /\ \A i \in 1..Len(t) : b[at + i - 1] = t[i]

LEMMA ViewCut ==
  ASSUME NEW b, NEW at, NEW len \in Nat, NEW x, NEW y, IsSequence(x), IsSequence(y),
         View(b, at, len, x \o y)
  PROVE  /\ at \in Nat \ {0} /\ Len(x) \in Nat
         /\ at + Len(x) <= len + 1
         /\ \A i \in 1..Len(x) : b[at + i - 1] = x[i]
         /\ View(b, at + Len(x), len, y)
<1>1. PICK t : t = x \o y
  OBVIOUS
<1>2. /\ Len(x) \in Nat /\ Len(y) \in Nat /\ Len(t) = Len(x) + Len(y)
      /\ \A i \in 1..Len(x) + Len(y) : t[i] = IF i <= Len(x) THEN x[i] ELSE y[i - Len(x)]
  BY <1>1, ConcatSequences
<1>3. PICK m \in Nat, n \in Nat : m = Len(x) /\ n = Len(y)
  BY <1>2
<1>4. /\ at \in Nat \ {0} /\ at + (m + n) = len + 1
      /\ \A i \in 1..m + n : b[at + i - 1] = t[i]
  BY <1>1, <1>2, <1>3 DEF View
<1>5. \A i \in 1..m + n : t[i] = IF i <= m THEN x[i] ELSE y[i - m]
  BY <1>2, <1>3
<1>6. \A i \in 1..m : b[at + i - 1] = x[i]
  BY <1>4, <1>5
<1>7. ASSUME NEW i \in 1..n
      PROVE  b[(at + m) + i - 1] = y[i]
  <2>1. m + i \in 1..m + n /\ ~(m + i <= m) /\ (m + i) - m = i /\ at + (m + i) - 1 = (at + m) + i - 1
    BY <1>4
  <2> QED
    BY <1>4, <1>5, <2>1
<1>8. View(b, at + m, len, y)
  BY <1>3, <1>4, <1>7 DEF View
<1> QED
  BY <1>3, <1>4, <1>6, <1>8

ZeroByte == <<0>>

(* A text is read up to the zero behind it.                                *)
LEMMA TextRead ==
  ASSUME NEW b, NEW at, NEW len \in Nat, NEW w \in Words("qr2"), NEW y, IsSequence(y),
         View(b, at, len, w \o (ZeroByte \o y))
  PROVE  /\ ReadString(b, at, len) = Got(w, at + Len(w) + 1)
         /\ at + Len(w) + 1 \in Nat /\ at + Len(w) + 1 <= len + 1
         /\ View(b, at + Len(w) + 1, len, y)
<1>1. IsSequence(w) /\ \A i \in 1..Len(w) : w[i] # 0
  BY WordFacts DEF Separator
<1>2. PICK z : z = <<0>>
  OBVIOUS
<1>3. IsSequence(z) /\ Len(z) = 1 /\ z[1] = 0
  BY <1>2, OneSymbol
<1>4. IsSequence(z \o y)
  BY <1>3, ConcatType
<1>5. View(b, at, len, w \o (z \o y))
  BY <1>2 DEF ZeroByte
<1>6. /\ at \in Nat \ {0} /\ Len(w) \in Nat
      /\ at + Len(w) <= len + 1
      /\ \A i \in 1..Len(w) : b[at + i - 1] = w[i]
      /\ View(b, at + Len(w), len, z \o y)
  BY <1>1, <1>4, <1>5, ViewCut
<1>7. PICK m \in Nat : m = Len(w)
  BY <1>6
<1>8. /\ at + m + Len(z) <= len + 1
      /\ \A i \in 1..Len(z) : b[at + m + i - 1] = z[i]
      /\ View(b, at + m + Len(z), len, y)
  <2>1. PICK a : a = at + m
    OBVIOUS
  <2>2. View(b, a, len, z \o y) /\ IsSequence(z)
    BY <1>3, <1>6, <1>7, <2>1
  <2>3. /\ a + Len(z) <= len + 1
        /\ \A i \in 1..Len(z) : b[a + i - 1] = z[i]
        /\ View(b, a + Len(z), len, y)
    <3>1. /\ a \in Nat \ {0} /\ Len(z) \in Nat
          /\ a + Len(z) <= len + 1
          /\ \A i \in 1..Len(z) : b[a + i - 1] = z[i]
          /\ View(b, a + Len(z), len, y)
      BY ONLY <2>2, len \in Nat, IsSequence(y), ViewCut
    <3> QED
      BY <3>1
  <2> QED
    BY <2>1, <2>3
<1>9. /\ at + m \in at..len /\ b[at + m] = 0
      /\ View(b, at + m + 1, len, y)
  <2>1. 1 \in 1..Len(z) /\ at + m + 1 - 1 = at + m
    BY <1>3, <1>6
  <2>2. b[at + m] = 0
    BY <1>3, <1>8, <2>1
  <2> QED
    BY <1>3, <1>6, <1>8, <2>2
<1>10. ASSUME NEW i \in at..at + m - 1
       PROVE  b[i] # 0
  <2>1. i - at + 1 \in 1..m /\ at + (i - at + 1) - 1 = i
    BY <1>6
  <2>2. b[i] = w[i - at + 1]
    BY <1>6, <1>7, <2>1
  <2> QED
    BY <1>1, <1>7, <2>1, <2>2
<1>11. {i \in at..len : b[i] = 0} # {}
  BY <1>9
<1>12. PICK f : f = FirstZero(b, at, len)
  OBVIOUS
<1>13. f \in at..len /\ b[f] = 0 /\ \A i \in at..f - 1 : b[i] # 0
  BY <1>6, <1>11, <1>12, FirstZeroFound
<1>14. f = at + m
  <2>1. f \in Nat /\ f \in at..len
    BY <1>6, <1>13
  <2>2. ~(f < at + m)
    <3>1. f < at + m => f \in at..at + m - 1
      BY <1>6, <2>1
    <3> QED
      BY <1>10, <1>13, <3>1
  <2>3. ~(at + m < f)
    <3>1. at + m < f => at + m \in at..f - 1
      BY <1>6, <2>1
    <3> QED
      BY <1>9, <1>13, <3>1
  <2> QED
    BY <1>6, <2>1, <2>2, <2>3
<1>15. ReadString(b, at, len) = Got(SubSeq(b, at, at + m - 1), at + m + 1)
  <2>1. ReadString(b, at, len) = Got(SubSeq(b, at, f - 1), f + 1)
    BY <1>11, <1>12 DEF ReadString, FirstZero
  <2>2. f - 1 = at + m - 1 /\ f + 1 = at + m + 1
    BY <1>6, <1>14
  <2> QED
    BY <2>1, <2>2
<1>16. SubSeq(b, at, at + m - 1) = w
  <2> DEFINE S == {b[i] : i \in at..at + m - 1}
  <2>1. \A i \in at..at + m - 1 : b[i] \in S
    OBVIOUS
  <2> HIDE DEF S
  <2>2. PICK c : c = SubSeq(b, at, at + m - 1)
    OBVIOUS
  <2>3. PICK e \in Int : e = at + m - 1
    BY <1>6
  <2>4. /\ c \in Seq(S) /\ Len(c) = (IF at <= e THEN e - at + 1 ELSE 0)
        /\ \A i \in 1..e - at + 1 : c[i] = b[at + i - 1]
    <3>1. at \in Int /\ e \in Int /\ c = SubSeq(b, at, e) /\ \A i \in at..e : b[i] \in S
      BY <1>6, <2>1, <2>2, <2>3
    <3> QED
      BY <3>1, SubSeqProperties
  <2>5. Len(c) = m /\ \A i \in 1..m : c[i] = b[at + i - 1]
    BY <1>6, <2>3, <2>4
  <2>6. IsSequence(c)
    BY <2>4, SequenceOf
  <2>7. \A i \in 1..Len(c) : c[i] = w[i]
    BY <1>6, <1>7, <2>5
  <2>8. c = w
    BY <1>1, <1>7, <2>5, <2>6, <2>7, SequencesEqual
  <2> QED
    BY <2>2, <2>8
<1>17. ReadString(b, at, len) = Got(w, at + m + 1)
  BY <1>15, <1>16
<1>18. at + m + 1 \in Nat /\ at + m + 1 <= len + 1
  BY <1>6, <1>9
<1> QED
  BY <1>7, <1>9, <1>17, <1>18

(* A string that is not empty is followed by an offset behind it.          *)
LEMMA ReadStringMoves ==
  ASSUME NEW b, NEW len \in Nat, NEW at \in Nat \ {0}
  PROVE  /\ at <= len => ReadString(b, at, len).at \in at + 1..len + 1
         /\ at > len => /\ ReadString(b, at, len).value = <<>>
                        /\ ReadString(b, at, len).at = len + 1
<1>1. PICK s : s = SubSeq(b, at, len)
  OBVIOUS
<1>2. CASE {i \in at..len : b[i] = 0} = {}
  <2>1. ReadString(b, at, len) = Got(s, len + 1)
    BY <1>1, <1>2 DEF ReadString
  <2>2. at > len => s = <<>>
    BY <1>1, SubSeqEmpty
  <2> QED
    BY <2>1, <2>2 DEF Got
<1>3. CASE {i \in at..len : b[i] = 0} # {}
  <2>1. PICK z : z = FirstZero(b, at, len)
    OBVIOUS
  <2>2. z \in at..len
    BY <1>3, <2>1, FirstZeroFound
  <2>3. PICK c : c = SubSeq(b, at, z - 1)
    OBVIOUS
  <2>4. ReadString(b, at, len) = Got(c, z + 1)
    BY <1>3, <2>1, <2>3 DEF ReadString, FirstZero
  <2>5. ReadString(b, at, len).at = z + 1
    BY <2>4 DEF Got
  <2> QED
    BY <2>2, <2>5
<1> QED
  BY <1>2, <1>3

LEMMA NextPairBehind ==
  ASSUME NEW b, NEW len \in Nat, NEW at \in Nat \ {0}, ReadString(b, at, len).value # <<>>
  PROVE  ReadString(b, ReadString(b, at, len).at, len).at \in at + 1..len + 1
<1>1. PICK k : k = ReadString(b, at, len).at
  OBVIOUS
<1>2. at <= len /\ k \in at + 1..len + 1
  BY <1>1, ReadStringMoves
<1>3. k \in Nat \ {0}
  BY <1>2
<1>4. /\ k <= len => ReadString(b, k, len).at \in k + 1..len + 1
      /\ k > len => ReadString(b, k, len).at = len + 1
  BY <1>3, ReadStringMoves
<1>5. PICK v : v = ReadString(b, k, len).at
  OBVIOUS
<1> QED
  BY <1>1, <1>2, <1>4, <1>5

(* The reading of the pairs ends.                                          *)
LEMMA PairsExist ==
  ASSUME NEW b, NEW len \in 0..BufLen
  PROVE  \E g : PairsOf(b, len, g)
<1>1. PICK N \in Nat \ {0} : N = BufLen + 1
  BY ResponsesAssumption
<1>2. len \in Nat /\ len + 1 <= N
  BY <1>1, ResponsesAssumption
<1> DEFINE D == 1..N
           Upto(k, g) == g = [at \in D |-> g[at]] /\ \A at \in D : at >= N + 1 - k => g[at] = PairsFrom(b, len, g, at)
           T == {k \in 1..N : \E g : Upto(k, g)}
<1>3. 1 \in T
  <2>1. PICK g : g = [at \in D |-> <<>>]
    OBVIOUS
  <2>2. ASSUME NEW at \in D, at >= N + 1 - 1
        PROVE  g[at] = PairsFrom(b, len, g, at)
    <3>1. at \in Nat \ {0} /\ at > len
      BY <1>2, <2>2
    <3>2. ReadString(b, at, len).value = <<>>
      BY <1>2, <3>1, ReadStringMoves
    <3>3. PairsFrom(b, len, g, at) = <<>>
      BY <3>2 DEF PairsFrom
    <3> QED
      BY <2>1, <3>3
  <2>3. Upto(1, g)
    BY <2>1, <2>2
  <2>4. 1 \in 1..N
    OBVIOUS
  <2> QED
    BY <2>3, <2>4
<1>4. ASSUME NEW k \in 1..N - 1, k \in T
      PROVE  k + 1 \in T
  <2>1. PICK g : Upto(k, g)
    BY <1>4
  <2>2. PICK new \in D : new = N - k
    OBVIOUS
  <2>3. PICK v : v = PairsFrom(b, len, g, new)
    OBVIOUS
  <2>4. PICK h : h = [at \in D |-> IF at = new THEN v ELSE g[at]]
    OBVIOUS
  <2>5. ASSUME NEW at \in D, at >= new
        PROVE  PairsFrom(b, len, h, at) = PairsFrom(b, len, g, at)
    <3>1. CASE ReadString(b, at, len).value = <<>>
      BY <3>1 DEF PairsFrom
    <3>2. CASE ReadString(b, at, len).value # <<>>
      <4>1. PICK next : next = ReadString(b, ReadString(b, at, len).at, len).at
        OBVIOUS
      <4>2. next \in at + 1..len + 1
        BY <1>2, <3>2, <4>1, NextPairBehind
      <4>3. next \in D /\ next # new
        BY <1>2, <2>5, <4>2
      <4>4. h[next] = g[next]
        BY <2>4, <4>3
      <4> QED
        BY <3>2, <4>1, <4>4 DEF PairsFrom
    <3> QED
      BY <3>1, <3>2
  <2>6. ASSUME NEW at \in D, at >= N + 1 - (k + 1)
        PROVE  h[at] = PairsFrom(b, len, h, at)
    <3>1. at >= new
      BY <2>2, <2>6
    <3>2. PairsFrom(b, len, h, at) = PairsFrom(b, len, g, at)
      BY <2>5, <3>1
    <3>3. CASE at = new
      BY <2>3, <2>4, <3>2, <3>3
    <3>4. CASE at # new
      <4>1. at >= N + 1 - k
        BY <2>2, <3>1, <3>4
      <4>2. g[at] = PairsFrom(b, len, g, at)
        BY <2>1, <4>1
      <4> QED
        BY <2>4, <3>2, <3>4, <4>2
    <3> QED
      BY <3>3, <3>4
  <2>7. Upto(k + 1, h)
    BY <2>4, <2>6
  <2>8. k + 1 \in 1..N
    OBVIOUS
  <2> QED
    BY <2>7, <2>8
<1>5. \A k \in 1..N : k \in T
  <2> HIDE DEF T
  <2>1. N \in Nat /\ 1 \in T /\ \A k \in 1..N - 1 : k \in T => k + 1 \in T
    BY <1>3, <1>4
  <2> QED
    BY <2>1, InductionTo
<1>6. N \in 1..N
  OBVIOUS
<1>7. PICK g : Upto(N, g)
  BY <1>5, <1>6
<1>8. \A at \in D : g[at] = PairsFrom(b, len, g, at)
  BY <1>7
<1>9. g = [at \in D |-> PairsFrom(b, len, g, at)]
  BY <1>7, <1>8
<1> QED
  BY <1>1, <1>9 DEF PairsOf

LEMMA EmptyText ==
  <<>> \in Words("qr2") /\ <<>> \in Words("goa0")
<1>1. <<>> \in Seq(0..255) /\ Len(<<>>) = 0
  OBVIOUS
<1> QED
  BY <1>1 DEF Words

(* Each key of the answer from a pair on has the value it was last given.  *)
RightFrom(m, answer, k) ==
  /\ DOMAIN m = {answer[i][1] : i \in k + 1..Len(answer)}
  /\ \A i \in k + 1..Len(answer) :
       (\A j \in i + 1..Len(answer) : answer[j][1] # answer[i][1]) => m[answer[i][1]] = answer[i][2]

LEMMA RightSet ==
  ASSUME NEW m, NEW answer, Len(answer) \in Nat, NEW k \in 0..Len(answer) - 1,
         RightFrom(m, answer, k + 1)
  PROVE  RightFrom(SetIfNew(m, answer[k + 1][1], answer[k + 1][2]), answer, k)
<1>1. PICK n \in Nat : n = Len(answer)
  OBVIOUS
<1>2. PICK q, v : q = answer[k + 1][1] /\ v = answer[k + 1][2]
  OBVIOUS
<1>3. PICK s : s = SetIfNew(m, q, v)
  OBVIOUS
<1>4. /\ DOMAIN s = DOMAIN m \cup {q}
      /\ \A x \in DOMAIN m : s[x] = m[x]
      /\ q \notin DOMAIN m => s[q] = v
  BY <1>3 DEF SetIfNew
<1>5. k + 1..n = (k + 1 + 1..n) \cup {k + 1}
  BY <1>1
<1>6. DOMAIN m = {answer[i][1] : i \in k + 1 + 1..n}
  BY <1>1 DEF RightFrom
<1>7. DOMAIN s = {answer[i][1] : i \in k + 1..n}
  BY <1>2, <1>4, <1>5, <1>6
<1>8. ASSUME NEW i \in k + 1..n, \A j \in i + 1..n : answer[j][1] # answer[i][1]
      PROVE  s[answer[i][1]] = answer[i][2]
  <2>1. CASE i = k + 1
    <3>1. q \notin DOMAIN m
      BY <1>2, <1>6, <1>8, <2>1
    <3> QED
      BY <1>2, <1>4, <2>1, <3>1
  <2>2. CASE i # k + 1
    <3>1. i \in k + 1 + 1..n
      BY <1>5, <2>2
    <3>2. m[answer[i][1]] = answer[i][2] /\ answer[i][1] \in DOMAIN m
      BY <1>1, <1>6, <1>8, <3>1 DEF RightFrom
    <3> QED
      BY <1>4, <3>2
  <2> QED
    BY <2>1, <2>2
<1> QED
  BY <1>1, <1>2, <1>3, <1>7, <1>8 DEF RightFrom

(* The rest of an answer of QR2 is read pair by pair.                      *)
LEMMA QR2Decodes ==
  ASSUME ByPairs, engine.kind = "qr2", NEW answer \in Answers["qr2"], NEW b,
         NEW len \in 0..BufLen, NEW g, PairsOf(b, len, g)
  PROVE  \A at : View(b, at, len, Behind(QR2Pairs(answer), 0) \o <<0>>) =>
           RightFrom(g[at], answer, 0)
<1>1. PICK n \in Nat : n = Len(answer)
  BY AnswerFacts
<1>2. PICK Q : Q = QR2Pairs(answer)
  OBVIOUS
<1>3. Q = [i \in 1..n |-> Q[i]] /\ \A i \in 1..n : IsSequence(Q[i])
  BY <1>1, <1>2, PairsSent
<1>4. /\ \A k \in 0..n : IsSequence(Behind(Q, k))
      /\ \A k \in 0..n : k < n => Behind(Q, k) = Q[k + 1] \o Behind(Q, k + 1)
      /\ Behind(Q, n) = <<>>
  BY <1>3, BehindFacts
<1>5. PICK z : z = <<0>>
  OBVIOUS
<1>6. IsSequence(z) /\ Len(z) = 1 /\ z[1] = 0
  BY <1>5, OneSymbol
<1>7. len \in Nat /\ len <= BufLen /\ BufLen \in Nat
  BY ResponsesAssumption
<1>8. \A at \in 1..BufLen + 1 : g[at] = PairsFrom(b, len, g, at)
  BY DEF PairsOf
<1> DEFINE Decodes(k) == \A at : View(b, at, len, Behind(Q, k) \o z) => RightFrom(g[at], answer, k)
           T == {j \in 1..n + 1 : Decodes(n + 1 - j)}
<1>9. 1 \in T
  <2>1. n + 1 - 1 = n
    OBVIOUS
  <2>2. ASSUME NEW at, View(b, at, len, Behind(Q, n) \o z)
        PROVE  RightFrom(g[at], answer, n)
    <3>1. Behind(Q, n) \o z = z /\ <<>> \o z = z
      BY <1>4, <1>6, EmptyConcat
    <3>2. View(b, at, len, z) /\ IsSequence(<<>>)
      BY <2>2, <3>1, EmptySequence
    <3>3. at \in Nat \ {0} /\ at = len /\ at \in 1..BufLen + 1
      BY <1>6, <1>7, <3>2 DEF View
    <3>4. <<>> \o (<<0>> \o <<>>) = z
      BY <1>5, <1>6, <3>1, EmptyConcat
    <3>5. View(b, at, len, <<>> \o (<<0>> \o <<>>)) /\ <<>> \in Words("qr2")
      BY <3>2, <3>4, EmptyText
    <3>6. PICK e : e = <<>>
      OBVIOUS
    <3>7. View(b, at, len, e \o (<<0>> \o e)) /\ e \in Words("qr2") /\ IsSequence(e)
      BY <3>2, <3>5, <3>6
    <3>8. /\ ReadString(b, at, len) = Got(e, at + Len(e) + 1)
          /\ at + Len(e) + 1 \in Nat /\ at + Len(e) + 1 <= len + 1
          /\ View(b, at + Len(e) + 1, len, e)
      BY ONLY <1>7, <3>7, TextRead DEF ZeroByte
    <3>9. ReadString(b, at, len).value = <<>>
      BY <3>6, <3>8 DEF Got
    <3>10. g[at] = <<>>
      BY <1>8, <3>3, <3>9 DEF PairsFrom
    <3>11. DOMAIN g[at] = {} /\ n + 1..n = {}
      BY <3>10
    <3> QED
      BY <1>1, <3>11 DEF RightFrom
  <2>3. Decodes(n + 1 - 1)
    BY <2>1, <2>2
  <2>4. 1 \in 1..n + 1
    OBVIOUS
  <2> QED
    BY <2>3, <2>4
<1>10. ASSUME NEW j \in 1..n + 1 - 1, j \in T
       PROVE  j + 1 \in T
  <2>1. PICK k \in 0..n - 1 : k = n - j
    OBVIOUS
  <2>2. n + 1 - j = k + 1 /\ n + 1 - (j + 1) = k
    BY <2>1
  <2>3. Decodes(k + 1)
    BY <1>10, <2>2
  <2>4. ASSUME NEW at, View(b, at, len, Behind(Q, k) \o z)
        PROVE  RightFrom(g[at], answer, k)
    <3>1. PICK q, v : q = answer[k + 1][1] /\ v = answer[k + 1][2]
      OBVIOUS
    <3>2. k + 1 \in 1..Len(answer)
      BY <1>1
    <3>3. answer[k + 1] \in Words("qr2") \X Words("qr2") /\ q # <<>>
      BY <3>1, <3>2, AnswerFacts
    <3>4. q \in Words("qr2") /\ v \in Words("qr2")
      BY <3>1, <3>3
    <3>5. IsSequence(q) /\ IsSequence(v)
      BY <3>4, WordFacts
    <3>6. PICK t : t = Behind(Q, k + 1) \o z
      OBVIOUS
    <3>7. IsSequence(Behind(Q, k + 1)) /\ IsSequence(t)
      <4>1. IsSequence(Behind(Q, k + 1))
        BY <1>4
      <4> QED
        BY <1>6, <3>6, <4>1, ConcatType
    <3>8. Behind(Q, k) \o z = q \o (z \o (v \o (z \o t)))
      <4>1. Behind(Q, k) = Q[k + 1] \o Behind(Q, k + 1)
        <5>1. k \in 0..n /\ k < n
          OBVIOUS
        <5> QED
          BY <1>4, <5>1
      <4>2. Q[k + 1] = ((q \o z) \o v) \o z
        BY <1>2, <1>5, <3>1, <3>2 DEF QR2Pairs, QR2Pair
      <4>3. PICK w, r, a, c : w = Q[k + 1] /\ r = Behind(Q, k + 1) /\ a = q \o z /\ c = a \o v
        OBVIOUS
      <4>4. IsSequence(w) /\ IsSequence(r)
        BY <1>3, <3>7, <4>3
      <4>5. IsSequence(a)
        BY <1>6, <3>5, <4>3, ConcatType
      <4>6. IsSequence(c)
        BY <3>5, <4>3, <4>5, ConcatType
      <4>7. (w \o r) \o z = w \o (r \o z)
        BY ONLY <1>6, <4>4, ConcatRegroups
      <4>8. (c \o z) \o t = c \o (z \o t)
        BY ONLY <1>6, <3>7, <4>6, ConcatRegroups
      <4>9. IsSequence(z \o t)
        BY <1>6, <3>7, ConcatType
      <4>10. (a \o v) \o (z \o t) = a \o (v \o (z \o t))
        BY ONLY <3>5, <4>5, <4>9, ConcatRegroups
      <4>11. IsSequence(v \o (z \o t))
        BY <3>5, <4>9, ConcatType
      <4>12. (q \o z) \o (v \o (z \o t)) = q \o (z \o (v \o (z \o t)))
        <5>1. PICK y : y = v \o (z \o t)
          OBVIOUS
        <5>2. IsSequence(q) /\ IsSequence(z) /\ IsSequence(y)
          BY <1>6, <3>5, <4>11, <5>1
        <5>3. (q \o z) \o y = q \o (z \o y)
          BY ONLY <5>2, ConcatRegroups
        <5> QED
          BY <5>1, <5>3
      <4> QED
        BY <3>6, <4>1, <4>2, <4>3, <4>7, <4>8, <4>10, <4>12
    <3>9. PICK x : x = v \o (z \o t)
      OBVIOUS
    <3>10. IsSequence(x)
      <4>1. IsSequence(z \o t)
        BY <1>6, <3>7, ConcatType
      <4> QED
        BY <3>5, <3>9, <4>1, ConcatType
    <3>11. View(b, at, len, q \o (<<0>> \o x))
      BY <1>5, <2>4, <3>8, <3>9
    <3>12. /\ ReadString(b, at, len) = Got(q, at + Len(q) + 1)
           /\ at + Len(q) + 1 \in Nat /\ at + Len(q) + 1 <= len + 1
           /\ View(b, at + Len(q) + 1, len, x)
      BY ONLY <1>7, <3>4, <3>10, <3>11, TextRead DEF ZeroByte
    <3>13. PICK at2 : at2 = at + Len(q) + 1
      OBVIOUS
    <3>14. View(b, at2, len, v \o (<<0>> \o t))
      BY <1>5, <3>9, <3>12, <3>13
    <3>15. /\ ReadString(b, at2, len) = Got(v, at2 + Len(v) + 1)
           /\ at2 + Len(v) + 1 \in Nat /\ at2 + Len(v) + 1 <= len + 1
           /\ View(b, at2 + Len(v) + 1, len, t)
      BY ONLY <1>7, <3>4, <3>7, <3>14, TextRead DEF ZeroByte
    <3>16. PICK at3 : at3 = at2 + Len(v) + 1
      OBVIOUS
    <3>17. RightFrom(g[at3], answer, k + 1)
      BY <2>3, <3>6, <3>15, <3>16
    <3>18. ReadString(b, at, len) = Got(q, at2) /\ ReadString(b, at2, len) = Got(v, at3)
      BY <3>12, <3>13, <3>15, <3>16
    <3>19. at \in 1..BufLen + 1
      <4>1. at \in Nat \ {0} /\ Len(q) \in Nat /\ at + Len(q) <= len + 1
        <5>1. IsSequence(<<0>> \o x)
          BY <1>5, <1>6, <3>10, ConcatType
        <5>2. PICK y : y = <<0>> \o x
          OBVIOUS
        <5>3. View(b, at, len, q \o y) /\ IsSequence(y)
          BY <3>11, <5>1, <5>2
        <5>4. /\ at \in Nat \ {0} /\ Len(q) \in Nat
              /\ at + Len(q) <= len + 1
              /\ \A i \in 1..Len(q) : b[at + i - 1] = q[i]
              /\ View(b, at + Len(q), len, y)
          BY ONLY <1>7, <3>5, <5>3, ViewCut
        <5> QED
          BY <5>4
      <4> QED
        BY <1>7, <4>1
    <3>20. ReadString(b, at, len).value = q /\ ReadString(b, at, len).at = at2
           /\ ReadString(b, at2, len).value = v /\ ReadString(b, at2, len).at = at3
      BY <3>18 DEF Got
    <3>21. PairsFrom(b, len, g, at) = SetIfNew(g[at3], q, v)
      BY <3>3, <3>20 DEF PairsFrom
    <3>22. g[at] = SetIfNew(g[at3], q, v)
      BY <1>8, <3>19, <3>21
    <3>23. RightFrom(SetIfNew(g[at3], answer[k + 1][1], answer[k + 1][2]), answer, k)
      <4>1. Len(answer) \in Nat /\ k \in 0..Len(answer) - 1
        BY <1>1
      <4>2. PICK m : m = g[at3]
        OBVIOUS
      <4>3. RightFrom(m, answer, k + 1)
        BY <3>17, <4>2
      <4>4. RightFrom(SetIfNew(m, answer[k + 1][1], answer[k + 1][2]), answer, k)
        BY ONLY <4>1, <4>3, RightSet
      <4> QED
        BY <4>2, <4>4
    <3> QED
      BY <3>1, <3>22, <3>23
  <2>5. Decodes(n + 1 - (j + 1))
    BY <2>2, <2>4
  <2>6. j + 1 \in 1..n + 1
    OBVIOUS
  <2> QED
    BY <2>5, <2>6
<1>11. \A j \in 1..n + 1 : j \in T
  <2>1. PICK N \in Nat : N = n + 1
    OBVIOUS
  <2> HIDE DEF T
  <2>2. 1 \in T /\ \A j \in 1..N - 1 : j \in T => j + 1 \in T
    BY <1>9, <1>10, <2>1
  <2>3. \A j \in 1..N : j \in T
    BY <2>2, InductionTo
  <2> QED
    BY <2>1, <2>3
<1>12. n + 1 \in T
  BY <1>11
<1>13. n + 1 - (n + 1) = 0
  OBVIOUS
<1>14. Decodes(0)
  BY <1>12, <1>13
<1> QED
  BY <1>2, <1>5, <1>14

-----------------------------------------------------------------------------
(* GOA splits the text at the backslashes.                                 *)

NextPieces(ps, c) ==
  IF c = Backslash THEN Append(ps, <<>>) ELSE Append(Front(ps), Append(Last(ps), c))
PiecesOf(text, g) ==
  g = [n \in 0..Len(text) |-> IF n = 0 THEN <<<<>>>> ELSE NextPieces(g[n - 1], text[n])]

LEMMA PiecesValue ==
  ASSUME NEW text
  PROVE  Pieces(text) = (CHOOSE g : PiecesOf(text, g))[Len(text)]
BY DEF Pieces, PiecesOf, NextPieces

LEMMA PiecesExist ==
  ASSUME NEW text, Len(text) \in Nat
  PROVE  \E g : PiecesOf(text, g)
<1>1. PICK L \in Nat : L = Len(text)
  OBVIOUS
<1> DEFINE D == 0..L
           Start == <<<<>>>>
           Value(g, n) == IF n = 0 THEN Start ELSE NextPieces(g[n - 1], text[n])
           Upto(k, g) == g = [n \in D |-> g[n]] /\ \A n \in 0..k - 1 : g[n] = Value(g, n)
           T == {k \in 1..L + 1 : \E g : Upto(k, g)}
<1>2. 1 \in T
  <2>1. PICK g : g = [n \in D |-> Start]
    OBVIOUS
  <2>2. Upto(1, g)
    BY <2>1
  <2> QED
    BY <2>2
<1>3. ASSUME NEW k \in 1..L, k \in T
      PROVE  k + 1 \in T
  <2>1. PICK g : Upto(k, g)
    BY <1>3
  <2>2. PICK v : v = NextPieces(g[k - 1], text[k])
    OBVIOUS
  <2>3. PICK h : h = [n \in D |-> IF n = k THEN v ELSE g[n]]
    OBVIOUS
  <2>4. ASSUME NEW n \in 0..k + 1 - 1
        PROVE  h[n] = Value(h, n)
    <3>1. CASE n = 0
      <4>1. 0 \in D /\ 0 # k /\ 0 \in 0..k - 1
        OBVIOUS
      <4>2. g[0] = Start
        BY <2>1, <4>1
      <4>3. h[0] = g[0]
        BY <2>3, <4>1
      <4> QED
        BY <3>1, <4>2, <4>3
    <3>2. CASE n # 0 /\ n # k
      <4>1. n \in D /\ n - 1 \in D /\ n - 1 # k /\ n \in 0..k - 1
        BY <3>2
      <4>2. g[n] = NextPieces(g[n - 1], text[n])
        BY <2>1, <3>2, <4>1
      <4>3. h[n] = g[n] /\ h[n - 1] = g[n - 1]
        BY <2>3, <3>2, <4>1
      <4> QED
        BY <3>2, <4>2, <4>3
    <3>3. CASE n = k
      <4>1. n \in D /\ n - 1 \in D /\ n - 1 # k /\ n # 0
        BY <3>3
      <4>2. h[n] = v /\ h[n - 1] = g[n - 1]
        BY <2>3, <3>3, <4>1
      <4> QED
        BY <2>2, <3>3, <4>1, <4>2
    <3> QED
      BY <3>1, <3>2, <3>3
  <2>5. Upto(k + 1, h)
    <3>1. h = [n \in D |-> h[n]]
      BY <2>3
    <3> HIDE DEF Value
    <3> QED
      BY <2>4, <3>1
  <2>6. k + 1 \in 1..L + 1
    OBVIOUS
  <2> QED
    BY <2>5, <2>6
<1>4. L + 1 \in T
  <2>1. PICK N \in Nat : N = L + 1
    OBVIOUS
  <2> HIDE DEF T
  <2>2. 1 \in T /\ \A k \in 1..N - 1 : k \in T => k + 1 \in T
    BY <1>2, <1>3, <2>1
  <2>3. \A k \in 1..N : k \in T
    BY <2>2, InductionTo
  <2>4. N \in 1..N
    BY <2>1
  <2> QED
    BY <2>1, <2>3, <2>4
<1>5. PICK g : Upto(L + 1, g)
  BY <1>4
<1>6. 0..L + 1 - 1 = D
  OBVIOUS
<1>7. \A n \in D : g[n] = Value(g, n)
  <2> HIDE DEF Value
  <2> QED
    BY <1>5, <1>6
<1>8. g = [n \in D |-> Value(g, n)]
  BY <1>5, <1>7
<1> QED
  BY <1>1, <1>8 DEF PiecesOf

(* The last piece grows by a symbol.                                       *)
LEMMA PieceGrows ==
  ASSUME NEW ps, IsSequence(ps), NEW L \in Nat \ {0}, Len(ps) = L, NEW c, c # Backslash
  PROVE  LET qs == NextPieces(ps, c) IN
         /\ IsSequence(qs) /\ Len(qs) = L
         /\ \A i \in 1..L - 1 : qs[i] = ps[i]
         /\ qs[L] = Append(ps[L], c)
<1>1. PICK f, e, qs : f = Front(ps) /\ e = Append(ps[L], c) /\ qs = NextPieces(ps, c)
  OBVIOUS
<1>2. PICK l \in Nat : l = L - 1
  OBVIOUS
<1>3. f = SubSeq(ps, 1, l)
  BY <1>1, <1>2 DEF Front
<1>4. IsSequence(f) /\ Len(f) = l
  BY <1>3, ChunkSequence
<1>5. \A i \in 1..l : f[i] = ps[i]
  <2>1. ps \in Seq(ToSet(ps))
    BY DEF IsSequence
  <2>2. \A i \in 1..l : ps[i] \in ToSet(ps)
    BY <1>2, <2>1, ElementOfSeq
  <2>3. /\ SubSeq(ps, 1, l) \in Seq(ToSet(ps))
        /\ Len(SubSeq(ps, 1, l)) = IF 1 <= l THEN l - 1 + 1 ELSE 0
        /\ \A i \in 1..l - 1 + 1 : SubSeq(ps, 1, l)[i] = ps[1 + i - 1]
    BY <2>2, SubSeqProperties
  <2> QED
    BY <1>3, <2>3
<1>6. qs = Append(f, e)
  BY <1>1 DEF NextPieces, Last
<1>7. IsSequence(Append(f, e)) /\ Len(Append(f, e)) = Len(f) + 1
  BY <1>4, AppendSequence
<1>8. \A i \in 1..Len(f) + 1 : Append(f, e)[i] = IF i <= Len(f) THEN f[i] ELSE e
  BY <1>4, AppendElements
<1>9. IsSequence(qs) /\ Len(qs) = L
  BY <1>2, <1>4, <1>6, <1>7
<1>10. \A i \in 1..L - 1 : qs[i] = ps[i]
  BY <1>2, <1>4, <1>5, <1>6, <1>8
<1>11. qs[L] = e
  BY <1>2, <1>4, <1>6, <1>8
<1> QED
  BY <1>1, <1>9, <1>10, <1>11

(* A word behind a backslash is a piece more.                              *)
LEMMA WordSplit ==
  ASSUME NEW text, Len(text) \in Nat, NEW g, PiecesOf(text, g),
         NEW p \in Nat, NEW w \in Words("goa0"), NEW y, IsSequence(y),
         View(text, p + 1, Len(text), (<<Backslash>> \o w) \o y),
         IsSequence(g[p]), NEW L \in Nat, Len(g[p]) = L
  PROVE  \E q \in Nat :
           /\ View(text, q + 1, Len(text), y)
           /\ IsSequence(g[q]) /\ Len(g[q]) = L + 1
           /\ \A i \in 1..L : g[q][i] = g[p][i]
           /\ g[q][L + 1] = w
<1>1. PICK N \in Nat : N = Len(text)
  OBVIOUS
<1>2. IsSequence(w) /\ \A i \in 1..Len(w) : w[i] # Backslash
  BY WordFacts DEF Separator
<1>3. PICK s : s = <<Backslash>>
  OBVIOUS
<1>4. IsSequence(s) /\ Len(s) = 1 /\ s[1] = Backslash
  BY <1>3, OneSymbol
<1>5. PICK x : x = s \o w
  OBVIOUS
<1>6. /\ IsSequence(x) /\ Len(w) \in Nat /\ Len(x) = Len(s) + Len(w)
      /\ \A i \in 1..Len(s) + Len(w) : x[i] = IF i <= Len(s) THEN s[i] ELSE w[i - Len(s)]
  BY <1>2, <1>4, <1>5, ConcatSequences
<1>7. PICK m \in Nat : m = Len(w)
  BY <1>6
<1>8. Len(x) = m + 1 /\ x[1] = Backslash /\ \A i \in 1..m : x[i + 1] = w[i]
  <2>1. Len(x) = m + 1 /\ \A i \in 1..m + 1 : x[i] = IF i <= 1 THEN s[i] ELSE w[i - 1]
    BY <1>4, <1>6, <1>7
  <2>2. x[1] = Backslash
    BY <1>4, <2>1
  <2>3. \A i \in 1..m : i + 1 \in 1..m + 1 /\ ~(i + 1 <= 1) /\ (i + 1) - 1 = i
    OBVIOUS
  <2> QED
    BY <2>1, <2>2, <2>3
<1>9. PICK at : at = p + 1
  OBVIOUS
<1>10. View(text, at, N, x \o y) /\ IsSequence(x) /\ IsSequence(y) /\ N \in Nat
  BY <1>1, <1>3, <1>5, <1>6, <1>9
<1>11. /\ at \in Nat \ {0} /\ Len(x) \in Nat
       /\ at + Len(x) <= N + 1
       /\ \A i \in 1..Len(x) : text[at + i - 1] = x[i]
       /\ View(text, at + Len(x), N, y)
  BY ONLY <1>10, ViewCut
<1>12. /\ p + m + 1 <= N
       /\ text[p + 1] = Backslash
       /\ \A i \in 1..m : text[p + 1 + i] = w[i]
       /\ View(text, p + 1 + m + 1, N, y)
  <2>1. p + m + 1 <= N /\ View(text, p + 1 + m + 1, N, y)
    <3>1. at + Len(x) = p + 1 + m + 1
      BY <1>8, <1>9
    <3> QED
      BY <1>11, <3>1
  <2>2. \A i \in 1..m + 1 : text[p + i] = x[i]
    <3>1. \A i \in 1..m + 1 : at + i - 1 = p + i
      BY <1>9
    <3> QED
      BY <1>8, <1>11, <3>1
  <2>3. \A i \in 1..m : i + 1 \in 1..m + 1 /\ p + (i + 1) = p + 1 + i
    OBVIOUS
  <2>4. 1 \in 1..m + 1
    OBVIOUS
  <2> QED
    BY <1>8, <2>1, <2>2, <2>3, <2>4
<1>13. \A n \in 1..N : g[n] = NextPieces(g[n - 1], text[n])
  BY <1>1 DEF PiecesOf
<1>14. /\ IsSequence(g[p + 1]) /\ Len(g[p + 1]) = L + 1
       /\ \A i \in 1..L : g[p + 1][i] = g[p][i]
       /\ g[p + 1][L + 1] = <<>>
  <2>1. p + 1 \in 1..N /\ (p + 1) - 1 = p
    BY <1>12
  <2>2. g[p + 1] = NextPieces(g[p], text[p + 1])
    BY <1>13, <2>1
  <2>3. PICK ps, e : ps = g[p] /\ e = <<>>
    OBVIOUS
  <2>4. g[p + 1] = Append(ps, e)
    BY <1>12, <2>2, <2>3 DEF NextPieces
  <2>5. IsSequence(ps) /\ Len(ps) = L
    BY <2>3
  <2>6. IsSequence(Append(ps, e)) /\ Len(Append(ps, e)) = Len(ps) + 1
    BY <2>5, AppendSequence
  <2>7. \A i \in 1..Len(ps) + 1 : Append(ps, e)[i] = IF i <= Len(ps) THEN ps[i] ELSE e
    BY <2>5, AppendElements
  <2>8. /\ \A i \in 1..L : Append(ps, e)[i] = ps[i]
        /\ Append(ps, e)[L + 1] = e
    BY <2>5, <2>7
  <2> QED
    BY <2>3, <2>4, <2>5, <2>6, <2>8
<1> DEFINE Grown(j, ps) ==
             /\ IsSequence(ps) /\ Len(ps) = L + 1
             /\ \A i \in 1..L : ps[i] = g[p][i]
             /\ IsSequence(ps[L + 1]) /\ Len(ps[L + 1]) = j
             /\ \A i \in 1..j : ps[L + 1][i] = w[i]
           T == {k \in 1..m + 1 : Grown(k - 1, g[p + k])}
<1>15. 1 \in T
  <2>1. IsSequence(<<>>) /\ Len(<<>>) = 0
    BY EmptySequence
  <2>2. 1 - 1 = 0 /\ 1 \in 1..m + 1
    OBVIOUS
  <2>3. PICK ps : ps = g[p + 1]
    OBVIOUS
  <2>4. IsSequence(ps[L + 1]) /\ Len(ps[L + 1]) = 0
    BY <1>14, <2>1, <2>3
  <2>5. Grown(0, ps)
    BY <1>14, <2>3, <2>4
  <2> QED
    BY <2>2, <2>3, <2>5
<1>16. ASSUME NEW k \in 1..m, k \in T
       PROVE  k + 1 \in T
  <2>1. PICK ps, c : ps = g[p + k] /\ c = text[p + k + 1]
    OBVIOUS
  <2>2. Grown(k - 1, ps)
    BY <1>16, <2>1
  <2>3. c = w[k] /\ c # Backslash
    <3>1. p + 1 + k = p + k + 1
      OBVIOUS
    <3> QED
      BY <1>2, <1>7, <1>12, <2>1, <3>1
  <2>4. PICK qs : qs = NextPieces(ps, c)
    OBVIOUS
  <2>5. L + 1 \in Nat \ {0} /\ (L + 1) - 1 = L /\ IsSequence(ps) /\ Len(ps) = L + 1
    BY <2>2
  <2>6. PICK M \in Nat \ {0} : M = L + 1
    BY <2>5
  <2>7. /\ IsSequence(qs) /\ Len(qs) = M
        /\ \A i \in 1..M - 1 : qs[i] = ps[i]
        /\ qs[M] = Append(ps[M], c)
    BY <2>3, <2>4, <2>5, <2>6, PieceGrows
  <2>8. p + k + 1 \in 1..N /\ (p + k + 1) - 1 = p + k
    BY <1>12
  <2>9. g[p + k + 1] = qs
    BY <1>13, <2>1, <2>4, <2>8
  <2>10. PICK o : o = ps[M]
    OBVIOUS
  <2>11. IsSequence(o) /\ Len(o) = k - 1 /\ \A i \in 1..k - 1 : o[i] = w[i]
    BY <2>2, <2>6, <2>10
  <2>12. IsSequence(Append(o, c)) /\ Len(Append(o, c)) = Len(o) + 1
    BY <2>11, AppendSequence
  <2>13. \A i \in 1..Len(o) + 1 : Append(o, c)[i] = IF i <= Len(o) THEN o[i] ELSE c
    BY <2>11, AppendElements
  <2>14. Len(Append(o, c)) = k /\ \A i \in 1..k : Append(o, c)[i] = w[i]
    BY <2>3, <2>11, <2>12, <2>13
  <2>15. Grown(k, qs)
    BY <2>2, <2>5, <2>6, <2>7, <2>10, <2>12, <2>14
  <2>16. k + 1 \in 1..m + 1 /\ (k + 1) - 1 = k /\ p + (k + 1) = p + k + 1
    OBVIOUS
  <2> QED
    BY <2>9, <2>15, <2>16
<1>17. m + 1 \in T
  <2>1. PICK M \in Nat : M = m + 1
    OBVIOUS
  <2> HIDE DEF T
  <2>2. 1 \in T /\ \A k \in 1..M - 1 : k \in T => k + 1 \in T
    BY <1>15, <1>16, <2>1
  <2>3. \A k \in 1..M : k \in T
    BY <2>2, InductionTo
  <2>4. M \in 1..M
    BY <2>1
  <2> QED
    BY <2>1, <2>3, <2>4
<1>18. PICK q \in Nat : q = p + (m + 1)
  OBVIOUS
<1>19. (m + 1) - 1 = m
  OBVIOUS
<1>20. Grown(m, g[q])
  BY <1>17, <1>18, <1>19
<1>21. g[q][L + 1] = w
  <2>1. PICK o : o = g[q][L + 1]
    OBVIOUS
  <2>2. IsSequence(o) /\ Len(o) = Len(w) /\ \A i \in 1..Len(o) : o[i] = w[i]
    BY <1>7, <1>20, <2>1
  <2>3. o = w
    BY <1>2, <2>2, SequencesEqual
  <2> QED
    BY <2>1, <2>3
<1>22. q + 1 = p + 1 + m + 1
  BY <1>18
<1>23. View(text, q + 1, Len(text), y)
  BY <1>1, <1>12, <1>22
<1> QED
  BY <1>18, <1>20, <1>21, <1>23

(* After k pairs their texts are the pieces behind the first one, in turn. *)
PairsSplit(ps, answer, k) ==
  /\ IsSequence(ps) /\ Len(ps) = 2 * k + 1
  /\ \A i \in 1..k : ps[2 * i] = answer[i][1] /\ ps[2 * i + 1] = answer[i][2]

LEMMA PairSplit ==
  ASSUME NEW ps, NEW qs, NEW answer, NEW k \in Nat, PairsSplit(ps, answer, k),
         IsSequence(qs), Len(qs) = 2 * k + 3, \A i \in 1..2 * k + 1 : qs[i] = ps[i],
         qs[2 * k + 2] = answer[k + 1][1], qs[2 * k + 3] = answer[k + 1][2]
  PROVE  PairsSplit(qs, answer, k + 1)
<1>1. Len(qs) = 2 * (k + 1) + 1
  OBVIOUS
<1>2. ASSUME NEW i \in 1..k + 1
      PROVE  qs[2 * i] = answer[i][1] /\ qs[2 * i + 1] = answer[i][2]
  <2>1. CASE i = k + 1
    <3>1. 2 * i = 2 * k + 2 /\ 2 * i + 1 = 2 * k + 3
      BY <2>1
    <3> QED
      BY <2>1, <3>1
  <2>2. CASE i # k + 1
    <3>1. i \in 1..k /\ 2 * i \in 1..2 * k + 1 /\ 2 * i + 1 \in 1..2 * k + 1
      BY <2>2
    <3> QED
      BY <3>1 DEF PairsSplit
  <2> QED
    BY <2>1, <2>2
<1> QED
  BY <1>1, <1>2 DEF PairsSplit

LEMMA FinalWord ==
  Final \in Words("goa0")
<1>1. <<250>> \in Seq(0..255) /\ Len(<<250>>) = 1 /\ <<250>>[1] = 250
  OBVIOUS
<1> QED
  BY <1>1 DEF Words, Separator, Final, Backslash

LEMMA GOASplits ==
  ASSUME ByPairs, engine.kind = "goa0", NEW answer \in Answers["goa0"], NEW text,
         text = OnWire("goa0", answer), Len(text) \in Nat, NEW g, PiecesOf(text, g)
  PROVE  \E ps : /\ PairsSplit(ps, answer, Len(answer))
                 /\ IsSequence(g[Len(text)]) /\ Len(g[Len(text)]) = 2 * Len(answer) + 3
                 /\ \A i \in 1..2 * Len(answer) + 1 : g[Len(text)][i] = ps[i]
                 /\ g[Len(text)][2 * Len(answer) + 2] = Final
<1>1. PICK n \in Nat : n = Len(answer)
  BY AnswerFacts
<1>2. PICK N \in Nat : N = Len(text)
  OBVIOUS
<1>3. PICK G : G = GOAPairs(answer)
  OBVIOUS
<1>4. G = [i \in 1..n |-> G[i]] /\ \A i \in 1..n : IsSequence(G[i])
  BY <1>1, <1>3, PairsSent
<1>5. /\ \A k \in 0..n : IsSequence(Behind(G, k))
      /\ \A k \in 0..n : k < n => Behind(G, k) = G[k + 1] \o Behind(G, k + 1)
      /\ Behind(G, n) = <<>>
  BY <1>4, BehindFacts
<1>6. PICK s : s = <<Backslash>>
  OBVIOUS
<1>7. IsSequence(s)
  BY <1>6, OneSymbol
<1>8. PICK E : E = <<Backslash>> \o Final \o <<Backslash>>
  OBVIOUS
<1>9. IsSequence(E)
  BY <1>8, FinalFacts
<1>10. text = Behind(G, 0) \o E
  BY <1>3, <1>8 DEF OnWire
<1> DEFINE Left(k, p) == View(text, p + 1, N, Behind(G, k) \o E) /\ PairsSplit(g[p], answer, k)
           T == {j \in 1..n + 1 : \E p \in Nat : Left(j - 1, p)}
<1>11. 1 \in T
  <2>1. IsSequence(Behind(G, 0))
    BY <1>5
  <2>2. IsSequence(text)
    BY <1>9, <1>10, <2>1, ConcatType
  <2>3. View(text, 0 + 1, N, text)
    BY <1>2, <2>2 DEF View
  <2>4. PICK e, first : e = <<>> /\ first = <<e>>
    OBVIOUS
  <2>5. IsSequence(first) /\ Len(first) = 1
    BY <2>4, OneSymbol
  <2>6. g[0] = first
    BY <1>2, <2>4 DEF PiecesOf
  <2>7. PairsSplit(g[0], answer, 0)
    BY <2>5, <2>6 DEF PairsSplit
  <2>8. View(text, 0 + 1, N, Behind(G, 0) \o E)
    BY <1>10, <2>3
  <2>9. Left(0, 0)
    BY <2>7, <2>8
  <2>10. 1 - 1 = 0 /\ 1 \in 1..n + 1
    OBVIOUS
  <2> HIDE DEF Left
  <2> QED
    BY <2>9, <2>10
<1>12. ASSUME NEW j \in 1..n, j \in T
       PROVE  j + 1 \in T
  <2>1. PICK k \in 0..n - 1 : k = j - 1
    OBVIOUS
  <2>2. PICK p \in Nat : Left(k, p)
    BY <1>12, <2>1
  <2>3. PICK a, b : a = answer[j][1] /\ b = answer[j][2]
    OBVIOUS
  <2>4. a \in Words("goa0") /\ b \in Words("goa0")
    <3>1. answer[j] \in Words("goa0") \X Words("goa0")
      BY <1>1, AnswerFacts
    <3> QED
      BY <2>3, <3>1
  <2>5. IsSequence(a) /\ IsSequence(b)
    BY <2>4, WordFacts
  <2>6. PICK r : r = Behind(G, j) \o E
    OBVIOUS
  <2>7. IsSequence(Behind(G, j)) /\ IsSequence(r)
    <3>1. IsSequence(Behind(G, j))
      BY <1>5
    <3> QED
      BY <1>9, <2>6, <3>1, ConcatType
  <2>8. PICK v : v = (s \o b) \o r
    OBVIOUS
  <2>9. IsSequence(s \o b) /\ IsSequence(v)
    <3>1. IsSequence(s \o b)
      BY <1>7, <2>5, ConcatType
    <3> QED
      BY <2>7, <2>8, <3>1, ConcatType
  <2>10. Behind(G, k) \o E = (s \o a) \o v
    <3>1. PICK m, x, sa, sb : m = G[j] /\ x = Behind(G, j) /\ sa = s \o a /\ sb = s \o b
      OBVIOUS
    <3>2. IsSequence(m) /\ IsSequence(x) /\ IsSequence(sb)
      BY <1>4, <2>7, <2>9, <3>1
    <3>3. IsSequence(sa)
      BY <1>7, <2>5, <3>1, ConcatType
    <3>4. Behind(G, k) = m \o x
      <4>1. k \in 0..n /\ k < n /\ k + 1 = j
        BY <2>1
      <4> QED
        BY <1>5, <3>1, <4>1
    <3>5. (m \o x) \o E = m \o (x \o E)
      BY <1>9, <3>2, ConcatRegroups
    <3>6. m = (sa \o s) \o b
      BY <1>1, <1>3, <1>6, <2>3, <3>1 DEF GOAPairs, GOAPair
    <3>7. (sa \o s) \o b = sa \o (s \o b)
      BY <1>7, <2>5, <3>3, ConcatRegroups
    <3>8. (sa \o sb) \o r = sa \o (sb \o r)
      BY <2>7, <3>2, <3>3, ConcatRegroups
    <3> QED
      BY <2>6, <2>8, <3>1, <3>4, <3>5, <3>6, <3>7, <3>8
  <2>11. PICK L \in Nat : L = 2 * k + 1
    OBVIOUS
  <2>12. /\ View(text, p + 1, Len(text), (<<Backslash>> \o a) \o v)
         /\ IsSequence(g[p]) /\ Len(g[p]) = L
    BY <1>2, <1>6, <2>2, <2>10, <2>11 DEF PairsSplit
  <2>13. PICK q \in Nat :
           /\ View(text, q + 1, Len(text), v)
           /\ IsSequence(g[q]) /\ Len(g[q]) = L + 1
           /\ \A i \in 1..L : g[q][i] = g[p][i]
           /\ g[q][L + 1] = a
    BY <2>4, <2>9, <2>12, WordSplit
  <2>14. PICK M \in Nat : M = L + 1
    OBVIOUS
  <2>15. /\ View(text, q + 1, Len(text), (<<Backslash>> \o b) \o r)
         /\ IsSequence(g[q]) /\ Len(g[q]) = M
    BY <1>6, <2>8, <2>13, <2>14
  <2>16. PICK o \in Nat :
           /\ View(text, o + 1, Len(text), r)
           /\ IsSequence(g[o]) /\ Len(g[o]) = M + 1
           /\ \A i \in 1..M : g[o][i] = g[q][i]
           /\ g[o][M + 1] = b
    BY <2>4, <2>7, <2>15, WordSplit
  <2>17. PICK ps, qs : ps = g[p] /\ qs = g[o]
    OBVIOUS
  <2>18. k \in Nat /\ PairsSplit(ps, answer, k) /\ IsSequence(qs)
    BY <2>2, <2>16, <2>17
  <2>19. Len(qs) = 2 * k + 3
    BY <2>11, <2>14, <2>16, <2>17
  <2>20. \A i \in 1..2 * k + 1 : qs[i] = ps[i]
    BY <2>11, <2>13, <2>14, <2>16, <2>17
  <2>21. qs[2 * k + 2] = answer[k + 1][1] /\ qs[2 * k + 3] = answer[k + 1][2]
    <3>1. 2 * k + 2 = L + 1 /\ 2 * k + 3 = M + 1 /\ L + 1 \in 1..M /\ k + 1 = j
      BY <2>1, <2>11, <2>14
    <3> QED
      BY <2>3, <2>13, <2>16, <2>17, <3>1
  <2>22. PairsSplit(qs, answer, k + 1)
    BY <2>18, <2>19, <2>20, <2>21, PairSplit
  <2>23. k + 1 = j /\ (j + 1) - 1 = j /\ j + 1 \in 1..n + 1
    BY <2>1
  <2>24. Left(j, o)
    BY <1>2, <2>6, <2>16, <2>17, <2>22, <2>23
  <2> QED
    BY <2>23, <2>24
<1>13. n + 1 \in T
  <2>1. PICK M \in Nat : M = n + 1
    OBVIOUS
  <2> HIDE DEF T
  <2>2. 1 \in T /\ \A k \in 1..M - 1 : k \in T => k + 1 \in T
    BY <1>11, <1>12, <2>1
  <2>3. \A k \in 1..M : k \in T
    BY <2>2, InductionTo
  <2>4. M \in 1..M
    BY <2>1
  <2> QED
    BY <2>1, <2>3, <2>4
<1>14. PICK p \in Nat : Left(n, p)
  <2>1. (n + 1) - 1 = n
    OBVIOUS
  <2> QED
    BY <1>13, <2>1
<1>15. PICK f, e : f = Final /\ e = <<>>
  OBVIOUS
<1>16. f \in Words("goa0") /\ e \in Words("goa0") /\ IsSequence(f) /\ IsSequence(e)
  BY <1>15, FinalWord, EmptyText, FinalFacts, EmptySequence
<1>17. PICK se, v : se = s \o e /\ v = se \o e
  OBVIOUS
<1>18. se = s /\ v = s
  BY <1>7, <1>15, <1>17, EmptyConcat
<1>19. View(text, p + 1, Len(text), (<<Backslash>> \o f) \o v)
  <2>1. Behind(G, n) \o E = E
    BY <1>5, <1>9, EmptyConcat
  <2>2. E = (s \o f) \o v
    BY <1>6, <1>8, <1>15, <1>18
  <2> QED
    BY <1>2, <1>6, <1>14, <2>1, <2>2
<1>20. PICK L \in Nat : L = 2 * n + 1
  OBVIOUS
<1>21. IsSequence(g[p]) /\ Len(g[p]) = L
  BY <1>14, <1>20 DEF PairsSplit
<1>22. IsSequence(v)
  BY <1>7, <1>18
<1>23. PICK q \in Nat :
         /\ View(text, q + 1, Len(text), v)
         /\ IsSequence(g[q]) /\ Len(g[q]) = L + 1
         /\ \A i \in 1..L : g[q][i] = g[p][i]
         /\ g[q][L + 1] = f
  BY <1>16, <1>19, <1>21, <1>22, WordSplit
<1>24. PICK M \in Nat : M = L + 1
  OBVIOUS
<1>25. /\ View(text, q + 1, Len(text), (<<Backslash>> \o e) \o e)
       /\ IsSequence(g[q]) /\ Len(g[q]) = M
  BY <1>6, <1>17, <1>23, <1>24
<1>26. PICK o \in Nat :
         /\ View(text, o + 1, Len(text), e)
         /\ IsSequence(g[o]) /\ Len(g[o]) = M + 1
         /\ \A i \in 1..M : g[o][i] = g[q][i]
         /\ g[o][M + 1] = e
  BY <1>16, <1>25, WordSplit
<1>27. o = N
  <2>1. Len(e) = 0
    BY <1>15, EmptySequence
  <2> QED
    BY <1>2, <1>26, <2>1 DEF View
<1>28. PICK ps, all : ps = g[p] /\ all = g[o]
  OBVIOUS
<1>29. PairsSplit(ps, answer, n)
  BY <1>14, <1>28
<1>30. IsSequence(all) /\ Len(all) = 2 * n + 3
  BY <1>20, <1>24, <1>26, <1>28
<1>31. \A i \in 1..2 * n + 1 : all[i] = ps[i]
  BY <1>20, <1>23, <1>24, <1>26, <1>28
<1>32. all[2 * n + 2] = Final
  <2>1. 2 * n + 2 = L + 1 /\ L + 1 \in 1..M
    BY <1>20, <1>24
  <2> QED
    BY <1>15, <1>23, <1>26, <1>28, <2>1
<1>33. all = g[Len(text)]
  BY <1>2, <1>27, <1>28
<1> QED
  BY <1>1, <1>29, <1>30, <1>31, <1>32, <1>33

LEMMA PropsExist ==
  ASSUME NEW ps, Len(ps) \div 2 \in Nat
  PROVE  \E g : PropsOf(ps, g)
<1>1. PICK L \in Nat : L = Len(ps) \div 2
  OBVIOUS
<1> DEFINE D == 0..L
           Start == <<>>
           NextProps(m, n) == IF ps[2 * n - 1] \in {Final, QueryID} THEN m
                         ELSE Set(m, ps[2 * n - 1], ps[2 * n])
           Value(g, n) == IF n = 0 THEN Start ELSE NextProps(g[n - 1], n)
           Upto(k, g) == g = [n \in D |-> g[n]] /\ \A n \in 0..k - 1 : g[n] = Value(g, n)
           T == {k \in 1..L + 1 : \E g : Upto(k, g)}
<1> HIDE DEF NextProps
<1>2. 1 \in T
  <2>1. PICK g : g = [n \in D |-> Start]
    OBVIOUS
  <2>2. Upto(1, g)
    BY <2>1
  <2> QED
    BY <2>2
<1>3. ASSUME NEW k \in 1..L, k \in T
      PROVE  k + 1 \in T
  <2>1. PICK g : Upto(k, g)
    BY <1>3
  <2>2. PICK v : v = NextProps(g[k - 1], k)
    OBVIOUS
  <2>3. PICK h : h = [n \in D |-> IF n = k THEN v ELSE g[n]]
    OBVIOUS
  <2>4. ASSUME NEW n \in 0..k + 1 - 1
        PROVE  h[n] = Value(h, n)
    <3>1. CASE n = 0
      <4>1. 0 \in D /\ 0 # k /\ 0 \in 0..k - 1
        OBVIOUS
      <4>2. g[0] = Start
        BY <2>1, <4>1
      <4>3. h[0] = g[0]
        BY <2>3, <4>1
      <4> QED
        BY <3>1, <4>2, <4>3
    <3>2. CASE n # 0 /\ n # k
      <4>1. n \in D /\ n - 1 \in D /\ n - 1 # k /\ n \in 0..k - 1
        BY <3>2
      <4>2. g[n] = NextProps(g[n - 1], n)
        BY <2>1, <3>2, <4>1
      <4>3. h[n] = g[n] /\ h[n - 1] = g[n - 1]
        BY <2>3, <3>2, <4>1
      <4> QED
        BY <3>2, <4>2, <4>3
    <3>3. CASE n = k
      <4>1. n \in D /\ n - 1 \in D /\ n - 1 # k /\ n # 0
        BY <3>3
      <4>2. h[n] = v /\ h[n - 1] = g[n - 1]
        BY <2>3, <3>3, <4>1
      <4> QED
        BY <2>2, <3>3, <4>1, <4>2
    <3> QED
      BY <3>1, <3>2, <3>3
  <2>5. Upto(k + 1, h)
    <3>1. h = [n \in D |-> h[n]]
      BY <2>3
    <3> HIDE DEF Value
    <3> QED
      BY <2>4, <3>1
  <2>6. k + 1 \in 1..L + 1
    OBVIOUS
  <2> QED
    BY <2>5, <2>6
<1>4. L + 1 \in T
  <2>1. PICK N \in Nat : N = L + 1
    OBVIOUS
  <2> HIDE DEF T
  <2>2. 1 \in T /\ \A k \in 1..N - 1 : k \in T => k + 1 \in T
    BY <1>2, <1>3, <2>1
  <2>3. \A k \in 1..N : k \in T
    BY <2>2, InductionTo
  <2>4. N \in 1..N
    BY <2>1
  <2> QED
    BY <2>1, <2>3, <2>4
<1>5. PICK g : Upto(L + 1, g)
  BY <1>4
<1>6. 0..L + 1 - 1 = D
  OBVIOUS
<1>7. \A n \in D : g[n] = Value(g, n)
  <2> HIDE DEF Value
  <2> QED
    BY <1>5, <1>6
<1>8. g = [n \in D |-> Value(g, n)]
  BY <1>5, <1>7
<1> QED
  BY <1>1, <1>8 DEF PropsOf, NextProps

(* Each key of the first k pairs has the value it was last given, but for  *)
(* those to skip.                                                          *)
RightUpto(m, answer, skip, k) ==
  /\ DOMAIN m = {answer[i][1] : i \in 1..k} \ skip
  /\ \A i \in 1..k :
       (answer[i][1] \notin skip /\ \A j \in i + 1..k : answer[j][1] # answer[i][1]) =>
         m[answer[i][1]] = answer[i][2]

LEMMA RightKept ==
  ASSUME NEW m, NEW answer, NEW skip, NEW k \in Nat, RightUpto(m, answer, skip, k), answer[k + 1][1] \in skip
  PROVE  RightUpto(m, answer, skip, k + 1)
<1>1. 1..k + 1 = 1..k \cup {k + 1}
  OBVIOUS
<1>2. DOMAIN m = {answer[i][1] : i \in 1..k + 1} \ skip
  BY <1>1 DEF RightUpto
<1>3. ASSUME NEW i \in 1..k + 1, answer[i][1] \notin skip,
             \A j \in i + 1..k + 1 : answer[j][1] # answer[i][1]
      PROVE  m[answer[i][1]] = answer[i][2]
  <2>1. i \in 1..k
    BY <1>3
  <2>2. \A j \in i + 1..k : answer[j][1] # answer[i][1]
    BY <1>3
  <2> QED
    BY <1>3, <2>1, <2>2 DEF RightUpto
<1> QED
  BY <1>2, <1>3 DEF RightUpto

LEMMA RightAdded ==
  ASSUME NEW m, NEW answer, NEW skip, NEW k \in Nat, RightUpto(m, answer, skip, k), answer[k + 1][1] \notin skip
  PROVE  RightUpto(Set(m, answer[k + 1][1], answer[k + 1][2]), answer, skip, k + 1)
<1>1. 1..k + 1 = 1..k \cup {k + 1}
  OBVIOUS
<1>2. PICK q, v : q = answer[k + 1][1] /\ v = answer[k + 1][2]
  OBVIOUS
<1>3. PICK s : s = Set(m, q, v)
  OBVIOUS
<1>4. /\ DOMAIN s = DOMAIN m \cup {q}
      /\ s[q] = v
      /\ \A x \in DOMAIN m : x # q => s[x] = m[x]
  BY <1>3 DEF Set
<1>5. DOMAIN s = {answer[i][1] : i \in 1..k + 1} \ skip
  BY <1>1, <1>2, <1>4 DEF RightUpto
<1>6. ASSUME NEW i \in 1..k + 1, answer[i][1] \notin skip,
             \A j \in i + 1..k + 1 : answer[j][1] # answer[i][1]
      PROVE  s[answer[i][1]] = answer[i][2]
  <2>1. CASE i = k + 1
    BY <1>2, <1>4, <2>1
  <2>2. CASE i # k + 1
    <3>1. i \in 1..k /\ k + 1 \in i + 1..k + 1
      BY <2>2
    <3>2. answer[i][1] # q
      BY <1>2, <1>6, <3>1
    <3>3. \A j \in i + 1..k : answer[j][1] # answer[i][1]
      BY <1>6, <3>1
    <3>4. m[answer[i][1]] = answer[i][2] /\ answer[i][1] \in DOMAIN m
      BY <1>6, <3>1, <3>3 DEF RightUpto
    <3> QED
      BY <1>4, <3>2, <3>4
  <2> QED
    BY <2>1, <2>2
<1> QED
  BY <1>2, <1>3, <1>5, <1>6 DEF RightUpto

Unnamed == {Final, QueryID}

LEMMA GOAProps ==
  ASSUME NEW answer, NEW n \in Nat, n = Len(answer), NEW ps, NEW J \in Nat, J = Len(ps) \div 2,
         J = n + 1, \A i \in 1..n : ps[2 * i - 1] = answer[i][1] /\ ps[2 * i] = answer[i][2],
         ps[2 * (n + 1) - 1] = Final, NEW g, PropsOf(ps, g)
  PROVE  RightUpto(g[J], answer, Unnamed, n)
<1>1. g = [j \in 0..J |-> IF j = 0 THEN <<>>
                         ELSE IF ps[2 * j - 1] \in Unnamed THEN g[j - 1]
                         ELSE Set(g[j - 1], ps[2 * j - 1], ps[2 * j])]
  BY DEF PropsOf, Unnamed
<1>2. g[0] = <<>>
  BY <1>1
<1>3. \A j \in 1..J : g[j] = IF ps[2 * j - 1] \in Unnamed THEN g[j - 1]
                             ELSE Set(g[j - 1], ps[2 * j - 1], ps[2 * j])
  <2> TAKE j \in 1..J
  <2>1. j \in 0..J /\ j # 0
    OBVIOUS
  <2>2. g[j] = IF j = 0 THEN <<>>
               ELSE IF ps[2 * j - 1] \in Unnamed THEN g[j - 1]
               ELSE Set(g[j - 1], ps[2 * j - 1], ps[2 * j])
    BY <1>1, <2>1, Zenon
  <2> QED
    BY <2>1, <2>2
<1> DEFINE T == {k \in 1..n + 1 : RightUpto(g[k - 1], answer, Unnamed, k - 1)}
<1>4. 1 \in T
  <2>1. PICK e : e = g[0]
    OBVIOUS
  <2>2. DOMAIN e = {}
    BY <1>2, <2>1
  <2>3. RightUpto(e, answer, Unnamed, 0)
    BY <2>2 DEF RightUpto
  <2>4. 1 - 1 = 0 /\ 1 \in 1..n + 1
    OBVIOUS
  <2> QED
    BY <2>1, <2>3, <2>4
<1>5. ASSUME NEW j \in 1..n, j \in T
      PROVE  j + 1 \in T
  <2>1. PICK k \in Nat : k = j - 1
    OBVIOUS
  <2>2. PICK m : m = g[k]
    OBVIOUS
  <2>3. RightUpto(m, answer, Unnamed, k)
    BY <1>5, <2>1, <2>2
  <2>4. k + 1 = j /\ j \in 1..J /\ (j + 1) - 1 = j /\ j + 1 \in 1..n + 1
    BY <2>1
  <2>5. g[j] = IF answer[k + 1][1] \in Unnamed THEN m
               ELSE Set(m, answer[k + 1][1], answer[k + 1][2])
    BY <1>3, <2>1, <2>2, <2>4
  <2>6. CASE answer[k + 1][1] \in Unnamed
    <3>1. RightUpto(m, answer, Unnamed, k + 1)
      BY <2>3, <2>6, RightKept
    <3>2. RightUpto(g[j], answer, Unnamed, j)
      BY <2>4, <2>5, <2>6, <3>1
    <3> QED
      BY <2>4, <3>2
  <2>7. CASE answer[k + 1][1] \notin Unnamed
    <3>1. RightUpto(Set(m, answer[k + 1][1], answer[k + 1][2]), answer, Unnamed, k + 1)
      BY <2>3, <2>7, RightAdded
    <3>2. RightUpto(g[j], answer, Unnamed, j)
      BY <2>4, <2>5, <2>7, <3>1
    <3> QED
      BY <2>4, <3>2
  <2> QED
    BY <2>6, <2>7
<1>6. n + 1 \in T
  <2>1. PICK M \in Nat : M = n + 1
    OBVIOUS
  <2> HIDE DEF T
  <2>2. 1 \in T /\ \A k \in 1..M - 1 : k \in T => k + 1 \in T
    BY <1>4, <1>5, <2>1
  <2>3. \A k \in 1..M : k \in T
    BY <2>2, InductionTo
  <2>4. M \in 1..M
    BY <2>1
  <2> QED
    BY <2>1, <2>3, <2>4
<1>7. RightUpto(g[n], answer, Unnamed, n)
  <2>1. (n + 1) - 1 = n
    OBVIOUS
  <2> QED
    BY <1>6, <2>1
<1>8. g[J] = g[n]
  <2>1. J \in 1..J /\ J - 1 = n /\ 2 * J - 1 = 2 * (n + 1) - 1
    <3>1. J = n + 1
      OBVIOUS
    <3> QED
      BY ONLY <3>1, n \in Nat, J \in Nat
  <2>2. ps[2 * J - 1] = Final
    BY <2>1
  <2>3. ps[2 * J - 1] \in Unnamed
    BY <2>2, Zenon DEF Unnamed
  <2> QED
    BY <1>3, <2>1, <2>3
<1> QED
  BY <1>7, <1>8

(* A map that has what is meant.                                           *)
Given(m, answer, skip) ==
  \A i \in 1..Len(answer) :
    (answer[i][1] \notin skip /\ \A j \in i + 1..Len(answer) : answer[j][1] # answer[i][1]) =>
      answer[i][1] \in DOMAIN m /\ m[answer[i][1]] = answer[i][2]

LEMMA LastOf ==
  ASSUME NEW n \in Nat, NEW S \in SUBSET (1..n), S # {}
  PROVE  \E i \in S : \A j \in i + 1..n : j \notin S
<1> DEFINE R == {n - i : i \in S}
<1>1. R \in SUBSET Nat /\ R # {}
  <2>1. \A i \in S : n - i \in Nat
    OBVIOUS
  <2> QED
    BY <2>1
<1>2. PICK r : r = Min(R)
  OBVIOUS
<1>3. r \in R /\ \A x \in R : r <= x
  <2> HIDE DEF R
  <2>1. Min(R) \in R /\ \A x \in R : Min(R) <= x
    BY <1>1, LeastElement
  <2> QED
    BY <1>2, <2>1
<1>4. PICK i \in S : r = n - i
  BY <1>3
<1>5. ASSUME NEW j \in i + 1..n, j \in S
      PROVE  FALSE
  <2>1. n - j \in R /\ n - j < r
    BY <1>4, <1>5
  <2> QED
    BY <1>3, <1>4, <2>1
<1> QED
  BY <1>4, <1>5

LEMMA MeantFacts ==
  ASSUME ByPairs, NEW answer \in Answers[engine.kind], NEW m,
         Given(m, answer, IF engine.kind = "goa0" THEN Unnamed ELSE {}),
         NEW k \in DOMAIN Meant(answer)
  PROVE  k \in DOMAIN m /\ m[k] = Meant(answer)[k]
<1>1. PICK n \in Nat : n = Len(answer)
  BY AnswerFacts
<1> DEFINE Found(i) == answer[i][1] = k /\ \A j \in i + 1..n : answer[j][1] # k
<1>2. PICK skip : skip = IF engine.kind = "goa0" THEN Unnamed ELSE {}
  OBVIOUS
<1>3. /\ k \in {answer[i][1] : i \in 1..n} \ skip
      /\ Meant(answer)[k] = answer[CHOOSE i \in 1..n : Found(i)][2]
  <2>1. PICK Keys : Keys = [i \in 1..n |-> answer[i][1]]
    OBVIOUS
  <2>2. \A i \in 1..n : Keys[i] = answer[i][1]
    BY <2>1
  <2> DEFINE At(x) == CHOOSE i \in 1..n : Keys[i] = x /\ \A j \in i + 1..n : Keys[j] # x
  <2>3. Meant(answer) = [x \in {Keys[i] : i \in 1..n} \ skip |-> answer[At(x)][2]]
    <3>1. CASE engine.kind = "qr2"
      BY <1>1, <1>2, <2>1, <3>1 DEF Meant
    <3>2. CASE engine.kind = "goa0"
      BY <1>1, <1>2, <2>1, <3>2 DEF Meant, Unnamed
    <3> QED
      BY <3>1, <3>2 DEF ByPairs
  <2>4. At(k) = CHOOSE i \in 1..n : Found(i)
    <3>1. \A i \in 1..n : (Keys[i] = k /\ \A j \in i + 1..n : Keys[j] # k) <=> Found(i)
      BY <2>2
    <3> QED
      BY <3>1
  <2>5. {Keys[i] : i \in 1..n} = {answer[i][1] : i \in 1..n}
    BY <2>2
  <2> HIDE DEF At, Found
  <2> QED
    BY <2>3, <2>4, <2>5
<1>4. PICK S : S = {i \in 1..n : answer[i][1] = k}
  OBVIOUS
<1>5. S \in SUBSET (1..n) /\ S # {}
  BY <1>3, <1>4
<1>6. PICK i \in S : \A j \in i + 1..n : j \notin S
  BY <1>5, LastOf
<1>7. i \in 1..n /\ Found(i)
  <2>1. \A j \in i + 1..n : j \in 1..n
    BY <1>5, <1>6
  <2> QED
    BY <1>4, <1>5, <1>6, <2>1
<1>8. PICK x : x = CHOOSE h \in 1..n : Found(h)
  OBVIOUS
<1>9. x \in 1..n /\ Found(x)
  BY <1>7, <1>8
<1>10. k \in DOMAIN m /\ m[k] = answer[x][2]
  <2>1. k \notin skip
    BY <1>3
  <2>2. Given(m, answer, skip)
    BY <1>2
  <2> QED
    BY <1>1, <1>9, <2>1, <2>2 DEF Given
<1> QED
  BY <1>3, <1>8, <1>10

LEMMA WholeCut ==
  ASSUME NEW b, NEW t, IsSequence(t), \A i \in 1..Len(t) : b[i] = t[i]
  PROVE  SubSeq(b, 1, Len(t)) = t
<1>1. PICK n \in Nat : n = Len(t)
  BY LenProperties DEF IsSequence
<1>2. PICK c : c = SubSeq(b, 1, n)
  OBVIOUS
<1>3. IsSequence(c) /\ Len(c) = n
  BY <1>2, ChunkSequence
<1>4. \A i \in 1..n : c[i] = b[i]
  <2> DEFINE S == {b[i] : i \in 1..n}
  <2>1. \A i \in 1..n : b[i] \in S
    OBVIOUS
  <2> HIDE DEF S
  <2>2. /\ SubSeq(b, 1, n) \in Seq(S)
        /\ Len(SubSeq(b, 1, n)) = IF 1 <= n THEN n - 1 + 1 ELSE 0
        /\ \A i \in 1..n - 1 + 1 : SubSeq(b, 1, n)[i] = b[1 + i - 1]
    BY <2>1, SubSeqProperties
  <2> QED
    BY <1>2, <2>2
<1>5. \A i \in 1..Len(c) : c[i] = t[i]
  BY <1>1, <1>3, <1>4
<1>6. c = t
  BY <1>1, <1>3, <1>5, SequencesEqual
<1> QED
  BY <1>1, <1>2, <1>6

(* A whole answer is read right.                                           *)
LEMMA QR2Right ==
  ASSUME ByPairs, engine.kind = "qr2", NEW answer \in Answers["qr2"], NEW b, NEW bytes,
         Fits(b, bytes), bytes = OnWire("qr2", answer)
  PROVE  \E m : Made("qr2", TRUE, b, Len(bytes)) = Published(m) /\ Given(m, answer, {})
<1>1. PICK t : t = Behind(QR2Pairs(answer), 0) \o <<0>>
  OBVIOUS
<1>2. PICK h : h = <<1>>
  OBVIOUS
<1>3. IsSequence(h) /\ Len(h) = 1
  BY <1>2, OneSymbol
<1>4. IsSequence(t)
  BY <1>1, BytesFacts
<1>5. bytes = h \o t
  BY <1>1, <1>2 DEF OnWire
<1>6. PICK len : len = Len(bytes)
  OBVIOUS
<1>7. len \in 0..BufLen /\ len \in Nat /\ IsSequence(bytes) /\ \A i \in 1..len : b[i] = bytes[i]
  <2>1. /\ IsSequence(bytes) /\ \A i \in 1..Len(bytes) : b[i] = bytes[i]
        /\ Len(bytes) \in 0..BufLen
    BY DEF Fits
  <2>2. len \in 0..BufLen /\ len \in Nat
    BY <1>6, <2>1
  <2> QED
    BY <1>6, <2>1, <2>2
<1>8. View(b, 1, len, h \o t)
  <2>1. 1 + len = len + 1 /\ \A i \in 1..len : 1 + i - 1 = i
    BY <1>7
  <2>2. \A i \in 1..len : b[1 + i - 1] = bytes[i]
    BY <1>7, <2>1
  <2> QED
    BY <1>5, <1>6, <1>7, <2>1, <2>2 DEF View
<1>9. /\ 1 \in Nat \ {0} /\ Len(h) \in Nat
      /\ 1 + Len(h) <= len + 1
      /\ \A i \in 1..Len(h) : b[1 + i - 1] = h[i]
      /\ View(b, 1 + Len(h), len, t)
  BY <1>3, <1>4, <1>7, <1>8, ViewCut
<1>10. View(b, 2, len, t)
  BY <1>3, <1>9
<1>11. len >= 2
  <2>1. PICK q : q = Behind(QR2Pairs(answer), 0)
    OBVIOUS
  <2>2. PICK n \in Nat : n = Len(answer)
    BY AnswerFacts
  <2>3. PICK Q : Q = QR2Pairs(answer)
    OBVIOUS
  <2>4. Q = [i \in 1..n |-> Q[i]] /\ \A i \in 1..n : IsSequence(Q[i])
    BY <2>2, <2>3, PairsSent
  <2>5. \A k \in 0..n : IsSequence(Behind(Q, k))
    BY <2>4, BehindFacts
  <2>6. IsSequence(q)
    BY <2>1, <2>3, <2>5
  <2>7. PICK z : z = <<0>>
    OBVIOUS
  <2>8. IsSequence(z) /\ Len(z) = 1
    BY <2>7, OneSymbol
  <2>9. Len(q) \in Nat /\ Len(q \o z) = Len(q) + Len(z)
    BY <2>6, <2>8, ConcatSequences
  <2>10. Len(t) = Len(q) + 1
    BY <1>1, <2>1, <2>7, <2>8, <2>9
  <2> QED
    BY <1>7, <1>10, <2>9, <2>10 DEF View
<1>12. PICK g : g = (CHOOSE f : PairsOf(b, len, f))
  OBVIOUS
<1>13. PairsOf(b, len, g)
  <2>1. \E f : PairsOf(b, len, f)
    BY <1>7, PairsExist
  <2> HIDE DEF PairsOf
  <2> QED
    BY <1>12, <2>1
<1>14. RightFrom(g[2], answer, 0)
  <2>1. \A at : View(b, at, len, Behind(QR2Pairs(answer), 0) \o <<0>>) => RightFrom(g[at], answer, 0)
    BY <1>7, <1>13, QR2Decodes
  <2> QED
    BY <1>1, <1>10, <2>1
<1>15. Made("qr2", TRUE, b, len) = Published(g[2])
  BY <1>7, <1>11, <1>12 DEF Made
<1>16. PICK m : m = g[2]
  OBVIOUS
<1>17. Given(m, answer, {})
  <2>1. RightFrom(m, answer, 0) /\ Len(answer) \in Nat
    BY <1>14, <1>16, AnswerFacts
  <2> QED
    BY <2>1 DEF RightFrom, Given
<1> QED
  BY <1>6, <1>15, <1>16, <1>17

LEMMA GOARight ==
  ASSUME ByPairs, engine.kind = "goa0", NEW answer \in Answers["goa0"], NEW b, NEW bytes,
         Fits(b, bytes), bytes = OnWire("goa0", answer)
  PROVE  \E m : Made("goa0", TRUE, b, Len(bytes)) = Published(m) /\ Given(m, answer, Unnamed)
<1>1. PICK n \in Nat : n = Len(answer)
  BY AnswerFacts
<1>2. /\ IsSequence(bytes) /\ \A i \in 1..Len(bytes) : b[i] = bytes[i]
      /\ Len(bytes) \in Nat
  <2>1. /\ IsSequence(bytes) /\ \A i \in 1..Len(bytes) : b[i] = bytes[i]
        /\ Len(bytes) \in 0..BufLen
    BY DEF Fits
  <2> QED
    BY <2>1
<1>3. SubSeq(b, 1, Len(bytes)) = bytes
  BY <1>2, WholeCut
<1>4. PICK g : g = (CHOOSE f : PiecesOf(bytes, f))
  OBVIOUS
<1>5. PiecesOf(bytes, g)
  <2>1. \E f : PiecesOf(bytes, f)
    BY <1>2, PiecesExist
  <2> HIDE DEF PiecesOf
  <2> QED
    BY <1>4, <2>1
<1>6. PICK all : all = g[Len(bytes)]
  OBVIOUS
<1>7. Pieces(bytes) = all
  BY <1>4, <1>6, PiecesValue
<1>8. PICK ps : /\ PairsSplit(ps, answer, Len(answer))
                /\ IsSequence(g[Len(bytes)]) /\ Len(g[Len(bytes)]) = 2 * Len(answer) + 3
                /\ \A i \in 1..2 * Len(answer) + 1 : g[Len(bytes)][i] = ps[i]
                /\ g[Len(bytes)][2 * Len(answer) + 2] = Final
  BY <1>2, <1>5, GOASplits
<1>9. /\ IsSequence(all) /\ Len(all) = 2 * n + 3
      /\ \A i \in 1..n : all[2 * i] = answer[i][1] /\ all[2 * i + 1] = answer[i][2]
      /\ all[2 * n + 2] = Final
  <2>1. \A i \in 1..n : ps[2 * i] = answer[i][1] /\ ps[2 * i + 1] = answer[i][2]
    BY <1>1, <1>8 DEF PairsSplit
  <2>2. \A i \in 1..2 * n + 1 : all[i] = ps[i]
    BY <1>1, <1>6, <1>8
  <2>3. \A i \in 1..n : 2 * i \in 1..2 * n + 1 /\ 2 * i + 1 \in 1..2 * n + 1
    OBVIOUS
  <2> QED
    BY <1>1, <1>6, <1>8, <2>1, <2>2, <2>3
<1>10. PICK qs : qs = Tail(all)
  OBVIOUS
<1>11. Len(qs) = 2 * n + 2 /\ \A i \in 1..2 * n + 2 : qs[i] = all[i + 1]
  <2>1. PICK S : S = ToSet(all)
    OBVIOUS
  <2>2. all \in Seq(S) /\ all # <<>>
    <3>1. Len(all) # 0
      BY <1>9
    <3>2. Len(<<>>) = 0
      OBVIOUS
    <3> QED
      BY <1>9, <2>1, <3>1, <3>2 DEF IsSequence
  <2>3. /\ Head(all) \in S
        /\ Tail(all) \in Seq(S)
        /\ Len(Tail(all)) = Len(all) - 1
        /\ \A i \in 1..Len(Tail(all)) : Tail(all)[i] = all[i + 1]
    BY <2>2, HeadTailProperties
  <2>4. Len(qs) = 2 * n + 2
    BY <1>9, <1>10, <2>3
  <2> QED
    BY <1>10, <2>3, <2>4
<1>12. PICK J \in Nat : J = n + 1
  OBVIOUS
<1>13. J = Len(qs) \div 2
  BY <1>11, <1>12
<1>14. \A i \in 1..n : qs[2 * i - 1] = answer[i][1] /\ qs[2 * i] = answer[i][2]
  <2> TAKE i \in 1..n
  <2>1. 2 * i - 1 \in 1..2 * n + 2 /\ 2 * i \in 1..2 * n + 2 /\ (2 * i - 1) + 1 = 2 * i
    OBVIOUS
  <2> QED
    BY <1>9, <1>11, <2>1
<1>15. qs[2 * (n + 1) - 1] = Final
  <2>1. 2 * (n + 1) - 1 \in 1..2 * n + 2 /\ (2 * (n + 1) - 1) + 1 = 2 * n + 2
    OBVIOUS
  <2> QED
    BY <1>9, <1>11, <2>1
<1>16. PICK h : h = (CHOOSE f : PropsOf(qs, f))
  OBVIOUS
<1>17. PropsOf(qs, h)
  <2>1. Len(qs) \div 2 \in Nat
    BY <1>13
  <2>2. \E f : PropsOf(qs, f)
    BY <2>1, PropsExist
  <2> HIDE DEF PropsOf
  <2> QED
    BY <1>16, <2>2
<1>18. RightUpto(h[J], answer, Unnamed, n)
  BY <1>1, <1>12, <1>13, <1>14, <1>15, <1>17, GOAProps
<1>19. qs = Tail(Pieces(SubSeq(b, 1, Len(bytes))))
  BY <1>3, <1>7, <1>10
<1>20. Made("goa0", TRUE, b, Len(bytes)) = Published(h[J])
  BY <1>13, <1>16, <1>19 DEF Made
<1>21. PICK m : m = h[J]
  OBVIOUS
<1>22. Given(m, answer, Unnamed)
  <2>1. RightUpto(m, answer, Unnamed, n)
    BY <1>18, <1>21
  <2> QED
    BY <1>1, <2>1 DEF RightUpto, Given
<1> QED
  BY <1>20, <1>21, <1>22

(* Whatever keys and values the server gives, however often: each key with *)
(* the value it was last given.                                            *)
LEMMA PairsComplete ==
  ASSUME ReceivedInv, engine.kind \in {"qr2", "goa0"}
  PROVE  CompleteAnswerRead
<1> SUFFICES ASSUME datagram.whole, engine.outputHandler
             PROVE  /\ outcome.what = "published"
                    /\ \A k \in DOMAIN Meant(datagram.answer) :
                         k \in DOMAIN outcome.props /\ outcome.props[k] = Meant(datagram.answer)[k]
  BY DEF CompleteAnswerRead
<1>1. datagram # NoDatagram
  BY DEF NoDatagram
<1>2. PICK answer : answer = datagram.answer
  OBVIOUS
<1>3. PICK bytes : bytes = datagram.bytes
  OBVIOUS
<1>4. /\ Fits(buf, bytes) /\ answer \in Answers[engine.kind]
      /\ bytes = OnWire(engine.kind, answer)
      /\ outcome = Made(engine.kind, engine.outputHandler, buf, Len(bytes))
  BY <1>1, <1>2, <1>3 DEF ReceivedInv
<1>5. ByPairs
  BY DEF ByPairs, ReceivedInv
<1>6. engine.outputHandler = TRUE
  BY <1>5, ResponsesAssumption DEF ByPairs
<1>7. PICK skip : skip = IF engine.kind = "goa0" THEN Unnamed ELSE {}
  OBVIOUS
<1>8. \E m : outcome = Published(m) /\ Given(m, answer, skip)
  <2>1. CASE engine.kind = "qr2"
    <3>1. \E m : Made("qr2", TRUE, buf, Len(bytes)) = Published(m) /\ Given(m, answer, {})
      BY <1>4, <1>5, <2>1, QR2Right
    <3> QED
      BY <1>4, <1>6, <1>7, <2>1, <3>1
  <2>2. CASE engine.kind = "goa0"
    <3>1. \E m : Made("goa0", TRUE, buf, Len(bytes)) = Published(m) /\ Given(m, answer, Unnamed)
      BY <1>4, <1>5, <2>2, GOARight
    <3> QED
      BY <1>4, <1>6, <1>7, <2>2, <3>1
  <2> QED
    BY <2>1, <2>2
<1>9. PICK m : outcome = Published(m) /\ Given(m, answer, skip)
  BY <1>8
<1>10. outcome.what = "published" /\ outcome.props = m
  BY <1>9 DEF Published
<1>11. ASSUME NEW k \in DOMAIN Meant(answer)
       PROVE  k \in DOMAIN m /\ m[k] = Meant(answer)[k]
  <2>1. Given(m, answer, IF engine.kind = "goa0" THEN Unnamed ELSE {})
    BY <1>7, <1>9
  <2> QED
    BY <1>4, <1>5, <2>1, MeantFacts
<1> QED
  BY <1>2, <1>10, <1>11

-----------------------------------------------------------------------------
(* The compact numbers of UT2K: of one, two or three bytes here, the last  *)
(* three being enough for every length that fits the buffer.  Descent says *)
(* how High divides, one byte after the other.                             *)

Bytes == 0..255

LEMMA BytesMade ==
  ASSUME NEW S, NEW n \in Nat, NEW s, s = [i \in 1..n |-> s[i]], \A i \in 1..n : s[i] \in S
  PROVE  s \in Seq(S)
<1>1. s \in [1..n -> S]
  OBVIOUS
<1> QED
  BY <1>1

(* A recursion that goes to a smaller number at each step has a value.     *)
Descent(low, first, rest, f) ==
  /\ f = [k \in Nat |-> f[k]]
  /\ \A k \in Nat : f[k] = IF k < low THEN first[k] ELSE first[k] \o f[rest[k]]

LEMMA DescentExists ==
  ASSUME NEW low \in Nat, NEW first, NEW rest,
         \A k \in Nat : rest[k] \in Nat /\ (k >= low => rest[k] < k)
  PROVE  \E f : Descent(low, first, rest, f)
<1> DEFINE Step(g, k) == g[k] = IF k < low THEN first[k] ELSE first[k] \o g[rest[k]]
           Upto(m, g) == g = [k \in 0..m |-> g[k]] /\ \A k \in 0..m : Step(g, k)
<1>1. ASSUME NEW m \in Nat, NEW n \in Nat, m <= n, NEW g, NEW h, Upto(m, g), Upto(n, h)
      PROVE  \A k \in 0..m : g[k] = h[k]
  <2> DEFINE T == {k \in 0..m : g[k] # h[k]}
  <2>1. SUFFICES ASSUME T # {}
                 PROVE  FALSE
    OBVIOUS
  <2>2. T \in SUBSET Nat
    OBVIOUS
  <2>3. PICK k \in Nat : k \in T /\ \A y \in T : k <= y
    <3> HIDE DEF T
    <3> QED
      BY <2>1, <2>2, LeastElement
  <2>4. k \in 0..m /\ k \in 0..n /\ k \in Nat
    BY <1>1, <2>3
  <2>5. Step(g, k) /\ Step(h, k)
    BY <1>1, <2>4
  <2>6. k >= low
    BY <2>3, <2>4, <2>5
  <2>7. rest[k] \in Nat /\ rest[k] < k
    BY <2>4, <2>6
  <2>8. rest[k] \in 0..m /\ ~(k <= rest[k])
    <3>1. PICK j \in Nat : j = rest[k] /\ j < k
      BY <2>7
    <3>2. k \in Nat /\ k <= m
      BY <2>4
    <3>3. j <= m /\ ~(k <= j)
      <4>1. j < k
        BY <3>1
      <4> QED
        BY ONLY <3>2, <4>1
    <3>4. j \in 0..m
      BY <3>3
    <3> QED
      BY <3>1, <3>3, <3>4
  <2>9. g[rest[k]] = h[rest[k]]
    BY <2>3, <2>8
  <2> QED
    BY <2>3, <2>5, <2>9
<1>2. \A m \in Nat : \E g : Upto(m, g)
  <2> DEFINE T == {m \in Nat : ~\E g : Upto(m, g)}
  <2>1. SUFFICES ASSUME T # {}
                 PROVE  FALSE
    OBVIOUS
  <2>2. PICK m : m \in T /\ \A y \in T : m <= y
    <3>1. T \in SUBSET Nat
      OBVIOUS
    <3> HIDE DEF T
    <3> QED
      BY <2>1, <3>1, LeastElement
  <2>3. m \in Nat /\ ~\E g : Upto(m, g)
    BY <2>2
  <2>4. \E g : \A k \in 0..m - 1 : k \in DOMAIN g /\ Step(g, k)
    <3>1. CASE m = 0
      <4>1. 0..m - 1 = {}
        BY <3>1
      <4> HIDE DEF Step
      <4>2. \A k \in 0..m - 1 : k \in DOMAIN first /\ Step(first, k)
        BY <4>1
      <4> QED
        BY <4>2
    <3>2. CASE m # 0
      <4>1. m - 1 \in Nat /\ ~(m <= m - 1)
        <5>1. m \in Nat
          BY <2>3
        <5> QED
          BY <3>2, <5>1
      <4>2. PICK g : Upto(m - 1, g)
        BY <2>2, <4>1
      <4> HIDE DEF Step
      <4>3. DOMAIN g = 0..m - 1
        BY <4>2
      <4> QED
        BY <4>2, <4>3
    <3> QED
      BY <3>1, <3>2
  <2>5. PICK g : \A k \in 0..m - 1 : Step(g, k)
    BY <2>4
  <2>6. PICK v : v = IF m < low THEN first[m] ELSE first[m] \o g[rest[m]]
    OBVIOUS
  <2>7. PICK h : h = [k \in 0..m |-> IF k = m THEN v ELSE g[k]]
    OBVIOUS
  <2>8. h = [k \in 0..m |-> h[k]]
    BY <2>7
  <2>9. \A k \in 0..m - 1 : h[k] = g[k]
    BY <2>3, <2>7
  <2>10. h[m] = v
    BY <2>3, <2>7
  <2>11. ASSUME NEW k \in 0..m
         PROVE  Step(h, k)
    <3>1. k \in Nat /\ rest[k] \in Nat /\ (k >= low => rest[k] < k)
      BY <2>3
    <3>2. k >= low => rest[k] \in 0..m - 1
      BY <2>3, <3>1
    <3>3. k >= low => h[rest[k]] = g[rest[k]]
      BY <2>9, <3>2
    <3>4. CASE k = m
      <4>1. CASE m < low
        BY <2>6, <2>10, <3>4, <4>1
      <4>2. CASE ~(m < low)
        <5>1. k >= low
          BY <2>3, <3>4, <4>2
        <5>2. h[rest[k]] = g[rest[k]]
          BY <3>3, <5>1
        <5>3. h[k] = first[k] \o g[rest[k]]
          BY <2>6, <2>10, <3>4, <4>2
        <5> QED
          BY <3>4, <4>2, <5>2, <5>3
      <4> QED
        BY <4>1, <4>2
    <3>5. CASE k # m
      <4>1. k \in 0..m - 1
        BY <2>3, <3>5
      <4>2. Step(g, k) /\ h[k] = g[k]
        BY <2>5, <2>9, <4>1
      <4>3. CASE k < low
        BY <4>2, <4>3
      <4>4. CASE ~(k < low)
        <5>1. h[rest[k]] = g[rest[k]]
          BY <3>1, <3>3, <4>4
        <5> QED
          BY <4>2, <4>4, <5>1
      <4> QED
        BY <4>3, <4>4
    <3> QED
      BY <3>4, <3>5
  <2> HIDE DEF Step
  <2>12. Upto(m, h)
    BY <2>8, <2>11
  <2> QED
    BY <2>3, <2>12
<1> DEFINE G(m) == CHOOSE g : Upto(m, g)
           f == [k \in Nat |-> G(k)[k]]
<1>3. \A m \in Nat : Upto(m, G(m))
  <2> HIDE DEF Upto
  <2> QED
    BY <1>2
<1>4. ASSUME NEW k \in Nat
      PROVE  Step(f, k)
  <2>0. PICK j \in Nat : j = rest[k] /\ (k >= low => j < k)
    OBVIOUS
  <2> DEFINE g == G(k)
             h == G(j)
  <2>1. f[k] = g[k] /\ f[j] = h[j]
    OBVIOUS
  <2>2. Upto(k, g) /\ Upto(j, h)
    BY <1>3, <2>1
  <2> HIDE DEF f, G, g, h
  <2>3. g[k] = IF k < low THEN first[k] ELSE first[k] \o g[j]
    <3>1. k \in 0..k
      OBVIOUS
    <3> QED
      BY <2>0, <2>2, <3>1
  <2>4. CASE k < low
    BY <2>1, <2>3, <2>4
  <2>5. CASE ~(k < low)
    <3>1. j < k
      BY <2>0, <2>5
    <3>2. j <= k /\ j \in 0..j
      BY <3>1
    <3>3. \A i \in 0..j : h[i] = g[i]
      <4> HIDE DEF Upto
      <4> QED
        BY <1>1, <2>2, <3>2
    <3>4. h[j] = g[j]
      BY <3>1, <3>3
    <3> QED
      BY <2>0, <2>1, <2>3, <2>5, <3>4
  <2> QED
    BY <2>4, <2>5
<1>5. f = [k \in Nat |-> f[k]]
  OBVIOUS
<1> HIDE DEF f
<1>6. Descent(low, first, rest, f)
  BY <1>4, <1>5 DEF Descent
<1> QED
  BY <1>6

(* A number is its quotient and its remainder.                             *)
LEMMA QuotientIs ==
  ASSUME NEW d \in Nat, d > 0, NEW q \in Nat, NEW r \in 0..d - 1
  PROVE  (q * d + r) \div d = q /\ (q * d + r) % d = r
OBVIOUS

LEMMA QuotientFacts ==
  ASSUME NEW d \in Nat, d > 0, NEW a \in Nat
  PROVE  \E q \in Nat, r \in 0..d - 1, p \in Nat :
           /\ q = a \div d /\ r = a % d /\ p = q * d /\ p + r = a
           /\ a >= d => q >= 1
<1>1. a \div d \in Nat /\ a % d \in 0..d - 1
  OBVIOUS
<1>2. a % d = a - (a \div d) * d
  OBVIOUS
<1>3. PICK q \in Nat, r \in 0..d - 1 : q = a \div d /\ r = a % d
  BY <1>1
<1>4. PICK p \in Nat : p = q * d
  OBVIOUS
<1>5. r = a - p
  BY <1>2, <1>3, <1>4
<1>6. p + r = a
  BY <1>5
<1>7. q = 0 => p = 0
  BY <1>4
<1>8. a >= d => q >= 1
  BY <1>6, <1>7
<1> QED
  BY <1>3, <1>4, <1>6, <1>8

LEMMA QuotientBelow ==
  ASSUME NEW d \in Nat, d > 0, NEW a \in Nat, NEW x \in Nat, a < d * x
  PROVE  a \div d < x
<1>1. PICK q \in Nat, r \in 0..d - 1, p \in Nat :
        q = a \div d /\ r = a % d /\ p = q * d /\ p + r = a
  BY QuotientFacts
<1>2. SUFFICES ASSUME q >= x
               PROVE  FALSE
  BY <1>1
<1>3. PICK c \in Nat : q = x + c
  <2>1. q - x \in Nat /\ q = x + (q - x)
    BY <1>2
  <2> QED
    BY <2>1
<1>4. PICK u \in Nat, v \in Nat : u = d * x /\ v = c * d
  OBVIOUS
<1>5. p = u + v
  BY <1>1, <1>3, <1>4
<1>6. a < u /\ p + r = a
  BY <1>1, <1>4
<1> QED
  BY <1>5, <1>6

(* The bytes of a number with one, two or three of them.                   *)
DigitsOf(g) == g = [k \in Nat |-> IF k < Low7 THEN <<k>>
                                 ELSE <<(k % Low7) + Low7>> \o g[k \div Low7]]

LEMMA SmallDigits ==
  ASSUME NEW f, DigitsOf(f), NEW m \in Nat, m < Low7 * Low7
  PROVE  f[m] = IF m < Low7 THEN <<m>> ELSE <<(m % Low7) + Low7, m \div Low7>>
<1>1. PICK low \in Nat : low = Low7 /\ low \in 2..128
  BY ResponsesAssumption
<1>2. \A k \in Nat : f[k] = IF k < low THEN <<k>> ELSE <<(k % low) + low>> \o f[k \div low]
  BY <1>1 DEF DigitsOf
<1>3. CASE m < low
  BY <1>1, <1>2, <1>3
<1>4. CASE m >= low
  <2>1. PICK q \in Nat, r \in 0..low - 1, p \in Nat :
          q = m \div low /\ r = m % low /\ p = q * low /\ p + r = m
    BY <1>1, QuotientFacts
  <2>2. q \in Nat /\ r \in 0..low - 1
    OBVIOUS
  <2>3. q < low
    BY <1>1, <2>1, QuotientBelow
  <2>4. PICK a, z : a = <<r + low>> /\ z = <<q>>
    OBVIOUS
  <2>5. f[q] = z
    BY <1>2, <2>2, <2>3, <2>4
  <2>6. f[m] = a \o z
    <3>1. ~(m < low)
      BY <1>4
    <3>2. f[m] = <<(m % low) + low>> \o f[m \div low]
      BY <1>2, <3>1
    <3> QED
      BY <2>1, <2>4, <2>5, <3>2
  <2>7. a \o z = <<r + low, q>>
    BY <2>4, TwoSymbols
  <2> QED
    BY <1>1, <1>4, <2>1, <2>6, <2>7
<1> QED
  BY <1>1, <1>3, <1>4

(* A number, and its first byte without the bit that says that others      *)
(* follow.                                                                 *)
LEMMA CompactIs ==
  ASSUME NEW n \in Nat
  PROVE  \E f : DigitsOf(f) /\ Compact(n) = IF n < Low6 THEN <<n>>
                                            ELSE <<(n % Low6) + Low6>> \o f[n \div Low6]
<1>1. \E f : DigitsOf(f)
  <2>1. PICK low \in Nat : low = Low7 /\ low \in 2..128
    BY ResponsesAssumption
  <2>2. PICK first : first = [k \in Nat |-> IF k < low THEN <<k>> ELSE <<(k % low) + low>>]
    OBVIOUS
  <2>3. PICK rest : rest = [k \in Nat |-> k \div low]
    OBVIOUS
  <2>4. \A k \in Nat : k \div low \in Nat /\ (k >= low => k \div low < k)
    BY <2>1
  <2>5. low \in Nat /\ \A k \in Nat : rest[k] \in Nat /\ (k >= low => rest[k] < k)
    BY <2>3, <2>4
  <2>6. PICK d : Descent(low, first, rest, d)
    BY ONLY <2>5, DescentExists
  <2>7. \A k \in Nat : d[k] = IF k < Low7 THEN <<k>> ELSE <<(k % Low7) + Low7>> \o d[k \div Low7]
    BY <2>1, <2>2, <2>3, <2>6 DEF Descent
  <2>8. d = [k \in Nat |-> d[k]]
    BY <2>6 DEF Descent
  <2>9. DigitsOf(d)
    BY <2>7, <2>8 DEF DigitsOf
  <2> QED
    BY <2>9
<1>2. PICK f : f = CHOOSE g : DigitsOf(g)
  OBVIOUS
<1>3. DigitsOf(f)
  BY <1>1, <1>2
<1>4. Compact(n) = IF n < Low6 THEN <<n>> ELSE <<(n % Low6) + Low6>> \o f[n \div Low6]
  BY <1>2 DEF Compact, DigitsOf
<1> QED
  BY <1>3, <1>4

(* Reading a number: k bytes more follow the first one.                    *)
Following(b, at, k) ==
  /\ at \in Nat \ {0} /\ k \in 0..2 /\ at + k <= BufLen
  /\ b[at] \in (IF k = 0 THEN 0..Low6 - 1 ELSE Low6..2 * Low6 - 1)
  /\ k >= 1 => b[at + 1] \in (IF k = 1 THEN 0..Low7 - 1 ELSE Low7..2 * Low7 - 1)
  /\ k = 2 => b[at + 2] \in 0..Low7 - 1

HighOf(b, at, k) ==
  CASE k = 0 -> 0
    [] k = 1 -> b[at + 1] % Low7
    [] k = 2 -> (b[at + 2] % Low7) * Low7 + (b[at + 1] % Low7)

LEMMA NumberRead ==
  ASSUME NEW b, NEW at, NEW k, Following(b, at, k)
  PROVE  ReadCompactInt(b, at) = Got(Magnitude(b[at] % Low6, HighOf(b, at, k)), at + k + 1)
<1> DEFINE Byte(j) == IF at + j <= BufLen THEN b[at + j] ELSE 0
           Follows(j) == IF j = 0 THEN (Byte(0) \div Low6) % 2 = 1 ELSE Byte(j) >= Low7
           Stops(x) == (x = 4 \/ ~Follows(x)) /\ \A j \in 0..x - 1 : Follows(j)
           n == CHOOSE x \in 0..4 : Stops(x)
           Bits(j) == IF j = 4 THEN Byte(4) ELSE Byte(j) % Low7
           Top(g) == g = [j \in 1..5 |-> IF j > n THEN 0 ELSE g[j + 1] * Low7 + Bits(j)]
           high == (CHOOSE g : Top(g))[1]
           magnitude == Magnitude(Byte(0) % Low6, high)
<1>1. ReadCompactInt(b, at)
        = IF at + n > BufLen THEN OutOfRange
          ELSE Got(IF Byte(0) >= 2 * Low6 THEN 2 * magnitude ELSE magnitude, at + n + 1)
  BY DEF ReadCompactInt
<1>2. /\ at \in Nat \ {0} /\ k \in 0..2 /\ at + k <= BufLen /\ BufLen \in Nat
      /\ Low6 \in Nat /\ Low6 > 0 /\ Low7 \in Nat /\ Low7 > 0
  BY ResponsesAssumption DEF Following
<1>3. \A j \in 0..k : Byte(j) = b[at + j]
  BY <1>2
<1>4. Byte(0) = b[at]
  <2>1. at + 0 = at /\ 0 \in 0..k
    BY <1>2
  <2> QED
    BY <1>3, <2>1
<1>5. Byte(0) \in (IF k = 0 THEN 0..Low6 - 1 ELSE Low6..2 * Low6 - 1)
  BY <1>4 DEF Following
<1>6. Follows(0) <=> k # 0
  <2>1. PICK c : c = Byte(0)
    OBVIOUS
  <2>2. CASE k = 0
    <3>1. c \in 0..Low6 - 1 /\ c \in Nat /\ 0 * Low6 + c = c
      BY <1>2, <1>5, <2>1, <2>2
    <3>2. (0 * Low6 + c) \div Low6 = 0
      BY <1>2, <3>1, QuotientIs
    <3>3. c \div Low6 = 0
      BY <3>1, <3>2
    <3> QED
      BY <2>1, <2>2, <3>3
  <2>3. CASE k # 0
    <3>1. PICK r : r = c - Low6
      OBVIOUS
    <3>2. r \in 0..Low6 - 1 /\ 1 * Low6 + r = c
      BY <1>2, <1>5, <2>1, <2>3, <3>1
    <3>3. (1 * Low6 + r) \div Low6 = 1
      BY <1>2, <3>2, QuotientIs
    <3>4. c \div Low6 = 1
      BY <3>2, <3>3
    <3> QED
      BY <2>1, <2>3, <3>4
  <2> QED
    BY <2>2, <2>3
<1>7. \A j \in 1..k : Follows(j) <=> j < k
  <2> TAKE j \in 1..k
  <2>1. Byte(j) = b[at + j] /\ j # 0 /\ j \in {1, 2}
    BY <1>2, <1>3
  <2>2. CASE j = 1
    BY <1>2, <2>1, <2>2 DEF Following
  <2>3. CASE j = 2
    BY <1>2, <2>1, <2>3 DEF Following
  <2> QED
    BY <2>1, <2>2, <2>3
<1>8. \A j \in 0..k : Follows(j) <=> j < k
  <2> HIDE DEF Follows
  <2> TAKE j \in 0..k
  <2>1. CASE j = 0
    BY <1>2, <1>6, <2>1
  <2>2. CASE j # 0
    <3>1. j \in 1..k
      BY <1>2, <2>2
    <3> QED
      BY <1>7, <3>1
  <2> QED
    BY <2>1, <2>2
<1>9. n = k
  <2> HIDE DEF Follows
  <2>1. k \in 0..4 /\ Stops(k)
    <3>1. \A j \in 0..k - 1 : j \in 0..k /\ j < k
      BY <1>2
    <3>2. k \in 0..k /\ ~(k < k)
      BY <1>2
    <3>3. ~Follows(k)
      BY <1>8, <3>2
    <3>4. \A j \in 0..k - 1 : Follows(j)
      BY <1>8, <3>1
    <3> QED
      BY <1>2, <3>3, <3>4
  <2>2. ASSUME NEW x \in 0..4, Stops(x)
        PROVE  x = k
    <3>1. CASE x < k
      <4>1. x \in 0..k /\ x # 4
        BY <1>2, <3>1
      <4> QED
        BY <1>8, <2>2, <3>1, <4>1
    <3>2. CASE x > k
      <4>1. k \in 0..x - 1 /\ k \in 0..k /\ ~(k < k)
        BY <1>2, <3>2
      <4> QED
        BY <1>8, <2>2, <4>1
    <3> QED
      BY <1>2, <3>1, <3>2
  <2> HIDE DEF Stops
  <2> QED
    BY <2>1, <2>2
<1> DEFINE h3 == 0
<1>10. PICK h1, h2 : /\ h2 = IF 2 > k THEN 0 ELSE 0 * Low7 + Bits(2)
                     /\ h1 = IF 1 > k THEN 0 ELSE h2 * Low7 + Bits(1)
  OBVIOUS
<1>11. \E g : Top(g)
  <2>1. PICK g : g = [j \in 1..5 |-> IF j = 1 THEN h1 ELSE IF j = 2 THEN h2 ELSE 0]
    OBVIOUS
  <2>2. g[1] = h1 /\ g[2] = h2 /\ g[3] = 0
    BY <2>1
  <2> HIDE DEF Bits, n
  <2>3. \A j \in 1..5 : g[j] = IF j > n THEN 0 ELSE g[j + 1] * Low7 + Bits(j)
    <3> TAKE j \in 1..5
    <3>1. CASE j = 1
      <4>1. g[j] = h1 /\ g[j + 1] = h2
        BY <2>2, <3>1
      <4> QED
        BY <1>9, <1>10, <3>1, <4>1
    <3>2. CASE j = 2
      <4>1. g[j] = h2 /\ g[j + 1] = 0
        BY <2>2, <3>2
      <4> QED
        BY <1>9, <1>10, <3>2, <4>1
    <3>3. CASE j > 2
      <4>1. g[j] = 0 /\ j > k
        BY <1>2, <2>1, <3>3
      <4> QED
        BY <1>9, <4>1
    <3> QED
      BY <3>1, <3>2, <3>3
  <2>4. g = [j \in 1..5 |-> g[j]]
    BY <2>1
  <2> QED
    BY <2>3, <2>4
<1>12. PICK g : g = CHOOSE x : Top(x)
  OBVIOUS
<1>13. Top(g)
  <2> HIDE DEF Top
  <2> QED
    BY <1>11, <1>12
<1>14. high = HighOf(b, at, k)
  <2> HIDE DEF n, Bits
  <2>1. /\ g[1] = IF 1 > k THEN 0 ELSE g[2] * Low7 + Bits(1)
        /\ g[2] = IF 2 > k THEN 0 ELSE g[3] * Low7 + Bits(2)
        /\ g[3] = 0
    <3>1. \A j \in 1..5 : g[j] = IF j > k THEN 0 ELSE g[j + 1] * Low7 + Bits(j)
      BY <1>9, <1>13
    <3>2. 1 + 1 = 2 /\ 2 + 1 = 3 /\ 1 \in 1..5 /\ 2 \in 1..5 /\ 3 \in 1..5 /\ 3 > k
      BY <1>2
    <3>3. g[1] = IF 1 > k THEN 0 ELSE g[1 + 1] * Low7 + Bits(1)
      BY <3>1, <3>2
    <3>4. g[2] = IF 2 > k THEN 0 ELSE g[2 + 1] * Low7 + Bits(2)
      BY <3>1, <3>2
    <3>5. g[3] = 0
      BY <3>1, <3>2
    <3> QED
      BY <3>2, <3>3, <3>4, <3>5
  <2>2. \A j \in 1..k : Bits(j) = b[at + j] % Low7
    BY <1>2, <1>3 DEF Bits
  <2>3. high = g[1]
    BY <1>12
  <2>4. CASE k = 0
    BY <2>1, <2>3, <2>4 DEF HighOf
  <2>5. CASE k = 1
    <3>1. Bits(1) = b[at + 1] % Low7
      BY <2>2, <2>5
    <3>2. g[2] = 0
      BY <2>1, <2>5
    <3>3. g[1] = 0 * Low7 + Bits(1)
      BY <2>1, <2>5, <3>2
    <3>4. b[at + 1] % Low7 \in Nat
      BY <1>2, <2>5 DEF Following
    <3>5. g[1] = b[at + 1] % Low7
      BY <1>2, <3>1, <3>3, <3>4
    <3> QED
      BY <2>3, <2>5, <3>5 DEF HighOf
  <2>6. CASE k = 2
    <3>1. Bits(1) = b[at + 1] % Low7 /\ Bits(2) = b[at + 2] % Low7
      BY <2>2, <2>6
    <3>2. b[at + 1] % Low7 \in Nat /\ b[at + 2] % Low7 \in Nat
      BY <1>2, <2>6 DEF Following
    <3>3. g[2] = 0 * Low7 + Bits(2)
      BY <2>1, <2>6
    <3>4. g[2] = b[at + 2] % Low7
      <4>1. PICK v : v = b[at + 2] % Low7
        OBVIOUS
      <4>2. v \in Nat /\ Bits(2) = v
        BY <3>1, <3>2, <4>1
      <4>3. g[2] = 0 * Low7 + v
        BY <3>3, <4>2
      <4>4. 0 * Low7 + v = v
        BY <1>2, <4>2
      <4> QED
        BY <4>1, <4>3, <4>4
    <3>5. g[1] = g[2] * Low7 + Bits(1)
      BY <2>1, <2>6
    <3>6. g[1] = (b[at + 2] % Low7) * Low7 + (b[at + 1] % Low7)
      BY <3>1, <3>4, <3>5
    <3> QED
      BY <2>3, <2>6, <3>6 DEF HighOf
  <2> QED
    BY <1>2, <2>4, <2>5, <2>6
<1>15. ~(Byte(0) >= 2 * Low6) /\ ~(at + k > BufLen)
  BY <1>2, <1>5
<1> HIDE DEF n, high, Byte
<1> QED
  BY <1>1, <1>4, <1>9, <1>14, <1>15

LEMMA RestRemains ==
  ASSUME NEW d \in Nat, d > 0, NEW r \in 0..d - 1
  PROVE  (r + d) % d = r /\ r % d = r
<1>1. (1 * d + r) % d = r
  BY QuotientIs
<1>2. (0 * d + r) % d = r
  BY QuotientIs
<1>3. 1 * d + r = r + d /\ 0 * d + r = r
  OBVIOUS
<1> QED
  BY <1>1, <1>2, <1>3

(* A number is read as it was sent.                                        *)
LEMMA CompactRead ==
  ASSUME NEW n \in Nat, n < BufLen, NEW b, NEW at, NEW len \in Nat, len <= BufLen,
         NEW y, IsSequence(y), View(b, at, len, Compact(n) \o y), IsSequence(Compact(n))
  PROVE  /\ ReadCompactInt(b, at) = Got(n, at + Len(Compact(n)))
         /\ View(b, at + Len(Compact(n)), len, y)
<1>1. PICK e : e = Compact(n)
  OBVIOUS
<1>2. /\ at \in Nat \ {0} /\ Len(e) \in Nat
      /\ at + Len(e) <= len + 1
      /\ \A i \in 1..Len(e) : b[at + i - 1] = e[i]
      /\ View(b, at + Len(e), len, y)
  <2>1. IsSequence(e) /\ View(b, at, len, e \o y)
    BY <1>1
  <2> QED
    BY ONLY <2>1, len \in Nat, IsSequence(y), ViewCut
<1>3. PICK d6 \in Nat, d7 \in Nat : d6 = Low6 /\ d7 = Low7 /\ d6 > 0 /\ d7 > 0
  BY ResponsesAssumption
<1>4. BufLen \in Nat
  BY ResponsesAssumption
<1>5. PICK f : DigitsOf(f) /\ e = IF n < d6 THEN <<n>> ELSE <<(n % d6) + d6>> \o f[n \div d6]
  BY <1>1, <1>3, CompactIs
<1>6. PICK m \in Nat, r \in 0..d6 - 1, p \in Nat :
        /\ m = n \div d6 /\ r = n % d6 /\ p = m * d6 /\ p + r = n
  BY <1>3, QuotientFacts
<1>7. m < d7 * d7
  <2>1. n < d6 * (d7 * d7)
    <3>1. BufLen <= (d6 * d7) * d7
      BY <1>3, ResponsesAssumption
    <3>2. (d6 * d7) * d7 = d6 * (d7 * d7)
      OBVIOUS
    <3> QED
      BY <1>4, <3>1, <3>2
  <2>2. d7 * d7 \in Nat
    OBVIOUS
  <2> QED
    BY <1>3, <1>6, <2>1, <2>2, QuotientBelow
<1>8. f[m] = IF m < d7 THEN <<m>> ELSE <<(m % d7) + d7, m \div d7>>
  BY <1>3, <1>5, <1>7, SmallDigits
<1>9. \A k \in 0..2 : Following(b, at, k) /\ Len(e) = k + 1
                       /\ (HighOf(b, at, k) * d6) + (b[at] % d6) = n =>
                         ReadCompactInt(b, at) = Got(n, at + Len(e))
  <2> SUFFICES ASSUME NEW k \in 0..2, Following(b, at, k), Len(e) = k + 1,
                      (HighOf(b, at, k) * d6) + (b[at] % d6) = n
               PROVE  ReadCompactInt(b, at) = Got(n, at + Len(e))
    OBVIOUS
  <2>1. ReadCompactInt(b, at) = Got(Magnitude(b[at] % Low6, HighOf(b, at, k)), at + k + 1)
    BY NumberRead
  <2>2. Magnitude(b[at] % Low6, HighOf(b, at, k)) = n
    BY <1>3 DEF Magnitude
  <2>3. at + k + 1 = at + Len(e)
    BY <1>2
  <2> QED
    BY <2>1, <2>2, <2>3
<1>10. (r + d6) % d6 = r /\ r % d6 = r /\ \A s \in 0..d7 - 1 : (s + d7) % d7 = s /\ s % d7 = s
  BY <1>3, RestRemains
<1>11. CASE n < d6
  <2>1. e = <<n>>
    BY <1>5, <1>11
  <2>2. Len(e) = 1 /\ e[1] = n
    BY <2>1, OneSymbol
  <2>3. b[at] = n /\ at <= BufLen
    <3>1. 1 \in 1..Len(e) /\ at + 1 - 1 = at
      BY <1>2, <2>2
    <3> QED
      BY <1>2, <1>4, <2>2, <3>1
  <2>4. Following(b, at, 0)
    BY <1>2, <1>3, <1>11, <2>3 DEF Following
  <2>5. n % d6 = n
    <3>1. n \in 0..d6 - 1
      BY <1>3, <1>11
    <3> QED
      BY <1>3, <3>1, RestRemains
  <2>6. (HighOf(b, at, 0) * d6) + (b[at] % d6) = n
    <3>1. HighOf(b, at, 0) = 0
      BY DEF HighOf
    <3>2. (0 * d6) + n = n
      OBVIOUS
    <3> QED
      BY <2>3, <2>5, <3>1, <3>2
  <2> QED
    BY <1>1, <1>2, <1>9, <2>2, <2>4, <2>6
<1>12. CASE n >= d6 /\ m < d7
  <2>1. e = <<r + d6>> \o <<m>>
    BY <1>5, <1>6, <1>8, <1>12
  <2>2. e = <<r + d6, m>>
    BY <2>1, TwoSymbols
  <2>3. Len(e) = 2 /\ e[1] = r + d6 /\ e[2] = m
    BY <2>2
  <2>4. b[at] = r + d6 /\ b[at + 1] = m /\ at + 1 <= BufLen
    <3>1. 1 \in 1..Len(e) /\ at + 1 - 1 = at /\ 2 \in 1..Len(e) /\ at + 2 - 1 = at + 1
      BY <1>2, <2>3
    <3>2. at + 2 <= len + 1
      BY <1>2, <2>3
    <3> QED
      BY <1>2, <1>4, <2>3, <3>1, <3>2
  <2>5. Following(b, at, 1)
    BY <1>2, <1>3, <1>12, <2>4 DEF Following
  <2>6. (HighOf(b, at, 1) * d6) + (b[at] % d6) = n
    <3>1. m \in 0..d7 - 1
      BY <1>3, <1>12
    <3>2. HighOf(b, at, 1) = m
      BY <1>3, <1>10, <2>4, <3>1 DEF HighOf
    <3>3. b[at] % d6 = r
      BY <1>10, <2>4
    <3>4. (m * d6) + r = n
      BY <1>6
    <3> QED
      BY <3>2, <3>3, <3>4
  <2> QED
    BY <1>1, <1>2, <1>9, <2>3, <2>5, <2>6
<1>13. CASE n >= d6 /\ m >= d7
  <2>1. PICK t \in Nat, s \in 0..d7 - 1, u \in Nat :
          /\ t = m \div d7 /\ s = m % d7 /\ u = t * d7 /\ u + s = m
    BY <1>3, QuotientFacts
  <2>2. t < d7
    BY <1>3, <1>7, <2>1, QuotientBelow
  <2>3. f[m] = <<s + d7, t>>
    BY <1>8, <1>13, <2>1
  <2>4. PICK h, w : h = <<r + d6>> /\ w = f[m]
    OBVIOUS
  <2>5. e = h \o w
    BY <1>5, <1>6, <1>13, <2>4
  <2>6. IsSequence(h) /\ Len(h) = 1 /\ h[1] = r + d6
    BY <2>4, OneSymbol
  <2>7. IsSequence(w) /\ Len(w) = 2 /\ w[1] = s + d7
    BY <2>3, <2>4, TwoSymbols
  <2>8. w[2] = t
    BY <2>3, <2>4
  <2>9. /\ Len(e) = Len(h) + Len(w)
        /\ \A i \in 1..Len(h) + Len(w) : e[i] = IF i <= Len(h) THEN h[i] ELSE w[i - Len(h)]
    BY <2>5, <2>6, <2>7, ConcatSequences
  <2>10. /\ Len(e) = 3
         /\ \A i \in 1..3 : e[i] = IF i <= 1 THEN h[i] ELSE w[i - 1]
    BY <2>6, <2>7, <2>9
  <2>11. e[1] = r + d6 /\ e[2] = s + d7 /\ e[3] = t
    <3>1. 1 \in 1..3 /\ 2 \in 1..3 /\ 3 \in 1..3 /\ 1 <= 1 /\ ~(2 <= 1) /\ ~(3 <= 1)
          /\ 2 - 1 = 1 /\ 3 - 1 = 2
      OBVIOUS
    <3>2. e[1] = h[1]
      BY <2>10, <3>1
    <3>3. e[2] = w[2 - 1]
      BY <2>10, <3>1
    <3>4. e[3] = w[3 - 1]
      BY <2>10, <3>1
    <3> QED
      BY <2>6, <2>7, <2>8, <3>1, <3>2, <3>3, <3>4
  <2>12. b[at] = r + d6 /\ b[at + 1] = s + d7 /\ b[at + 2] = t /\ at + 2 <= BufLen
    <3>1. 1 \in 1..Len(e) /\ at + 1 - 1 = at /\ 2 \in 1..Len(e) /\ at + 2 - 1 = at + 1
          /\ 3 \in 1..Len(e) /\ at + 3 - 1 = at + 2
      BY <1>2, <2>10
    <3>2. at + 3 <= len + 1
      BY <1>2, <2>10
    <3> QED
      BY <1>2, <1>4, <2>11, <3>1, <3>2
  <2>13. Following(b, at, 2)
    BY <1>2, <1>3, <2>2, <2>12 DEF Following
  <2>14. (HighOf(b, at, 2) * d6) + (b[at] % d6) = n
    <3>1. t \in 0..d7 - 1
      BY <2>2
    <3>2. HighOf(b, at, 2) = (t * d7) + s
      BY <1>3, <1>10, <2>12, <3>1 DEF HighOf
    <3>3. HighOf(b, at, 2) = m
      BY <2>1, <3>2
    <3>4. b[at] % d6 = r
      BY <1>10, <2>12
    <3>5. (m * d6) + r = n
      BY <1>6
    <3> QED
      BY <3>3, <3>4, <3>5
  <2>15. Len(e) = 2 + 1 /\ 2 \in 0..2
    BY <2>10
  <2>16. ReadCompactInt(b, at) = Got(n, at + Len(e))
    BY <1>9, <2>13, <2>14, <2>15
  <2> QED
    BY <1>1, <1>2, <2>16
<1>14. n < d6 \/ (n >= d6 /\ m < d7) \/ (n >= d6 /\ m >= d7)
  OBVIOUS
<1> QED
  BY <1>11, <1>12, <1>13, <1>14

LEMMA DigitsType ==
  ASSUME NEW f, DigitsOf(f)
  PROVE  \A k \in Nat : f[k] \in Seq(Bytes)
<1>1. PICK low \in Nat : low = Low7 /\ low \in 2..128
  BY ResponsesAssumption
<1>2. \A k \in Nat : f[k] = IF k < low THEN <<k>> ELSE <<(k % low) + low>> \o f[k \div low]
  BY <1>1 DEF DigitsOf
<1> DEFINE T == {k \in Nat : f[k] \notin Seq(Bytes)}
<1>3. SUFFICES ASSUME T # {}
               PROVE  FALSE
  OBVIOUS
<1>4. PICK k \in Nat : k \in T /\ \A y \in T : k <= y
  <2>1. T \in SUBSET Nat
    OBVIOUS
  <2> HIDE DEF T
  <2> QED
    BY <1>3, <2>1, LeastElement
<1>5. f[k] \notin Seq(Bytes)
  BY <1>4
<1>6. k < low => <<k>> \in Seq(Bytes)
  <2>1. k < low => k \in Bytes
    BY <1>1 DEF Bytes
  <2> QED
    BY <2>1
<1>7. ~(k < low)
  BY <1>2, <1>5, <1>6
<1>8. (k % low) + low \in Bytes /\ k \div low \in Nat /\ ~(k <= k \div low)
  BY <1>1, <1>7 DEF Bytes
<1>9. PICK a, j : a = <<(k % low) + low>> /\ j = k \div low
  OBVIOUS
<1>10. a \in Seq(Bytes) /\ j \in Nat /\ ~(k <= j)
  BY <1>8, <1>9
<1>11. f[j] \in Seq(Bytes)
  BY <1>4, <1>10
<1>12. f[k] = a \o f[j]
  BY <1>2, <1>7, <1>9
<1>13. a \o f[j] \in Seq(Bytes)
  BY <1>10, <1>11, ConcatProperties
<1> QED
  BY <1>5, <1>12, <1>13

LEMMA CompactBytes ==
  ASSUME NEW n \in Nat
  PROVE  Compact(n) \in Seq(Bytes) /\ Len(Compact(n)) \in Nat /\ Len(Compact(n)) >= 1
<1>1. PICK low \in Nat : low = Low6 /\ low \in 1..64
  BY ResponsesAssumption
<1>2. PICK f : DigitsOf(f) /\ Compact(n) = IF n < low THEN <<n>> ELSE <<(n % low) + low>> \o f[n \div low]
  BY <1>1, CompactIs
<1>3. PICK c : c = Compact(n)
  OBVIOUS
<1>4. CASE n < low
  <2>1. n \in Bytes
    BY <1>1, <1>4 DEF Bytes
  <2>2. c = <<n>>
    BY <1>2, <1>3, <1>4
  <2>3. c \in Seq(Bytes) /\ Len(c) = 1
    BY <2>1, <2>2
  <2> QED
    BY <1>3, <2>3
<1>5. CASE ~(n < low)
  <2>1. PICK a, t : a = <<(n % low) + low>> /\ t = f[n \div low]
    OBVIOUS
  <2>2. (n % low) + low \in Bytes /\ n \div low \in Nat
    BY <1>1 DEF Bytes
  <2>3. a \in Seq(Bytes) /\ Len(a) = 1
    BY <2>1, <2>2
  <2>4. t \in Seq(Bytes)
    BY <1>2, <2>1, <2>2, DigitsType
  <2>5. c = a \o t
    BY <1>2, <1>3, <1>5, <2>1
  <2>6. c \in Seq(Bytes) /\ Len(c) = 1 + Len(t) /\ Len(t) \in Nat
    BY <2>3, <2>4, <2>5, ConcatProperties, LenProperties
  <2> QED
    BY <1>3, <2>6
<1> QED
  BY <1>4, <1>5

-----------------------------------------------------------------------------
(* The characters of a compact string, from an offset on: length is what   *)
(* was read before them.                                                   *)
CharsFrom(b, length, g, o) ==
  IF o - length.at >= length.value THEN Got(<<>>, o)
  ELSE IF o > BufLen THEN OutOfRange
  ELSE IF b[o] = 0 THEN Got(<<>>, o + 1)
  ELSE IF b[o] = Esc THEN g[o + 4]
  ELSE IF g[o + 1].ok THEN Got(<<b[o]>> \o g[o + 1].value, g[o + 1].at) ELSE OutOfRange

CharsOf(b, length, g) == g = [o \in 1..BufLen + 4 |-> CharsFrom(b, length, g, o)]

LEMMA CharsExist ==
  ASSUME NEW b, NEW length
  PROVE  \E g : CharsOf(b, length, g)
<1>1. PICK N \in Nat : N = BufLen + 4 /\ N >= 4
  BY ResponsesAssumption
<1> DEFINE D == 1..N
           Upto(k, g) == g = [o \in D |-> g[o]] /\ \A o \in D : o >= N + 1 - k => g[o] = CharsFrom(b, length, g, o)
           T == {k \in 1..N : \E g : Upto(k, g)}
<1>2. ASSUME NEW g, NEW h, NEW o \in D, o <= BufLen => g[o + 1] = h[o + 1] /\ g[o + 4] = h[o + 4]
      PROVE  CharsFrom(b, length, g, o) = CharsFrom(b, length, h, o)
  <2>1. BufLen \in Nat /\ o \in Nat
    BY ResponsesAssumption
  <2>2. CASE o > BufLen
    BY <2>2, Zenon DEF CharsFrom
  <2>3. CASE o <= BufLen
    <3>1. g[o + 1] = h[o + 1] /\ g[o + 4] = h[o + 4]
      BY <1>2, <2>3
    <3> QED
      BY <3>1, Zenon DEF CharsFrom
  <2> QED
    BY <2>1, <2>2, <2>3
<1>3. 1 \in T
  <2>1. PICK e : e = [o \in D |-> 0]
    OBVIOUS
  <2>2. PICK v : v = CharsFrom(b, length, e, N)
    OBVIOUS
  <2>3. PICK g : g = [o \in D |-> v]
    OBVIOUS
  <2>4. ASSUME NEW o \in D, o >= N + 1 - 1
        PROVE  g[o] = CharsFrom(b, length, g, o)
    <3>1. o = N /\ ~(o <= BufLen)
      BY <1>1, <2>4, ResponsesAssumption
    <3>2. CharsFrom(b, length, e, o) = CharsFrom(b, length, g, o)
      BY <1>2, <3>1
    <3> QED
      BY <2>2, <2>3, <3>1, <3>2
  <2>5. Upto(1, g)
    BY <2>3, <2>4
  <2>6. 1 \in 1..N
    BY <1>1
  <2> QED
    BY <2>5, <2>6
<1>4. ASSUME NEW k \in 1..N - 1, k \in T
      PROVE  k + 1 \in T
  <2>1. PICK g : Upto(k, g)
    BY <1>4
  <2>2. PICK new \in D : new = N - k
    BY <1>1
  <2>3. PICK v : v = CharsFrom(b, length, g, new)
    OBVIOUS
  <2>4. PICK h : h = [o \in D |-> IF o = new THEN v ELSE g[o]]
    OBVIOUS
  <2>5. ASSUME NEW o \in D, o >= new
        PROVE  CharsFrom(b, length, h, o) = CharsFrom(b, length, g, o)
    <3>1. ASSUME o <= BufLen
          PROVE  h[o + 1] = g[o + 1] /\ h[o + 4] = g[o + 4]
      <4>1. o + 1 \in D /\ o + 4 \in D /\ o + 1 # new /\ o + 4 # new
        BY <1>1, <2>5, <3>1, ResponsesAssumption
      <4> QED
        BY <2>4, <4>1
    <3> QED
      BY <1>2, <3>1
  <2>6. ASSUME NEW o \in D, o >= N + 1 - (k + 1)
        PROVE  h[o] = CharsFrom(b, length, h, o)
    <3>1. o >= new
      BY <2>2, <2>6
    <3>2. CharsFrom(b, length, h, o) = CharsFrom(b, length, g, o)
      BY <2>5, <3>1
    <3>3. CASE o = new
      BY <2>3, <2>4, <3>2, <3>3
    <3>4. CASE o # new
      <4>1. o >= N + 1 - k
        BY <2>2, <3>1, <3>4
      <4>2. g[o] = CharsFrom(b, length, g, o)
        BY <2>1, <4>1
      <4> QED
        BY <2>4, <3>2, <3>4, <4>2
    <3> QED
      BY <3>3, <3>4
  <2>7. Upto(k + 1, h)
    BY <2>4, <2>6
  <2>8. k + 1 \in 1..N
    OBVIOUS
  <2> QED
    BY <2>7, <2>8
<1>5. \A k \in 1..N : k \in T
  <2> HIDE DEF T
  <2>1. N \in Nat /\ 1 \in T /\ \A k \in 1..N - 1 : k \in T => k + 1 \in T
    BY <1>3, <1>4
  <2> QED
    BY <2>1, InductionTo
<1>6. N \in 1..N
  BY <1>1
<1>7. PICK g : Upto(N, g)
  BY <1>5, <1>6
<1>8. \A o \in D : g[o] = CharsFrom(b, length, g, o)
  BY <1>7
<1>9. g = [o \in D |-> CharsFrom(b, length, g, o)]
  BY <1>7, <1>8
<1> QED
  BY <1>1, <1>9 DEF CharsOf

(* ReadCompactString, with its recursive function named.                   *)
LEMMA CompactStringIs ==
  ASSUME NEW b, NEW at
  PROVE  ReadCompactString(b, at) =
           IF ReadCompactInt(b, at).ok
           THEN (CHOOSE h : CharsOf(b, ReadCompactInt(b, at), h))[ReadCompactInt(b, at).at]
           ELSE OutOfRange
BY DEF ReadCompactString, CharsOf, CharsFrom

LEMMA CompactStringValue ==
  ASSUME NEW b, NEW at, NEW n, NEW o, ReadCompactInt(b, at) = Got(n, o)
  PROVE  \E g : CharsOf(b, Got(n, o), g) /\ ReadCompactString(b, at) = g[o]
<1>1. PICK length : length = Got(n, o)
  OBVIOUS
<1>2. length.ok = TRUE /\ length.at = o
  BY <1>1 DEF Got
<1>3. PICK g : g = CHOOSE h : CharsOf(b, length, h)
  OBVIOUS
<1>4. CharsOf(b, length, g)
  <2>1. \E h : CharsOf(b, length, h)
    BY CharsExist
  <2> QED
    BY <1>3, <2>1
<1>5. ReadCompactString(b, at) = IF length.ok THEN g[length.at] ELSE OutOfRange
  BY <1>1, <1>3, CompactStringIs
<1> QED
  BY <1>1, <1>2, <1>4, <1>5

(* The characters of a text on the wire, and those that are kept of it.    *)
Codes(text) == [i \in 1..Len(text) |-> IF text[i] = Esc THEN <<Esc, 9, 9, 9>> ELSE <<text[i]>>]
Kept(text) == [i \in 1..Len(text) |-> IF text[i] = Esc THEN <<>> ELSE <<text[i]>>]

LEMMA CodesFacts ==
  ASSUME NEW text, NEW n \in Nat, n = Len(text)
  PROVE  /\ \A i \in 1..n : /\ IsSequence(Codes(text)[i]) /\ IsSequence(Kept(text)[i])
                            /\ Len(Codes(text)[i]) = IF text[i] = Esc THEN 4 ELSE 1
                            /\ Codes(text)[i][1] = text[i]
                            /\ Kept(text)[i] = IF text[i] = Esc THEN <<>> ELSE <<text[i]>>
         /\ \A k \in 0..n : IsSequence(Behind(Codes(text), k)) /\ IsSequence(Behind(Kept(text), k))
         /\ \A k \in 0..n : k < n =>
              /\ Behind(Codes(text), k) = Codes(text)[k + 1] \o Behind(Codes(text), k + 1)
              /\ Behind(Kept(text), k) = Kept(text)[k + 1] \o Behind(Kept(text), k + 1)
         /\ Behind(Codes(text), n) = <<>> /\ Behind(Kept(text), n) = <<>>
         /\ Raw(text) = Behind(Codes(text), 0) /\ Plain(text) = Behind(Kept(text), 0)
<1>1. PICK C, K : C = Codes(text) /\ K = Kept(text)
  OBVIOUS
<1>2. \A i \in 1..n : /\ C[i] = IF text[i] = Esc THEN <<Esc, 9, 9, 9>> ELSE <<text[i]>>
                      /\ K[i] = IF text[i] = Esc THEN <<>> ELSE <<text[i]>>
  BY <1>1 DEF Codes, Kept
<1>3. \A c : IsSequence(<<c>>) /\ Len(<<c>>) = 1 /\ <<c>>[1] = c
  BY OneSymbol
<1>4. PICK esc : esc = <<Esc, 9, 9, 9>>
  OBVIOUS
<1>5. IsSequence(esc) /\ Len(esc) = 4 /\ esc[1] = Esc
  <2>1. esc \in Seq({Esc, 9})
    BY <1>4
  <2> QED
    BY <1>4, <2>1, SequenceOf
<1>6. ASSUME NEW i \in 1..n
      PROVE  /\ IsSequence(C[i]) /\ IsSequence(K[i])
             /\ Len(C[i]) = IF text[i] = Esc THEN 4 ELSE 1
             /\ C[i][1] = text[i]
  <2>1. CASE text[i] = Esc
    <3>1. C[i] = esc /\ K[i] = <<>>
      BY <1>2, <1>4, <2>1
    <3> QED
      BY <1>5, <2>1, <3>1, EmptySequence
  <2>2. CASE text[i] # Esc
    <3>1. PICK c : c = <<text[i]>>
      OBVIOUS
    <3>2. C[i] = c /\ K[i] = c
      BY <1>2, <2>2, <3>1
    <3>3. IsSequence(c) /\ Len(c) = 1 /\ c[1] = text[i]
      BY <1>3, <3>1
    <3> QED
      BY <2>2, <3>2, <3>3
  <2> QED
    BY <2>1, <2>2
<1>7. C = [i \in 1..n |-> C[i]] /\ K = [i \in 1..n |-> K[i]]
  BY <1>1 DEF Codes, Kept
<1>8. /\ \A k \in 0..n : IsSequence(Behind(C, k))
      /\ \A k \in 0..n : k < n => Behind(C, k) = C[k + 1] \o Behind(C, k + 1)
      /\ Behind(C, n) = <<>>
      /\ Behind(C, 0) = FlattenSeq(C)
  BY <1>6, <1>7, BehindFacts
<1>9. /\ \A k \in 0..n : IsSequence(Behind(K, k))
      /\ \A k \in 0..n : k < n => Behind(K, k) = K[k + 1] \o Behind(K, k + 1)
      /\ Behind(K, n) = <<>>
      /\ Behind(K, 0) = FlattenSeq(K)
  BY <1>6, <1>7, BehindFacts
<1>10. Raw(text) = FlattenSeq(C) /\ Plain(text) = FlattenSeq(K)
  BY <1>1 DEF Raw, Plain, Codes, Kept
<1> QED
  BY <1>1, <1>2, <1>6, <1>8, <1>9, <1>10

(* The characters are read as they were sent, without the colours.         *)
LEMMA CharsRead ==
  ASSUME NEW text, Len(text) \in Nat, Len(Raw(text)) \in Nat, \A i \in 1..Len(text) : text[i] # 0,
         NEW b, NEW start \in Nat, NEW len \in Nat, len <= BufLen, NEW y, IsSequence(y),
         View(b, start, len, Raw(text) \o (ZeroByte \o y)),
         NEW g, CharsOf(b, Got(Len(Raw(text)) + 1, start), g)
  PROVE  /\ g[start] = Got(Plain(text), start + (Len(Raw(text)) + 1))
         /\ View(b, start + (Len(Raw(text)) + 1), len, y)
<1>0. PICK n \in Nat, N \in Nat : n = Len(text) /\ N = Len(Raw(text)) + 1
  OBVIOUS
<1>1. PICK C, K : C = Codes(text) /\ K = Kept(text)
  OBVIOUS
<1>2. /\ \A i \in 1..n : /\ IsSequence(C[i]) /\ IsSequence(K[i])
                         /\ Len(C[i]) = IF text[i] = Esc THEN 4 ELSE 1
                         /\ C[i][1] = text[i]
                         /\ K[i] = IF text[i] = Esc THEN <<>> ELSE <<text[i]>>
      /\ \A k \in 0..n : IsSequence(Behind(C, k)) /\ IsSequence(Behind(K, k))
      /\ \A k \in 0..n : k < n =>
           /\ Behind(C, k) = C[k + 1] \o Behind(C, k + 1)
           /\ Behind(K, k) = K[k + 1] \o Behind(K, k + 1)
      /\ Behind(C, n) = <<>> /\ Behind(K, n) = <<>>
      /\ Raw(text) = Behind(C, 0) /\ Plain(text) = Behind(K, 0)
  BY <1>0, <1>1, CodesFacts
<1>3. PICK z, zy : z = ZeroByte /\ zy = z \o y
  OBVIOUS
<1>4. IsSequence(z) /\ Len(z) = 1 /\ z[1] = 0
  BY <1>3, OneSymbol DEF ZeroByte
<1>5. IsSequence(zy) /\ Len(zy) = Len(y) + 1 /\ Len(y) \in Nat
  <2>1. IsSequence(z \o y) /\ Len(z \o y) = Len(z) + Len(y) /\ Len(y) \in Nat
    BY <1>4, ConcatSequences
  <2> QED
    BY <1>3, <1>4, <2>1
<1>6. BufLen \in Nat
  BY ResponsesAssumption
<1>7. \A o \in 1..BufLen + 4 : g[o] = CharsFrom(b, Got(N, start), g, o)
  BY <1>0 DEF CharsOf
<1>8. ASSUME NEW o \in 1..BufLen + 4, o - start < N, o <= BufLen
      PROVE  /\ b[o] = 0 => g[o] = Got(<<>>, o + 1)
             /\ b[o] # 0 /\ b[o] = Esc => g[o] = g[o + 4]
             /\ b[o] # 0 /\ b[o] # Esc /\ g[o + 1].ok =>
                  g[o] = Got(<<b[o]>> \o g[o + 1].value, g[o + 1].at)
  <2>1. PICK r : r = Got(N, start)
    OBVIOUS
  <2>2. r.value = N /\ r.at = start
    BY <2>1 DEF Got
  <2>3. g[o] = CharsFrom(b, r, g, o)
    BY <1>7, <2>1
  <2>4. ~(o - r.at >= r.value) /\ ~(o > BufLen)
    BY <1>6, <1>8, <2>2
  <2> QED
    BY <2>3, <2>4, Zenon DEF CharsFrom
<1> DEFINE At(k) == \A o : /\ View(b, o, len, Behind(C, k) \o zy)
                           /\ o + Len(Behind(C, k)) + 1 = start + N
                           => /\ g[o] = Got(Behind(K, k), start + N)
                              /\ View(b, start + N, len, y)
<1>9. At(n)
  <2> SUFFICES ASSUME NEW o, View(b, o, len, Behind(C, n) \o zy),
                      o + Len(Behind(C, n)) + 1 = start + N
               PROVE  g[o] = Got(Behind(K, n), start + N) /\ View(b, start + N, len, y)
    OBVIOUS
  <2>1. Behind(C, n) \o zy = zy /\ Len(Behind(C, n)) = 0
    BY <1>2, <1>5, EmptyConcat, EmptySequence
  <2>2. View(b, o, len, z \o y)
    BY <1>3, <2>1
  <2>3. /\ o \in Nat \ {0} /\ Len(z) \in Nat
        /\ o + Len(z) <= len + 1
        /\ \A i \in 1..Len(z) : b[o + i - 1] = z[i]
        /\ View(b, o + Len(z), len, y)
    <3>1. IsSequence(z) /\ IsSequence(y) /\ len \in Nat /\ View(b, o, len, z \o y)
      BY <1>4, <2>2
    <3> QED
      BY ONLY <3>1, ViewCut
  <2>4. b[o] = 0 /\ o <= BufLen
    <3>1. 1 \in 1..Len(z) /\ o + 1 - 1 = o
      BY <1>4, <2>3
    <3> QED
      BY <1>4, <1>6, <2>3, <3>1
  <2>5. o + 1 = start + N
    BY <2>1, <2>3
  <2>6. g[o] = Got(<<>>, o + 1)
    <3>1. o \in 1..BufLen + 4 /\ o - start < N
      BY <1>6, <2>3, <2>4, <2>5
    <3> QED
      BY <1>8, <2>4, <3>1
  <2> QED
    BY <1>2, <1>4, <2>3, <2>5, <2>6
<1>10. ASSUME NEW k \in 0..n, k < n, At(k + 1)
       PROVE  At(k)
  <2> SUFFICES ASSUME NEW o, View(b, o, len, Behind(C, k) \o zy),
                      o + Len(Behind(C, k)) + 1 = start + N
               PROVE  g[o] = Got(Behind(K, k), start + N) /\ View(b, start + N, len, y)
    OBVIOUS
  <2>1. PICK i : i = k + 1
    OBVIOUS
  <2>2. i \in 1..n /\ i \in 0..n /\ k + 1 = i /\ k < n
    BY <1>10, <2>1
  <2>3. PICK c, rest, left : c = C[i] /\ rest = Behind(C, i) /\ left = Behind(K, i)
    OBVIOUS
  <2>4. /\ IsSequence(c) /\ IsSequence(rest) /\ IsSequence(left)
        /\ Len(c) = IF text[i] = Esc THEN 4 ELSE 1
        /\ c[1] = text[i]
        /\ Behind(C, k) = c \o rest
        /\ Behind(K, k) = K[i] \o left
    BY <1>2, <2>2, <2>3
  <2>5. Len(c \o rest) = Len(c) + Len(rest) /\ Len(rest) \in Nat
    BY <2>4, ConcatSequences
  <2>6. PICK tail : tail = rest \o zy
    OBVIOUS
  <2>7. IsSequence(tail) /\ Len(tail) = Len(rest) + Len(zy)
    BY <1>5, <2>4, <2>6, ConcatSequences
  <2>8. View(b, o, len, c \o tail)
    <3>1. (c \o rest) \o zy = c \o (rest \o zy)
      <4>1. IsSequence(c) /\ IsSequence(rest) /\ IsSequence(zy)
        BY <1>5, <2>4
      <4> QED
        BY ONLY <4>1, ConcatRegroups
    <3> QED
      BY <2>4, <2>6, <3>1
  <2>9. /\ o \in Nat \ {0} /\ o + Len(c) <= len + 1
        /\ \A j \in 1..Len(c) : b[o + j - 1] = c[j]
        /\ View(b, o + Len(c), len, tail)
    <3>1. IsSequence(c) /\ IsSequence(tail) /\ len \in Nat /\ View(b, o, len, c \o tail)
      BY <2>4, <2>7, <2>8
    <3> QED
      BY ONLY <3>1, ViewCut
  <2>10. PICK m \in Nat : m = Len(c) /\ m >= 1
    BY <2>4
  <2>11. b[o] = text[i] /\ o <= BufLen
    <3>1. 1 \in 1..m /\ o + 1 - 1 = o
      BY <2>9, <2>10
    <3> QED
      BY <1>6, <2>4, <2>9, <2>10, <3>1
  <2>12. PICK l \in Nat : l = Len(rest)
    BY <2>5
  <2>13. o + (m + l) + 1 = start + N
    BY <2>4, <2>5, <2>10, <2>12
  <2>14. /\ g[o + m] = Got(left, start + N)
         /\ View(b, start + N, len, y)
    <3>1. View(b, o + m, len, rest \o zy)
      BY <2>6, <2>9, <2>10
    <3>2. (o + m) + Len(rest) + 1 = start + N
      BY <2>9, <2>12, <2>13
    <3>3. At(i)
      BY <1>10, <2>1
    <3> QED
      BY <2>3, <3>1, <3>2, <3>3
  <2>15. o \in 1..BufLen + 4 /\ o - start < N
    BY <1>6, <2>9, <2>11, <2>13
  <2>16. text[i] # 0
    BY <1>0, <2>2
  <2>17. CASE text[i] = Esc
    <3>1. m = 4
      BY <2>4, <2>10, <2>17
    <3>2. g[o] = g[o + m]
      BY <1>8, <2>11, <2>15, <2>16, <2>17, <3>1
    <3>3. Behind(K, k) = left
      <4>1. K[i] = <<>>
        BY <1>2, <2>2, <2>17
      <4> QED
        BY <2>4, <4>1, EmptyConcat
    <3> QED
      BY <2>14, <3>2, <3>3
  <2>18. CASE text[i] # Esc
    <3>1. m = 1
      BY <2>4, <2>10, <2>18
    <3>2. PICK r : r = Got(left, start + N)
      OBVIOUS
    <3>3. r.ok = TRUE /\ r.value = left /\ r.at = start + N
      BY <3>2 DEF Got
    <3>4. g[o + 1] = r
      BY <2>14, <3>1, <3>2
    <3>5. g[o] = Got(<<b[o]>> \o g[o + 1].value, g[o + 1].at)
      BY <1>8, <2>11, <2>15, <2>16, <2>18, <3>3, <3>4
    <3>6. Behind(K, k) = <<b[o]>> \o left
      BY <1>2, <2>2, <2>4, <2>11, <2>18
    <3> QED
      BY <2>14, <3>3, <3>4, <3>5, <3>6
  <2> QED
    BY <2>17, <2>18
<1>11. At(0)
  <2> DEFINE T == {j \in 1..n + 1 : At(n + 1 - j)}
  <2> HIDE DEF At
  <2>1. 1 \in T
    <3>1. n + 1 - 1 = n /\ 1 \in 1..n + 1
      OBVIOUS
    <3> QED
      BY <1>9, <3>1
  <2>2. ASSUME NEW j \in 1..(n + 1) - 1, j \in T
        PROVE  j + 1 \in T
    <3>1. PICK k \in Nat : k = n + 1 - (j + 1)
      OBVIOUS
    <3>2. k \in 0..n /\ k < n /\ k + 1 = n + 1 - j /\ j + 1 \in 1..n + 1
      BY <3>1
    <3>3. At(k + 1)
      BY <2>2, <3>2
    <3>4. At(k)
      BY <1>10, <3>2, <3>3
    <3> QED
      BY <3>1, <3>2, <3>4
  <2>3. \A j \in 1..n + 1 : j \in T
    <3> HIDE DEF T
    <3>1. PICK u \in Nat : u = n + 1
      OBVIOUS
    <3>2. 1 \in T /\ \A j \in 1..u - 1 : j \in T => j + 1 \in T
      BY <2>1, <2>2, <3>1
    <3>3. \A j \in 1..u : j \in T
      BY <3>2, InductionTo
    <3> QED
      BY <3>1, <3>3
  <2>4. n + 1 \in T
    BY <2>3
  <2>5. n + 1 - (n + 1) = 0
    OBVIOUS
  <2> QED
    BY <2>4, <2>5
<1>12. PICK all : all = Behind(C, 0)
  OBVIOUS
<1>13. View(b, start, len, all \o zy) /\ start + Len(all) + 1 = start + N
  <2>1. all = Raw(text)
    BY <1>2, <1>12
  <2>2. IsSequence(all)
    BY <1>2, <1>12
  <2>3. Len(all) \in Nat
    BY <1>5, <2>2, ConcatSequences
  <2> QED
    BY <1>0, <1>3, <2>1, <2>3
<1> QED
  BY <1>0, <1>2, <1>11, <1>12, <1>13

-----------------------------------------------------------------------------
(* The texts and numbers of UT2K and SAMP, as bytes.                       *)

LEMMA RawType ==
  ASSUME NEW text \in Seq(Bytes)
  PROVE  Raw(text) \in Seq(Bytes)
<1>1. PICK parts : parts = [i \in 1..Len(text) |-> IF text[i] = Esc THEN <<Esc, 9, 9, 9>>
                                                                  ELSE <<text[i]>>]
  OBVIOUS
<1>2. PICK n \in Nat : n = Len(text)
  BY LenProperties
<1>3. \A i \in 1..n : parts[i] \in Seq(Bytes)
  <2> TAKE i \in 1..n
  <2>1. text[i] \in Bytes
    BY <1>2, ElementOfSeq
  <2>2. <<text[i]>> \in Seq(Bytes)
    BY <2>1
  <2>3. <<Esc, 9, 9, 9>> \in Seq(Bytes)
    BY DEF Esc, Bytes
  <2> QED
    BY <1>1, <1>2, <2>2, <2>3
<1>4. parts \in Seq(Seq(Bytes))
  <2>1. parts = [i \in 1..n |-> parts[i]]
    BY <1>1, <1>2
  <2> QED
    BY <1>3, <2>1, BytesMade
<1>5. FlattenSeq(parts) \in Seq(Bytes)
  BY <1>4, FlattenSeqType
<1> QED
  BY <1>1, <1>5 DEF Raw

(* A text is read as it was sent, without the colours.                     *)
LEMMA StringRead ==
  ASSUME NEW text \in Seq(Bytes), \A c \in ToSet(text) : c # 0,
         NEW b, NEW at, NEW len \in Nat, len <= BufLen, NEW y, IsSequence(y),
         View(b, at, len, Encoded("compact", text) \o y)
  PROVE  /\ ReadCompactString(b, at) = Got(Plain(text), at + Len(Encoded("compact", text)))
         /\ View(b, at + Len(Encoded("compact", text)), len, y)
<1>1. PICK n \in Nat : n = Len(text)
  BY LenProperties
<1>2. \A i \in 1..n : text[i] # 0
  <2> TAKE i \in 1..n
  <2>1. DOMAIN text = 1..n
    BY <1>1, LenProperties
  <2>2. text[i] \in ToSet(text)
    BY <2>1 DEF ToSet
  <2> QED
    BY <2>2
<1>3. PICK r : r = Raw(text)
  OBVIOUS
<1>4. IsSequence(r) /\ Len(r) \in Nat
  <2>1. r \in Seq(Bytes)
    BY <1>3, RawType
  <2> QED
    BY <2>1, SequenceOf, LenProperties
<1>5. PICK N \in Nat : N = Len(r) + 1
  BY <1>4
<1>6. PICK c, z : c = Compact(N) /\ z = ZeroByte
  OBVIOUS
<1>7. IsSequence(c) /\ Len(c) \in Nat /\ Len(c) >= 1
  <2>1. c \in Seq(Bytes) /\ Len(c) \in Nat /\ Len(c) >= 1
    BY <1>6, CompactBytes
  <2> QED
    BY <2>1, SequenceOf
<1>8. IsSequence(z) /\ Len(z) = 1
  BY <1>6, OneSymbol DEF ZeroByte
<1>9. PICK e : e = (c \o r) \o z
  OBVIOUS
<1>10. e = Encoded("compact", text)
  BY <1>3, <1>5, <1>6, <1>9 DEF Encoded, ZeroByte
<1>11. PICK zy, rzy : zy = z \o y /\ rzy = r \o zy
  OBVIOUS
<1>12. IsSequence(zy) /\ Len(zy) = 1 + Len(y) /\ Len(y) \in Nat
  <2>1. IsSequence(z \o y) /\ Len(z \o y) = Len(z) + Len(y) /\ Len(y) \in Nat
    BY <1>8, ConcatSequences
  <2> QED
    BY <1>8, <1>11, <2>1
<1>13. IsSequence(rzy) /\ Len(rzy) = Len(r) + Len(zy)
  BY <1>4, <1>11, <1>12, ConcatSequences
<1>14. Len(e) = Len(c) + N
  <2>1. IsSequence(c \o r) /\ Len(c \o r) = Len(c) + Len(r)
    BY <1>4, <1>7, ConcatSequences
  <2>2. PICK cr : cr = c \o r
    OBVIOUS
  <2>3. Len(cr \o z) = Len(cr) + Len(z)
    BY <1>8, <2>1, <2>2, ConcatSequences
  <2> QED
    BY <1>4, <1>5, <1>7, <1>8, <1>9, <2>1, <2>2, <2>3
<1>15. e \o y = c \o rzy
  <2>1. PICK cr : cr = c \o r
    OBVIOUS
  <2>2. IsSequence(cr)
    BY <1>4, <1>7, <2>1, ConcatType
  <2>3. (cr \o z) \o y = cr \o (z \o y)
    <3>1. IsSequence(cr) /\ IsSequence(z) /\ IsSequence(y)
      BY <1>8, <2>2
    <3> QED
      BY ONLY <3>1, ConcatRegroups
  <2>4. (c \o r) \o zy = c \o (r \o zy)
    <3>1. IsSequence(c) /\ IsSequence(r) /\ IsSequence(zy)
      BY <1>4, <1>7, <1>12
    <3> QED
      BY ONLY <3>1, ConcatRegroups
  <2> QED
    BY <1>9, <1>11, <2>1, <2>3, <2>4
<1>16. View(b, at, len, c \o rzy)
  BY <1>10, <1>15
<1>17. N < BufLen
  <2>1. View(b, at, len, c \o rzy) /\ len \in Nat /\ IsSequence(c) /\ IsSequence(rzy)
    BY <1>7, <1>13, <1>16
  <2>2. Len(c \o rzy) = Len(c) + Len(rzy)
    BY <1>7, <1>13, ConcatSequences
  <2>3. at \in Nat \ {0} /\ at + Len(c \o rzy) = len + 1
    BY <1>16 DEF View
  <2>4. PICK l \in Nat : l = Len(y)
    BY <1>12
  <2>5. at + (Len(c) + (N + l)) = len + 1
    BY <1>4, <1>5, <1>7, <1>12, <1>13, <2>2, <2>3, <2>4
  <2>6. BufLen \in Nat
    BY ResponsesAssumption
  <2> QED
    BY <1>7, <2>3, <2>5, <2>6
<1>18. /\ ReadCompactInt(b, at) = Got(N, at + Len(c))
       /\ View(b, at + Len(c), len, rzy)
  <2>1. /\ N \in Nat /\ N < BufLen /\ len \in Nat /\ len <= BufLen /\ IsSequence(rzy)
        /\ View(b, at, len, Compact(N) \o rzy) /\ IsSequence(Compact(N))
    BY <1>6, <1>7, <1>13, <1>16, <1>17
  <2>2. /\ ReadCompactInt(b, at) = Got(N, at + Len(Compact(N)))
        /\ View(b, at + Len(Compact(N)), len, rzy)
    BY ONLY <2>1, CompactRead, Zenon
  <2> QED
    BY <1>6, <2>2
<1>19. PICK start \in Nat : start = at + Len(c)
  <2>1. at \in Nat
    BY <1>16 DEF View
  <2> QED
    BY <1>7, <2>1
<1>20. PICK g : CharsOf(b, Got(N, start), g) /\ ReadCompactString(b, at) = g[start]
  BY <1>18, <1>19, CompactStringValue
<1>21. /\ g[start] = Got(Plain(text), start + N)
       /\ View(b, start + N, len, y)
  <2>1. /\ Len(text) \in Nat /\ Len(Raw(text)) \in Nat /\ \A i \in 1..Len(text) : text[i] # 0
        /\ start \in Nat /\ len \in Nat /\ len <= BufLen /\ IsSequence(y)
        /\ View(b, start, len, Raw(text) \o (ZeroByte \o y))
        /\ CharsOf(b, Got(Len(Raw(text)) + 1, start), g)
    BY <1>1, <1>2, <1>3, <1>4, <1>5, <1>6, <1>11, <1>18, <1>19, <1>20
  <2>2. /\ g[start] = Got(Plain(text), start + (Len(Raw(text)) + 1))
        /\ View(b, start + (Len(Raw(text)) + 1), len, y)
    BY ONLY <2>1, CharsRead
  <2> QED
    BY <1>3, <1>5, <2>2
<1>22. start + N = at + Len(e)
  <2>1. at \in Nat
    BY <1>16 DEF View
  <2> QED
    BY <1>7, <1>14, <1>19, <2>1
<1> QED
  BY <1>10, <1>20, <1>21, <1>22

(* The value of a field, and its bytes.                                    *)
FieldValue(kind, value) ==
  /\ kind \in {"number", "compact", "counted"}
  /\ kind = "number" => value \in Bytes
  /\ kind # "number" => value \in Seq(Bytes)
  /\ kind = "counted" => Len(value) \in Bytes
  /\ kind = "compact" => \A c \in ToSet(value) : c # 0

LEMMA FieldType ==
  ASSUME NEW kind, NEW value, FieldValue(kind, value)
  PROVE  Encoded(kind, value) \in Seq(Bytes)
<1>1. CASE kind = "number"
  <2>1. <<value>> \in Seq(Bytes)
    BY <1>1 DEF FieldValue
  <2> QED
    BY <1>1, <2>1 DEF Encoded
<1>2. CASE kind = "counted"
  <2>1. value \in Seq(Bytes) /\ <<Len(value)>> \in Seq(Bytes)
    BY <1>2 DEF FieldValue
  <2>2. <<Len(value)>> \o value \in Seq(Bytes)
    BY <2>1, ConcatProperties
  <2> QED
    BY <1>2, <2>2 DEF Encoded
<1>3. CASE kind = "compact"
  <2>1. PICK r : r = Raw(value)
    OBVIOUS
  <2>2. value \in Seq(Bytes)
    BY <1>3 DEF FieldValue
  <2>3. r \in Seq(Bytes)
    BY <2>1, <2>2, RawType
  <2>4. PICK n \in Nat : n = Len(r) + 1
    BY <2>3, LenProperties
  <2>5. PICK c, z : c = Compact(n) /\ z = <<0>>
    OBVIOUS
  <2>6. c \in Seq(Bytes) /\ z \in Seq(Bytes)
    <3>1. 0 \in Bytes
      BY DEF Bytes
    <3> QED
      BY <2>4, <2>5, <3>1, CompactBytes
  <2>7. c \o r \in Seq(Bytes)
    BY <2>3, <2>6, ConcatProperties
  <2>8. (c \o r) \o z \in Seq(Bytes)
    BY <2>6, <2>7, ConcatProperties
  <2>9. Encoded(kind, value) = (c \o r) \o z
    BY <1>3, <2>1, <2>4, <2>5 DEF Encoded
  <2> QED
    BY <2>8, <2>9
<1> QED
  BY <1>1, <1>2, <1>3 DEF FieldValue

(* The first two fields are numbers, and no field has a key that is added  *)
(* afterwards.                                                             *)
LEMMA UT2KFieldKinds ==
  ASSUME NEW version, NEW fields, fields = UT2KFields(version)
  PROVE  /\ Len(fields) \in Nat /\ Len(fields) >= 2
         /\ \A i \in 1..Len(fields) :
              /\ fields[i].kind \in {"number", "compact"}
              /\ fields[i].key # NoKey => fields[i].key \notin {"freespace", "currentplayers"}
         /\ fields[1].kind = "number" /\ fields[2].kind = "number"
<1>1. \A key, kind : Field(key, kind).kind = kind /\ Field(key, kind).key = key
  BY DEF Field
<1> DEFINE Compacts == {Field(key, "compact") : key \in {NoKey, "hostname", "mapname", "gametype", "botlevel"}}
           Numbers == {Skipped, Field("numplayers", "number"), Field("maxplayers", "number")}
           S == Compacts \cup Numbers
<1>2. \A f \in S : /\ f.kind \in {"number", "compact"}
                   /\ f.key # NoKey => f.key \notin {"freespace", "currentplayers"}
  <2>1. Skipped.kind = "number" /\ Skipped.key = NoKey
    BY <1>1 DEF Skipped
  <2>2. ASSUME NEW f \in Compacts
        PROVE  /\ f.kind \in {"number", "compact"}
               /\ f.key # NoKey => f.key \notin {"freespace", "currentplayers"}
    <3>1. PICK key \in {NoKey, "hostname", "mapname", "gametype", "botlevel"} : f = Field(key, "compact")
      OBVIOUS
    <3>2. f.kind = "compact" /\ f.key = key
      BY <1>1, <3>1
    <3> QED
      BY <3>1, <3>2
  <2>3. ASSUME NEW f \in Numbers
        PROVE  /\ f.kind \in {"number", "compact"}
               /\ f.key # NoKey => f.key \notin {"freespace", "currentplayers"}
    <3>1. f.kind = "number" /\ f.key \in {NoKey, "numplayers", "maxplayers"}
      BY <1>1, <2>1
    <3> QED
      BY <3>1
  <2> QED
    BY <2>2, <2>3
<1>3. PICK s, nk, h, m, g, b, np, mp :
        /\ s = Skipped /\ nk = Field(NoKey, "compact") /\ h = Field("hostname", "compact")
        /\ m = Field("mapname", "compact") /\ g = Field("gametype", "compact")
        /\ b = Field("botlevel", "compact")
        /\ np = Field("numplayers", "number") /\ mp = Field("maxplayers", "number")
  OBVIOUS
<1>4. /\ s \in S /\ nk \in S /\ h \in S /\ m \in S /\ g \in S /\ b \in S
      /\ np \in S /\ mp \in S /\ s.kind = "number"
  BY <1>1, <1>3 DEF Skipped
<1> HIDE DEF S
<1>5. PICK most, more : /\ most = <<s, s, s, nk, s, s, h, m, g, np, mp, s>>
                        /\ more = IF version = UT2004_VERSION THEN <<s, b>> ELSE <<>>
  OBVIOUS
<1>6. most \in Seq(S) /\ more \in Seq(S) /\ Len(most) = 12 /\ most[1] = s /\ most[2] = s
  BY <1>4, <1>5
<1>7. fields = most \o more
  BY <1>3, <1>5 DEF UT2KFields
<1>8. /\ fields \in Seq(S) /\ Len(fields) = Len(most) + Len(more) /\ Len(more) \in Nat
      /\ \A i \in 1..Len(most) + Len(more) : fields[i] = IF i <= Len(most) THEN most[i] ELSE more[i - Len(most)]
  <2>1. most \o more \in Seq(S) /\ Len(most \o more) = Len(most) + Len(more)
    BY <1>6, ConcatProperties
  <2>2. \A i \in 1..Len(most) + Len(more) :
          (most \o more)[i] = IF i <= Len(most) THEN most[i] ELSE more[i - Len(most)]
    BY <1>6, ConcatProperties
  <2>3. Len(more) \in Nat
    BY <1>6, LenProperties
  <2> QED
    BY <1>7, <2>1, <2>2, <2>3
<1>9. Len(fields) \in Nat /\ Len(fields) >= 2 /\ \A i \in 1..Len(fields) : fields[i] \in S
  BY <1>6, <1>8, ElementOfSeq
<1>10. fields[1] = s /\ fields[2] = s
  <2>1. 1 \in 1..Len(most) + Len(more) /\ 2 \in 1..Len(most) + Len(more) /\ 1 <= 12 /\ 2 <= 12
    BY <1>6, <1>8
  <2> QED
    BY <1>6, <1>8, <2>1
<1> QED
  BY <1>2, <1>4, <1>9, <1>10

-----------------------------------------------------------------------------
(* The fields of UT2K and SAMP.                                            *)

FieldsOf(fields, b, g) ==
  g = [j \in 0..Len(fields) |->
         IF j = 0 THEN [ok |-> TRUE, at |-> 1, props |-> <<>>]
                  ELSE ReadField(g[j - 1], fields[j], b)]

LEMMA FieldsValue ==
  ASSUME NEW fields, NEW b
  PROVE  ReadFields(fields, b) = (CHOOSE g : FieldsOf(fields, b, g))[Len(fields)]
BY DEF ReadFields, FieldsOf

LEMMA FieldsExist ==
  ASSUME NEW fields, Len(fields) \in Nat, NEW b
  PROVE  \E g : FieldsOf(fields, b, g)
<1>1. PICK L \in Nat : L = Len(fields)
  OBVIOUS
<1> DEFINE D == 0..L
           Start == [ok |-> TRUE, at |-> 1, props |-> <<>>]
           NextState(m, n) == ReadField(m, fields[n], b)
           Value(g, n) == IF n = 0 THEN Start ELSE NextState(g[n - 1], n)
           Upto(k, g) == g = [n \in D |-> g[n]] /\ \A n \in 0..k - 1 : g[n] = Value(g, n)
           T == {k \in 1..L + 1 : \E g : Upto(k, g)}
<1> HIDE DEF NextState, Start
<1>2. 1 \in T
  <2>1. PICK g : g = [n \in D |-> Start]
    OBVIOUS
  <2>2. Upto(1, g)
    BY <2>1
  <2> QED
    BY <2>2
<1>3. ASSUME NEW k \in 1..L, k \in T
      PROVE  k + 1 \in T
  <2>1. PICK g : Upto(k, g)
    BY <1>3
  <2>2. PICK v : v = NextState(g[k - 1], k)
    OBVIOUS
  <2>3. PICK h : h = [n \in D |-> IF n = k THEN v ELSE g[n]]
    OBVIOUS
  <2>4. ASSUME NEW n \in 0..k + 1 - 1
        PROVE  h[n] = Value(h, n)
    <3>1. CASE n = 0
      <4>1. 0 \in D /\ 0 # k /\ 0 \in 0..k - 1
        OBVIOUS
      <4>2. g[0] = Start
        BY <2>1, <4>1
      <4>3. h[0] = g[0]
        BY <2>3, <4>1
      <4> QED
        BY <3>1, <4>2, <4>3
    <3>2. CASE n # 0 /\ n # k
      <4>1. n \in D /\ n - 1 \in D /\ n - 1 # k /\ n \in 0..k - 1
        BY <3>2
      <4>2. g[n] = NextState(g[n - 1], n)
        BY <2>1, <3>2, <4>1
      <4>3. h[n] = g[n] /\ h[n - 1] = g[n - 1]
        BY <2>3, <3>2, <4>1
      <4> QED
        BY <3>2, <4>2, <4>3
    <3>3. CASE n = k
      <4>1. n \in D /\ n - 1 \in D /\ n - 1 # k /\ n # 0
        BY <3>3
      <4>2. h[n] = v /\ h[n - 1] = g[n - 1]
        BY <2>3, <3>3, <4>1
      <4> QED
        BY <2>2, <3>3, <4>1, <4>2
    <3> QED
      BY <3>1, <3>2, <3>3
  <2>5. Upto(k + 1, h)
    <3>1. h = [n \in D |-> h[n]]
      BY <2>3
    <3> HIDE DEF Value
    <3> QED
      BY <2>4, <3>1
  <2>6. k + 1 \in 1..L + 1
    OBVIOUS
  <2> QED
    BY <2>5, <2>6
<1>4. L + 1 \in T
  <2>1. PICK N \in Nat : N = L + 1
    OBVIOUS
  <2> HIDE DEF T
  <2>2. 1 \in T /\ \A k \in 1..N - 1 : k \in T => k + 1 \in T
    BY <1>2, <1>3, <2>1
  <2>3. \A k \in 1..N : k \in T
    BY <2>2, InductionTo
  <2>4. N \in 1..N
    BY <2>1
  <2> QED
    BY <2>1, <2>3, <2>4
<1>5. PICK g : Upto(L + 1, g)
  BY <1>4
<1>6. 0..L + 1 - 1 = D
  OBVIOUS
<1>7. \A n \in D : g[n] = Value(g, n)
  <2> HIDE DEF Value
  <2> QED
    BY <1>5, <1>6
<1>8. g = [n \in D |-> Value(g, n)]
  BY <1>5, <1>7
<1> QED
  BY <1>1, <1>8 DEF FieldsOf, NextState, Start

(* A field on the wire, and what is kept of it.                            *)
Shown(kind, value) == IF kind = "compact" THEN Plain(value) ELSE value

LEMMA FieldSent ==
  ASSUME NEW kind, NEW value, FieldValue(kind, value)
  PROVE  /\ IsSequence(Encoded(kind, value)) /\ Len(Encoded(kind, value)) >= 1
         /\ Len(Encoded(kind, value)) \in Nat
         /\ kind = "number" => Encoded(kind, value) = <<value>>
<1>1. IsSequence(Encoded(kind, value)) /\ Len(Encoded(kind, value)) \in Nat
  <2>1. Encoded(kind, value) \in Seq(Bytes)
    BY FieldType
  <2> QED
    BY <2>1, SequenceOf, LenProperties
<1>2. CASE kind = "number"
  <2>1. Encoded(kind, value) = <<value>>
    BY <1>2 DEF Encoded
  <2>2. PICK e : e = <<value>>
    OBVIOUS
  <2>3. Len(e) = 1
    BY <2>2, OneSymbol
  <2> QED
    BY <1>1, <2>1, <2>2, <2>3
<1>3. CASE kind = "counted"
  <2>1. PICK h : h = <<Len(value)>>
    OBVIOUS
  <2>2. IsSequence(h) /\ Len(h) = 1
    BY <2>1, OneSymbol
  <2>3. IsSequence(value)
    BY <1>3, SequenceOf DEF FieldValue
  <2>4. Len(h \o value) = Len(h) + Len(value) /\ Len(value) \in Nat
    BY <2>2, <2>3, ConcatSequences
  <2>5. Encoded(kind, value) = h \o value
    BY <1>3, <2>1 DEF Encoded
  <2>6. kind # "number"
    BY <1>3
  <2> QED
    BY <1>1, <2>2, <2>4, <2>5, <2>6
<1>4. CASE kind = "compact"
  <2>1. PICK r, N : r = Raw(value) /\ N = Len(r) + 1
    OBVIOUS
  <2>2. r \in Seq(Bytes)
    BY <1>4, <2>1, RawType DEF FieldValue
  <2>3. N \in Nat /\ IsSequence(r)
    BY <2>1, <2>2, LenProperties, SequenceOf
  <2>4. PICK c, z : c = Compact(N) /\ z = <<0>>
    OBVIOUS
  <2>5. IsSequence(c) /\ Len(c) \in Nat /\ Len(c) >= 1
    BY <2>3, <2>4, CompactBytes, SequenceOf
  <2>6. IsSequence(z) /\ Len(z) = 1
    BY <2>4, OneSymbol
  <2>7. IsSequence(c \o r) /\ Len(c \o r) = Len(c) + Len(r) /\ Len(r) \in Nat
    BY <2>3, <2>5, ConcatSequences
  <2>8. PICK cr : cr = c \o r
    OBVIOUS
  <2>9. Len(cr \o z) = Len(cr) + Len(z)
    BY <2>6, <2>7, <2>8, ConcatSequences
  <2>10. Encoded(kind, value) = cr \o z
    BY <1>4, <2>1, <2>4, <2>8 DEF Encoded
  <2>11. kind # "number"
    BY <1>4
  <2> QED
    BY <1>1, <2>5, <2>6, <2>7, <2>8, <2>9, <2>10, <2>11
<1> QED
  BY <1>2, <1>3, <1>4 DEF FieldValue

LEMMA FieldRead ==
  ASSUME NEW kind, NEW value, FieldValue(kind, value),
         NEW b, NEW at, NEW len \in Nat, len <= BufLen, NEW y, IsSequence(y),
         View(b, at, len, Encoded(kind, value) \o y)
  PROVE  /\ Read(kind, b, at) = Got(Shown(kind, value), at + Len(Encoded(kind, value)))
         /\ View(b, at + Len(Encoded(kind, value)), len, y)
<1>1. PICK e : e = Encoded(kind, value)
  OBVIOUS
<1>2. IsSequence(e) /\ Len(e) >= 1 /\ Len(e) \in Nat
  BY <1>1, FieldSent
<1>3. View(b, at, len, e \o y)
  BY <1>1
<1>4. /\ at \in Nat \ {0} /\ Len(e) \in Nat
      /\ at + Len(e) <= len + 1
      /\ \A i \in 1..Len(e) : b[at + i - 1] = e[i]
      /\ View(b, at + Len(e), len, y)
  BY ONLY <1>2, <1>3, len \in Nat, IsSequence(y), ViewCut
<1>5. BufLen \in Nat
  BY ResponsesAssumption
<1>6. b[at] = e[1] /\ at <= BufLen
  <2>1. 1 \in 1..Len(e) /\ at + 1 - 1 = at
    BY <1>2, <1>4
  <2> QED
    BY <1>2, <1>4, <1>5, <2>1
<1>7. CASE kind = "number"
  <2>1. e = <<value>>
    BY <1>1, <1>7, FieldSent
  <2>2. Len(e) = 1 /\ e[1] = value
    BY <2>1, OneSymbol
  <2>3. Read(kind, b, at) = Got(b[at], at + 1)
    BY <1>6, <1>7 DEF Read, ReadNumber
  <2>4. Read(kind, b, at) = Got(value, at + Len(e))
    BY <1>6, <2>2, <2>3
  <2>5. Shown(kind, value) = value
    BY <1>7 DEF Shown
  <2> QED
    BY <1>1, <1>4, <2>4, <2>5
<1>8. CASE kind = "counted"
  <2>1. PICK h : h = <<Len(value)>>
    OBVIOUS
  <2>2. IsSequence(h) /\ Len(h) = 1 /\ h[1] = Len(value)
    BY <2>1, OneSymbol
  <2>3. IsSequence(value)
    BY <1>8, SequenceOf DEF FieldValue
  <2>4. e = h \o value
    BY <1>1, <1>8, <2>1 DEF Encoded
  <2>5. /\ IsSequence(h \o value) /\ Len(h \o value) = Len(h) + Len(value)
        /\ Len(h) \in Nat /\ Len(value) \in Nat
        /\ \A i \in 1..Len(h) + Len(value) :
             (h \o value)[i] = IF i <= Len(h) THEN h[i] ELSE value[i - Len(h)]
    BY <2>2, <2>3, ConcatSequences
  <2>6. PICK m \in Nat : m = Len(value)
    BY <2>5
  <2>7. Len(e) = m + 1 /\ e[1] = m /\ \A i \in 1..m : e[i + 1] = value[i]
    <3>1. \A i \in 1..m + 1 : e[i] = IF i <= 1 THEN h[i] ELSE value[i - 1]
      BY <2>2, <2>4, <2>5, <2>6
    <3>2. \A i \in 1..m : i + 1 \in 1..m + 1 /\ ~(i + 1 <= 1) /\ (i + 1) - 1 = i
      OBVIOUS
    <3>3. e[1] = m
      BY <2>2, <2>6, <3>1
    <3>4. Len(e) = m + 1
      BY <2>2, <2>4, <2>5, <2>6
    <3> QED
      BY <3>1, <3>2, <3>3, <3>4
  <2>8. b[at] = m /\ ~(at > BufLen \/ at + m > BufLen)
    BY <1>4, <1>5, <1>6, <2>7
  <2>9. PICK c : c = SubSeq(b, at + 1, at + m)
    OBVIOUS
  <2>10. Read(kind, b, at) = Got(c, at + m + 1)
    BY <1>8, <2>8, <2>9 DEF Read, ReadCounted
  <2>11. c = value
    <3> DEFINE S == {b[i] : i \in at + 1..at + m}
    <3>1. \A i \in at + 1..at + m : b[i] \in S
      OBVIOUS
    <3> HIDE DEF S
    <3>2. PICK p \in Int, q \in Int : p = at + 1 /\ q = at + m
      BY <1>4
    <3>3. \A i \in p..q : b[i] \in S
      BY <3>1, <3>2
    <3>4. /\ SubSeq(b, p, q) \in Seq(S)
          /\ Len(SubSeq(b, p, q)) = IF p <= q THEN q - p + 1 ELSE 0
          /\ \A i \in 1..q - p + 1 : SubSeq(b, p, q)[i] = b[p + i - 1]
      BY <3>3, SubSeqProperties
    <3>5. c = SubSeq(b, p, q)
      BY <2>9, <3>2
    <3>6. IsSequence(c) /\ Len(c) = m
      <4>1. Len(c) = m
        BY <1>4, <3>2, <3>4, <3>5
      <4> QED
        BY <3>4, <3>5, <4>1, SequenceOf
    <3>7. \A i \in 1..m : c[i] = value[i]
      <4> TAKE i \in 1..m
      <4>1. i \in 1..q - p + 1 /\ p + i - 1 = at + (i + 1) - 1 /\ i + 1 \in 1..m + 1
        BY <1>4, <3>2
      <4>2. c[i] = b[at + (i + 1) - 1]
        BY <3>4, <3>5, <4>1
      <4>3. b[at + (i + 1) - 1] = e[i + 1]
        BY <1>4, <2>7, <4>1
      <4> QED
        BY <2>7, <4>2, <4>3
    <3>8. \A i \in 1..Len(c) : c[i] = value[i]
      BY <3>6, <3>7
    <3> QED
      BY <2>3, <2>6, <3>6, <3>8, SequencesEqual
  <2>12. at + m + 1 = at + Len(e)
    BY <1>4, <2>7
  <2>13. Read(kind, b, at) = Got(value, at + Len(e))
    BY <2>10, <2>11, <2>12
  <2>14. Shown(kind, value) = value
    BY <1>8 DEF Shown
  <2> QED
    BY <1>1, <1>4, <2>13, <2>14
<1>9. CASE kind = "compact"
  <2>1. /\ value \in Seq(Bytes) /\ \A c \in ToSet(value) : c # 0
        /\ len \in Nat /\ len <= BufLen /\ IsSequence(y)
        /\ View(b, at, len, Encoded("compact", value) \o y)
    BY <1>9 DEF FieldValue
  <2>2. ReadCompactString(b, at) = Got(Plain(value), at + Len(Encoded("compact", value)))
    BY ONLY <2>1, StringRead
  <2>3. Read(kind, b, at) = ReadCompactString(b, at)
    BY <1>9 DEF Read
  <2>4. Shown(kind, value) = Plain(value)
    BY <1>9 DEF Shown
  <2> QED
    BY <1>1, <1>4, <1>9, <2>2, <2>3, <2>4
<1> QED
  BY <1>7, <1>8, <1>9 DEF FieldValue

LEMMA FieldTaken ==
  ASSUME NEW a, NEW p, NEW field, NEW b, NEW value, NEW n, Read(field.kind, b, a) = Got(value, n)
  PROVE  ReadField([ok |-> TRUE, at |-> a, props |-> p], field, b)
           = [ok |-> TRUE, at |-> n, props |-> IF field.key = NoKey THEN p ELSE Set(p, field.key, value)]
<1>1. PICK s : s = [ok |-> TRUE, at |-> a, props |-> p]
  OBVIOUS
<1>2. PICK r : r = Got(value, n)
  OBVIOUS
<1>3. r.ok = TRUE /\ r.value = value /\ r.at = n
  BY <1>2 DEF Got
<1>4. s.ok = TRUE /\ s.at = a /\ s.props = p
  BY <1>1
<1>5. Read(field.kind, b, s.at) = r
  BY <1>2, <1>4
<1>6. ReadField(s, field, b)
        = [ok |-> TRUE, at |-> r.at,
           props |-> IF field.key = NoKey THEN s.props ELSE Set(s.props, field.key, r.value)]
  BY <1>3, <1>4, <1>5, Zenon DEF ReadField
<1> QED
  BY <1>1, <1>3, <1>4, <1>6

(* An answer that has the fields, its parts on the wire, and its keys with *)
(* what is kept of their values.                                           *)
HasFields(fields, answer) ==
  /\ Len(fields) \in Nat /\ Len(fields) >= 2 /\ Len(answer) = Len(fields)
  /\ \A i \in 1..Len(fields) : FieldValue(fields[i].kind, answer[i])
  /\ fields[1].kind = "number" /\ fields[2].kind = "number"

FieldParts(fields, answer) == [i \in 1..Len(fields) |-> Encoded(fields[i].kind, answer[i])]
FieldPairs(fields, answer) ==
  [i \in 1..Len(fields) |-> <<fields[i].key, Shown(fields[i].kind, answer[i])>>]

(* n parts, the first two of them one byte each.                           *)
PartsOf(M, n, answer) ==
  /\ n \in Nat /\ n >= 2
  /\ \A i \in 1..n : IsSequence(M[i]) /\ Len(M[i]) \in Nat /\ Len(M[i]) >= 1
  /\ M[1] = <<answer[1]>> /\ M[2] = <<answer[2]>>
  /\ \A k \in 0..n : IsSequence(Behind(M, k))
  /\ \A k \in 0..n : k < n => Behind(M, k) = M[k + 1] \o Behind(M, k + 1)
  /\ Behind(M, 0) = FlattenSeq(M)

LEMMA PartsBehind ==
  ASSUME NEW fields, NEW answer, HasFields(fields, answer)
  PROVE  PartsOf(FieldParts(fields, answer), Len(fields), answer)
<1>0. PICK n, M : n = Len(fields) /\ M = FieldParts(fields, answer)
  OBVIOUS
<1>1. n \in Nat /\ n >= 2 /\ \A i \in 1..n : FieldValue(fields[i].kind, answer[i])
  BY <1>0 DEF HasFields
<1>2. M = [i \in 1..n |-> M[i]] /\ \A i \in 1..n : M[i] = Encoded(fields[i].kind, answer[i])
  BY <1>0 DEF FieldParts
<1>3. ASSUME NEW i \in 1..n
      PROVE  /\ IsSequence(M[i]) /\ Len(M[i]) \in Nat /\ Len(M[i]) >= 1
             /\ fields[i].kind = "number" => M[i] = <<answer[i]>>
  <2>1. PICK kind, value : kind = fields[i].kind /\ value = answer[i]
    OBVIOUS
  <2>2. FieldValue(kind, value) /\ M[i] = Encoded(kind, value)
    BY <1>1, <1>2, <2>1
  <2>3. /\ IsSequence(Encoded(kind, value)) /\ Len(Encoded(kind, value)) >= 1
        /\ Len(Encoded(kind, value)) \in Nat
        /\ kind = "number" => Encoded(kind, value) = <<value>>
    BY <2>2, FieldSent
  <2> QED
    BY <2>1, <2>2, <2>3
<1>4. M[1] = <<answer[1]>> /\ M[2] = <<answer[2]>>
  <2>1. 1 \in 1..n /\ 2 \in 1..n
    BY <1>1
  <2>2. fields[1].kind = "number" /\ fields[2].kind = "number"
    BY DEF HasFields
  <2> QED
    BY <1>3, <2>1, <2>2
<1>5. /\ \A k \in 0..n : IsSequence(Behind(M, k))
      /\ \A k \in 0..n : k < n => Behind(M, k) = M[k + 1] \o Behind(M, k + 1)
      /\ Behind(M, 0) = FlattenSeq(M)
  <2>1. \A i \in 1..n : IsSequence(M[i])
    BY <1>3
  <2> QED
    BY <1>1, <1>2, <2>1, BehindFacts
<1> QED
  BY <1>0, <1>1, <1>3, <1>4, <1>5 DEF PartsOf

State(a, p) == [ok |-> TRUE, at |-> a, props |-> p]

(* The fields of a whole answer are read in the same way in two buffers    *)
(* that both begin with it.                                                *)
ReadAlike(fields, answer, f, g) ==
  \E a, p : /\ f[Len(fields)] = State(a, p) /\ g[Len(fields)] = State(a, p)
            /\ RightUpto(p, FieldPairs(fields, answer), {NoKey}, Len(fields))

LEMMA FieldsRead ==
  ASSUME NEW fields, NEW answer, HasFields(fields, answer),
         NEW len \in Nat, len <= BufLen,
         NEW b, NEW c, View(b, 1, len, Behind(FieldParts(fields, answer), 0)),
         View(c, 1, len, Behind(FieldParts(fields, answer), 0)),
         NEW f, NEW g, FieldsOf(fields, b, f), FieldsOf(fields, c, g)
  PROVE  ReadAlike(fields, answer, f, g)
<1>0. PICK n \in Nat : n = Len(fields)
  BY DEF HasFields
<1>1. PICK M, pr : M = FieldParts(fields, answer) /\ pr = FieldPairs(fields, answer)
  OBVIOUS
<1>2. /\ n \in Nat /\ n >= 2
      /\ \A k \in 0..n : IsSequence(Behind(M, k))
      /\ \A k \in 0..n : k < n => Behind(M, k) = M[k + 1] \o Behind(M, k + 1)
      /\ Behind(M, 0) = FlattenSeq(M)
  BY <1>0, <1>1, PartsBehind DEF PartsOf
<1>3. ASSUME NEW buffer, NEW h, FieldsOf(fields, buffer, h)
      PROVE  /\ h[0] = State(1, <<>>)
             /\ \A j \in 1..n : h[j] = ReadField(h[j - 1], fields[j], buffer)
  <2>1. h = [j \in 0..n |->
         IF j = 0 THEN [ok |-> TRUE, at |-> 1, props |-> <<>>]
                  ELSE ReadField(h[j - 1], fields[j], buffer)]
    BY <1>0, <1>3 DEF FieldsOf
  <2>2. h[0] = State(1, <<>>)
    BY <2>1 DEF State
  <2>3. ASSUME NEW j \in 1..n
        PROVE  h[j] = ReadField(h[j - 1], fields[j], buffer)
    <3>1. j \in 0..n /\ j # 0
      OBVIOUS
    <3> QED
      BY <2>1, <3>1, Zenon
  <2> QED
    BY <2>2, <2>3
<1>4. /\ f[0] = State(1, <<>>) /\ g[0] = State(1, <<>>)
      /\ \A j \in 1..n : f[j] = ReadField(f[j - 1], fields[j], b)
      /\ \A j \in 1..n : g[j] = ReadField(g[j - 1], fields[j], c)
  BY <1>3
<1> DEFINE At(k, a, p) == /\ f[k] = State(a, p) /\ g[k] = State(a, p)
                          /\ View(b, a, len, Behind(M, k)) /\ View(c, a, len, Behind(M, k))
                          /\ RightUpto(p, pr, {NoKey}, k)
           T == {j \in 1..n + 1 : \E a, p : At(j - 1, a, p)}
<1>5. 1 \in T
  <2>1. PICK e : e = <<>>
    OBVIOUS
  <2>2. DOMAIN e = {}
    BY <2>1
  <2>3. RightUpto(e, pr, {NoKey}, 0)
    BY <2>2 DEF RightUpto
  <2>4. At(0, 1, e)
    BY <1>1, <1>4, <2>1, <2>3
  <2>5. 1 - 1 = 0 /\ 1 \in 1..n + 1
    OBVIOUS
  <2> HIDE DEF At
  <2> QED
    BY <2>4, <2>5
<1>6. ASSUME NEW j \in 1..n, j \in T
      PROVE  j + 1 \in T
  <2>1. PICK k \in Nat : k = j - 1
    OBVIOUS
  <2>2. k \in 0..n /\ k < n /\ k + 1 = j /\ j \in 1..n /\ (j + 1) - 1 = j /\ j + 1 \in 1..n + 1
    BY <2>1
  <2>3. PICK a, p : At(k, a, p)
    <3> HIDE DEF At
    <3> QED
      BY <1>6, <2>1
  <2>4. PICK kind, value, key, kept :
          /\ kind = fields[j].kind /\ value = answer[j] /\ key = fields[j].key
          /\ kept = Shown(kind, value)
    OBVIOUS
  <2>5. PICK y : y = Behind(M, j)
    OBVIOUS
  <2>6. IsSequence(y)
    BY <1>2, <2>2, <2>5
  <2>7. FieldValue(kind, value)
    BY <1>0, <2>2, <2>4 DEF HasFields
  <2>8. M[j] = Encoded(kind, value)
    BY <1>0, <1>1, <2>2, <2>4 DEF FieldParts
  <2>9. Behind(M, k) = Encoded(kind, value) \o y
    BY <1>2, <2>2, <2>5, <2>8
  <2>10. View(b, a, len, Encoded(kind, value) \o y) /\ View(c, a, len, Encoded(kind, value) \o y)
    BY <2>3, <2>9
  <2>11. PICK past : past = a + Len(Encoded(kind, value))
    OBVIOUS
  <2>12. /\ Read(kind, b, a) = Got(Shown(kind, value), a + Len(Encoded(kind, value)))
         /\ View(b, a + Len(Encoded(kind, value)), len, y)
    BY <2>6, <2>7, <2>10, FieldRead
  <2>13. /\ Read(kind, c, a) = Got(Shown(kind, value), a + Len(Encoded(kind, value)))
         /\ View(c, a + Len(Encoded(kind, value)), len, y)
    BY <2>6, <2>7, <2>10, FieldRead
  <2>14. Read(kind, b, a) = Got(kept, past) /\ Read(kind, c, a) = Got(kept, past)
    BY <2>4, <2>11, <2>12, <2>13
  <2>15. PICK field : field = fields[j]
    OBVIOUS
  <2>16. Read(field.kind, b, a) = Got(kept, past) /\ Read(field.kind, c, a) = Got(kept, past)
    BY <2>4, <2>14, <2>15
  <2>17. PICK q : q = IF field.key = NoKey THEN p ELSE Set(p, field.key, kept)
    OBVIOUS
  <2>18. ReadField([ok |-> TRUE, at |-> a, props |-> p], field, b)
           = [ok |-> TRUE, at |-> past, props |-> IF field.key = NoKey THEN p ELSE Set(p, field.key, kept)]
    BY ONLY <2>16, FieldTaken
  <2>19. ReadField([ok |-> TRUE, at |-> a, props |-> p], field, c)
           = [ok |-> TRUE, at |-> past, props |-> IF field.key = NoKey THEN p ELSE Set(p, field.key, kept)]
    BY ONLY <2>16, FieldTaken
  <2>20. f[j] = State(past, q)
    <3>1. f[j] = ReadField(State(a, p), field, b)
      BY <1>4, <2>1, <2>2, <2>3, <2>15
    <3> QED
      BY <2>17, <2>18, <3>1 DEF State
  <2>21. g[j] = State(past, q)
    <3>1. g[j] = ReadField(State(a, p), field, c)
      BY <1>4, <2>1, <2>2, <2>3, <2>15
    <3> QED
      BY <2>17, <2>19, <3>1 DEF State
  <2>22. RightUpto(q, pr, {NoKey}, k + 1)
    <3>1. pr[k + 1] = <<key, kept>>
      BY <1>0, <1>1, <2>2, <2>4 DEF FieldPairs
    <3>2. pr[k + 1][1] = key /\ pr[k + 1][2] = kept
      BY <3>1
    <3>3. RightUpto(p, pr, {NoKey}, k)
      BY <2>3
    <3>4. PICK skip : skip = {NoKey}
      OBVIOUS
    <3>5. RightUpto(p, pr, skip, k)
      BY <3>3, <3>4
    <3>6. CASE key = NoKey
      <4>1. pr[k + 1][1] \in skip
        BY <3>2, <3>4, <3>6
      <4>2. RightUpto(p, pr, skip, k + 1)
        BY <3>5, <4>1, RightKept
      <4>3. q = p
        BY <2>4, <2>15, <2>17, <3>6
      <4> QED
        BY <3>4, <4>2, <4>3
    <3>7. CASE key # NoKey
      <4>1. pr[k + 1][1] \notin skip
        BY <3>2, <3>4, <3>7
      <4>2. RightUpto(Set(p, pr[k + 1][1], pr[k + 1][2]), pr, skip, k + 1)
        BY <3>5, <4>1, RightAdded
      <4>3. q = Set(p, pr[k + 1][1], pr[k + 1][2])
        BY <2>4, <2>15, <2>17, <3>2, <3>7
      <4> QED
        BY <3>4, <4>2, <4>3
    <3> QED
      BY <3>6, <3>7
  <2>23. View(b, past, len, Behind(M, j)) /\ View(c, past, len, Behind(M, j))
    BY <2>5, <2>11, <2>12, <2>13
  <2>24. At(j, past, q)
    BY <2>2, <2>20, <2>21, <2>22, <2>23
  <2> HIDE DEF At
  <2> QED
    BY <2>2, <2>24
<1>7. n + 1 \in T
  <2>1. PICK N \in Nat : N = n + 1
    OBVIOUS
  <2> HIDE DEF T
  <2>2. 1 \in T /\ \A k \in 1..N - 1 : k \in T => k + 1 \in T
    BY <1>5, <1>6, <2>1
  <2>3. \A k \in 1..N : k \in T
    BY <2>2, InductionTo
  <2>4. N \in 1..N
    BY <2>1
  <2> QED
    BY <2>1, <2>3, <2>4
<1>8. PICK a, p : At(n, a, p)
  <2>1. n + 1 - 1 = n
    OBVIOUS
  <2> HIDE DEF At
  <2> QED
    BY <1>7, <2>1
<1> QED
  BY <1>0, <1>1, <1>8 DEF ReadAlike

-----------------------------------------------------------------------------
(* The outcome of UT2K and SAMP, in terms of the fields of an answer.      *)

AnswerFields(kind, answer) == IF kind = "ut2k" THEN UT2KFields(answer[1]) ELSE SAMPFields

LEMMA SAMPFieldFacts ==
  /\ Len(SAMPFields) = 8
  /\ \A i \in 1..8 : SAMPFields[i].kind \in {"number", "counted"}
  /\ SAMPFields[1].kind = "number" /\ SAMPFields[2].kind = "number"
<1>1. PICK n, c : n = "number" /\ c = "counted"
  OBVIOUS
<1>2. \A key, kind : Field(key, kind).kind = kind
  BY DEF Field
<1>3. Skipped.kind = n
  BY <1>1, <1>2 DEF Skipped
<1> QED
  BY <1>1, <1>2, <1>3 DEF SAMPFields

(* Every answer of UT2K or SAMP has its fields.                            *)
LEMMA AnswerHasFields ==
  ASSUME NEW kind \in {"ut2k", "samp"}, kind \in DOMAIN Answers, NEW answer \in Answers[kind]
  PROVE  HasFields(AnswerFields(kind, answer), answer)
<1>1. PICK fields : fields = AnswerFields(kind, answer)
  OBVIOUS
<1>2. fields = IF kind = "ut2k" THEN UT2KFields(answer[1]) ELSE SAMPFields
  BY <1>1 DEF AnswerFields
<1>3. /\ Len(answer) = Len(fields)
      /\ \A i \in 1..Len(fields) :
           /\ fields[i].kind = "number" => answer[i] \in Bytes
           /\ fields[i].kind # "number" => answer[i] \in Seq(Bytes)
           /\ fields[i].kind = "counted" => Len(answer[i]) \in Bytes
           /\ fields[i].kind = "compact" => \A c \in ToSet(answer[i]) : c # 0
  <2>1. kind \in DOMAIN Answers \cap {"ut2k", "samp"}
    OBVIOUS
  <2> QED
    BY <1>2, <2>1, AnswersAssumption DEF Bytes
<1>4. /\ Len(fields) \in Nat /\ Len(fields) >= 2
      /\ \A i \in 1..Len(fields) : fields[i].kind \in {"number", "compact", "counted"}
      /\ fields[1].kind = "number" /\ fields[2].kind = "number"
  <2>1. CASE kind = "ut2k"
    <3>1. fields = UT2KFields(answer[1])
      BY <1>2, <2>1
    <3> QED
      BY <3>1, UT2KFieldKinds
  <2>2. CASE kind = "samp"
    <3>1. fields = SAMPFields
      BY <1>2, <2>2
    <3> QED
      BY <3>1, SAMPFieldFacts
  <2> QED
    BY <2>1, <2>2
<1>5. \A i \in 1..Len(fields) : FieldValue(fields[i].kind, answer[i])
  BY <1>3, <1>4 DEF FieldValue
<1> QED
  BY <1>1, <1>3, <1>4, <1>5 DEF HasFields

-----------------------------------------------------------------------------
(* What the listener of UT2K or SAMP makes of the fields.                  *)

EngineFields(e) == IF e.kind = "ut2k" THEN UT2KFields(e.version_id) ELSE SAMPFields

(* The engine has a handler, and the first bytes are those it waits for.   *)
Expects(e, t) ==
  /\ e.outputHandler
  /\ IF e.kind = "ut2k" THEN t[1] = e.version_id /\ t[2] = 0 ELSE t[1] = Magic

Adapted(kind, p) ==
  IF kind = "ut2k" THEN WithFreespace(p) ELSE [p EXCEPT !.password = IF @ = 0 THEN 0 ELSE 1]

FieldsMade(e, b, len) ==
  IF e.kind = "ut2k" /\ len = BufLen THEN Panic
  ELSE IF (e.kind = "samp" /\ len < 2) \/ ~Expects(e, b) THEN Ignored
  ELSE IF ReadFields(EngineFields(e), b).ok
    THEN Published(Adapted(e.kind, ReadFields(EngineFields(e), b).props))
    ELSE Panic

LEMMA FieldsOutcome ==
  ASSUME engine.kind \in {"ut2k", "samp"}, NEW b, NEW len
  PROVE  Outcome(b, len) = FieldsMade(engine, b, len)
<1>1. CASE engine.kind = "ut2k"
  <2>1. Outcome(b, len) = UT2KOutcome(b, len)
    BY <1>1 DEF Outcome
  <2>2. EngineFields(engine) = UT2KFields(engine.version_id) /\ engine.kind # "samp"
    BY <1>1 DEF EngineFields
  <2>3. \A p : Adapted(engine.kind, p) = WithFreespace(p)
    BY <1>1 DEF Adapted
  <2>4. Expects(engine, b) <=> ~(~engine.outputHandler \/ b[1] # engine.version_id \/ b[2] # 0)
    BY <1>1 DEF Expects
  <2>5. PICK s : s = ReadFields(UT2KFields(engine.version_id), b)
    OBVIOUS
  <2>6. UT2KOutcome(b, len) =
          IF len = BufLen THEN Panic
          ELSE IF ~engine.outputHandler \/ b[1] # engine.version_id \/ b[2] # 0 THEN Ignored
          ELSE IF s.ok THEN Published(WithFreespace(s.props)) ELSE Panic
    BY <2>5 DEF UT2KOutcome
  <2>7. FieldsMade(engine, b, len) =
          IF len = BufLen THEN Panic
          ELSE IF ~Expects(engine, b) THEN Ignored
          ELSE IF s.ok THEN Published(WithFreespace(s.props)) ELSE Panic
    BY <1>1, <2>2, <2>3, <2>5 DEF FieldsMade
  <2> QED
    BY <2>1, <2>4, <2>6, <2>7
<1>2. CASE engine.kind = "samp"
  <2>1. Outcome(b, len) = SAMPOutcome(b, len)
    BY <1>2 DEF Outcome
  <2>2. EngineFields(engine) = SAMPFields /\ engine.kind # "ut2k"
    BY <1>2 DEF EngineFields
  <2>3. \A p : Adapted(engine.kind, p) = [p EXCEPT !.password = IF @ = 0 THEN 0 ELSE 1]
    BY <1>2 DEF Adapted
  <2>4. Expects(engine, b) <=> ~(~engine.outputHandler \/ b[1] # Magic)
    BY <1>2 DEF Expects
  <2>5. PICK s : s = ReadFields(SAMPFields, b)
    OBVIOUS
  <2>6. SAMPOutcome(b, len) =
          IF len < 2 \/ ~engine.outputHandler \/ b[1] # Magic THEN Ignored
          ELSE IF s.ok THEN Published([s.props EXCEPT !.password = IF @ = 0 THEN 0 ELSE 1]) ELSE Panic
    BY <2>5 DEF SAMPOutcome, SAMPMinimum
  <2>7. FieldsMade(engine, b, len) =
          IF len < 2 \/ ~Expects(engine, b) THEN Ignored
          ELSE IF s.ok THEN Published([s.props EXCEPT !.password = IF @ = 0 THEN 0 ELSE 1]) ELSE Panic
    BY <1>2, <2>2, <2>3, <2>5 DEF FieldsMade
  <2> QED
    BY <2>1, <2>4, <2>6, <2>7
<1> QED
  BY <1>1, <1>2

(* Of two buffers that begin with the same whole answer the same is made,  *)
(* and this is what the answer gives.                                      *)
Delivered(e, answer, len, p) ==
  IF e.kind = "ut2k" /\ len = BufLen THEN Panic
  ELSE IF ~Expects(e, answer) THEN Ignored
  ELSE Published(Adapted(e.kind, p))

FieldsAlike(e, answer, b, c, len) ==
  \E p : /\ RightUpto(p, FieldPairs(AnswerFields(e.kind, answer), answer), {NoKey},
                      Len(AnswerFields(e.kind, answer)))
         /\ FieldsMade(e, b, len) = Delivered(e, answer, len, p)
         /\ FieldsMade(e, c, len) = Delivered(e, answer, len, p)

LEMMA WholeView ==
  ASSUME NEW b, NEW bytes, Fits(b, bytes)
  PROVE  View(b, 1, Len(bytes), bytes) /\ Len(bytes) \in Nat /\ Len(bytes) <= BufLen
<1>1. BufLen \in Nat
  BY ResponsesAssumption
<1>2. IsSequence(bytes) /\ Len(bytes) \in 0..BufLen /\ \A i \in 1..Len(bytes) : b[i] = bytes[i]
  BY DEF Fits
<1>3. PICK len \in Nat : len = Len(bytes) /\ len <= BufLen
  BY <1>1, <1>2
<1>4. 1 + len = len + 1 /\ \A i \in 1..len : 1 + i - 1 = i
  OBVIOUS
<1>5. \A i \in 1..len : b[1 + i - 1] = bytes[i]
  BY <1>2, <1>3, <1>4
<1> QED
  BY <1>2, <1>3, <1>4, <1>5 DEF View

LEMMA FirstFields ==
  ASSUME NEW M, NEW n, NEW answer, PartsOf(M, n, answer), NEW bytes, bytes = Behind(M, 0)
  PROVE  /\ IsSequence(bytes) /\ Len(bytes) \in Nat /\ Len(bytes) >= 2
         /\ bytes[1] = answer[1] /\ bytes[2] = answer[2]
<1>1. PICK m1, m2 : m1 = <<answer[1]>> /\ m2 = <<answer[2]>>
  OBVIOUS
<1>2. /\ IsSequence(m1) /\ Len(m1) = 1 /\ m1[1] = answer[1]
      /\ IsSequence(m2) /\ Len(m2) = 1 /\ m2[1] = answer[2]
  BY <1>1, OneSymbol
<1>3. PICK y, z : y = Behind(M, 1) /\ z = Behind(M, 2)
  OBVIOUS
<1>4. /\ n \in Nat /\ n >= 2 /\ M[1] = m1 /\ M[2] = m2
      /\ \A k \in 0..n : IsSequence(Behind(M, k))
      /\ \A k \in 0..n : k < n => Behind(M, k) = M[k + 1] \o Behind(M, k + 1)
  BY <1>1 DEF PartsOf
<1>5. 0 \in 0..n /\ 0 < n /\ 0 + 1 = 1 /\ 1 \in 0..n /\ 1 < n /\ 1 + 1 = 2 /\ 2 \in 0..n
  BY <1>4
<1>6. IsSequence(y) /\ IsSequence(z)
  BY <1>3, <1>4, <1>5
<1>7. bytes = m1 \o y
  <2>1. Behind(M, 0) = M[0 + 1] \o Behind(M, 0 + 1)
    BY <1>4, <1>5
  <2> QED
    BY <1>3, <1>4, <1>5, <2>1
<1>8. y = m2 \o z
  <2>1. Behind(M, 1) = M[1 + 1] \o Behind(M, 1 + 1)
    BY <1>4, <1>5
  <2> QED
    BY <1>3, <1>4, <1>5, <2>1
<1>9. /\ Len(m2 \o z) = Len(m2) + Len(z) /\ Len(z) \in Nat
      /\ \A i \in 1..Len(m2) + Len(z) :
           (m2 \o z)[i] = IF i <= Len(m2) THEN m2[i] ELSE z[i - Len(m2)]
  BY <1>2, <1>6, ConcatSequences
<1>10. /\ IsSequence(m1 \o y) /\ Len(m1 \o y) = Len(m1) + Len(y)
       /\ \A i \in 1..Len(m1) + Len(y) :
            (m1 \o y)[i] = IF i <= Len(m1) THEN m1[i] ELSE y[i - Len(m1)]
  BY <1>2, <1>6, ConcatSequences, Zenon
<1>11. PICK l \in Nat : l = Len(z)
  BY <1>9
<1>12. Len(y) = 1 + l /\ y[1] = answer[2]
  <2>1. 1 \in 1..1 + l
    OBVIOUS
  <2> QED
    BY <1>2, <1>8, <1>9, <1>11, <2>1
<1>13. Len(bytes) = 2 + l /\ \A i \in 1..2 + l : bytes[i] = IF i <= 1 THEN m1[i] ELSE y[i - 1]
  BY <1>2, <1>7, <1>10, <1>12
<1>14. 1 \in 1..2 + l /\ 2 \in 1..2 + l /\ ~(2 <= 1) /\ 2 - 1 = 1
  OBVIOUS
<1>15. bytes[1] = answer[1] /\ bytes[2] = answer[2]
  BY <1>2, <1>12, <1>13, <1>14
<1>16. IsSequence(bytes)
  BY <1>7, <1>10
<1>17. Len(bytes) \in Nat /\ Len(bytes) >= 2
  BY <1>13
<1> QED
  BY <1>15, <1>16, <1>17

-----------------------------------------------------------------------------
(* What the buffer and the last outcome of UT2K and SAMP are.              *)

Sent(e, answer, bytes) ==
  /\ e.kind \in {"ut2k", "samp"} /\ e.kind \in DOMAIN Answers /\ answer \in Answers[e.kind]
  /\ bytes = Behind(FieldParts(AnswerFields(e.kind, answer), answer), 0)

LEMMA FieldsRight ==
  ASSUME NEW e, NEW answer, NEW bytes, Sent(e, answer, bytes),
         NEW b, NEW c, Fits(b, bytes), Fits(c, bytes)
  PROVE  FieldsAlike(e, answer, b, c, Len(bytes))
<1>0. /\ e.kind \in {"ut2k", "samp"} /\ e.kind \in DOMAIN Answers /\ answer \in Answers[e.kind]
      /\ bytes = Behind(FieldParts(AnswerFields(e.kind, answer), answer), 0)
  BY DEF Sent
<1>1. PICK fields, len : fields = AnswerFields(e.kind, answer) /\ len = Len(bytes)
  OBVIOUS
<1>2. PICK n : n = Len(fields)
  OBVIOUS
<1>3. HasFields(fields, answer)
  BY <1>0, <1>1, AnswerHasFields
<1>4. PartsOf(FieldParts(fields, answer), n, answer)
  BY <1>2, <1>3, PartsBehind
<1>5. bytes = Behind(FieldParts(fields, answer), 0)
  BY <1>0, <1>1
<1>6. len \in Nat /\ len >= 2 /\ bytes[1] = answer[1] /\ bytes[2] = answer[2]
  BY <1>1, <1>4, <1>5, FirstFields
<1>7. /\ b[1] = answer[1] /\ b[2] = answer[2]
      /\ c[1] = answer[1] /\ c[2] = answer[2]
  <2>1. 1 \in 1..len /\ 2 \in 1..len
    BY <1>6
  <2>2. \A i \in 1..len : b[i] = bytes[i] /\ c[i] = bytes[i]
    BY <1>1 DEF Fits
  <2> QED
    BY <1>6, <2>1, <2>2
<1>8. /\ View(b, 1, len, Behind(FieldParts(fields, answer), 0))
      /\ View(c, 1, len, Behind(FieldParts(fields, answer), 0))
      /\ len <= BufLen
  BY <1>1, <1>5, WholeView
<1>9. PICK f, g : f = (CHOOSE h : FieldsOf(fields, b, h)) /\ g = (CHOOSE h : FieldsOf(fields, c, h))
  OBVIOUS
<1>10. FieldsOf(fields, b, f) /\ FieldsOf(fields, c, g)
  <2>1. Len(fields) \in Nat
    BY <1>3 DEF HasFields
  <2>2. \E h : FieldsOf(fields, b, h)
    BY <2>1, FieldsExist
  <2>3. \E h : FieldsOf(fields, c, h)
    BY <2>1, FieldsExist
  <2> HIDE DEF FieldsOf
  <2> QED
    BY <1>9, <2>2, <2>3
<1>11. PICK a, p : f[n] = State(a, p) /\ g[n] = State(a, p)
                   /\ RightUpto(p, FieldPairs(fields, answer), {NoKey}, n)
  <2>1. ReadAlike(fields, answer, f, g)
    BY <1>3, <1>6, <1>8, <1>10, FieldsRead
  <2> QED
    BY <1>2, <2>1 DEF ReadAlike
<1>12. ReadFields(fields, b) = State(a, p) /\ ReadFields(fields, c) = State(a, p)
  BY <1>2, <1>9, <1>11, FieldsValue
<1>13. PICK s : s = State(a, p)
  OBVIOUS
<1>14. s.ok = TRUE /\ s.props = p
  BY <1>13 DEF State
<1>15. Expects(e, answer) => EngineFields(e) = fields
  BY <1>1 DEF Expects, EngineFields, AnswerFields
<1>16. ASSUME NEW buffer, ReadFields(fields, buffer) = s,
              buffer[1] = answer[1], buffer[2] = answer[2]
       PROVE  FieldsMade(e, buffer, len) = Delivered(e, answer, len, p)
  <2>1. Expects(e, buffer) = Expects(e, answer)
    BY <1>0, <1>16 DEF Expects
  <2>2. ~(len < 2)
    BY <1>6
  <2>3. CASE Expects(e, answer)
    <3>1. PICK r : r = ReadFields(EngineFields(e), buffer)
      OBVIOUS
    <3>2. r = s
      BY <1>15, <1>16, <2>3, <3>1
    <3>3. r.ok = TRUE /\ r.props = p
      BY <1>14, <3>2
    <3>4. FieldsMade(e, buffer, len)
            = IF e.kind = "ut2k" /\ len = BufLen THEN Panic
              ELSE IF (e.kind = "samp" /\ len < 2) \/ ~Expects(e, buffer) THEN Ignored
              ELSE IF r.ok THEN Published(Adapted(e.kind, r.props)) ELSE Panic
      BY <3>1 DEF FieldsMade
    <3> QED
      BY <2>1, <2>2, <2>3, <3>3, <3>4 DEF Delivered
  <2>4. CASE ~Expects(e, answer)
    BY <2>1, <2>2, <2>4 DEF FieldsMade, Delivered
  <2> QED
    BY <2>3, <2>4
<1>17. /\ FieldsMade(e, b, len) = Delivered(e, answer, len, p)
       /\ FieldsMade(e, c, len) = Delivered(e, answer, len, p)
  BY <1>7, <1>12, <1>13, <1>16
<1> QED
  BY <1>1, <1>2, <1>11, <1>17 DEF FieldsAlike

LEMMA FieldsBytes ==
  ASSUME engine.kind \in {"ut2k", "samp"}, engine.kind \in DOMAIN Answers, NEW answer \in Answers[engine.kind]
  PROVE  /\ BytesOf(answer) = Behind(FieldParts(AnswerFields(engine.kind, answer), answer), 0)
         /\ IsSequence(BytesOf(answer)) /\ Len(BytesOf(answer)) \in Nat
<1>1. PICK fields, M, n : /\ fields = AnswerFields(engine.kind, answer)
                          /\ M = FieldParts(fields, answer) /\ n = Len(fields)
  OBVIOUS
<1>2. HasFields(fields, answer)
  BY <1>1, AnswerHasFields
<1>3. PartsOf(M, n, answer)
  BY <1>1, <1>2, PartsBehind
<1>4. Fields(answer) = fields /\ Len(answer) = n
  BY <1>1, <1>2 DEF Fields, AnswerFields, HasFields
<1>5. BytesOf(answer) = FlattenSeq([i \in 1..Len(answer) |-> Encoded(Fields(answer)[i].kind, answer[i])])
  BY DEF BytesOf
<1>6. BytesOf(answer) = FlattenSeq(M)
  BY <1>1, <1>4, <1>5 DEF FieldParts
<1>7. BytesOf(answer) = Behind(M, 0)
  BY <1>3, <1>6 DEF PartsOf
<1>8. IsSequence(Behind(M, 0)) /\ Len(Behind(M, 0)) \in Nat
  <2>1. PICK bytes : bytes = Behind(M, 0)
    OBVIOUS
  <2> QED
    BY <1>3, <2>1, FirstFields
<1> QED
  BY <1>1, <1>7, <1>8

FieldsInv ==
  /\ engine \in Engines
  /\ (engine.kind \in {"ut2k", "samp"} /\ datagram.whole) =>
       /\ Sent(engine, datagram.answer, datagram.bytes)
       /\ Fits(buf, datagram.bytes)
       /\ outcome = FieldsMade(engine, buf, Len(datagram.bytes))

LEMMA FieldsInitially ==
  ASSUME ResponsesInit
  PROVE  FieldsInv
<1>1. datagram.whole = FALSE
  BY DEF ResponsesInit, NoDatagram
<1> QED
  BY <1>1 DEF ResponsesInit, FieldsInv

LEMMA FieldsStep ==
  ASSUME FieldsInv, [ResponsesNext]_vars
  PROVE  FieldsInv'
<1>1. CASE UNCHANGED vars \/ Ended
  <2>1. /\ engine' = engine /\ datagram' = datagram /\ buf' = buf /\ outcome' = outcome
    BY <1>1 DEF Ended, vars
  <2> QED
    BY <2>1 DEF FieldsInv
<1>2. ASSUME NEW answer \in Answers[engine.kind], NEW len \in 0..Len(BytesOf(answer)),
             Listen(answer, len), engine.kind \in {"ut2k", "samp"}
      PROVE  FieldsInv'
  <2>1. engine.kind \in DOMAIN Answers
    BY <1>2, ResponsesAssumption DEF FieldsInv
  <2>2. PICK received : received = IF len <= BufLen THEN len ELSE BufLen
    OBVIOUS
  <2>3. PICK bytes : bytes = SubSeq(BytesOf(answer), 1, received)
    OBVIOUS
  <2>4. PICK w : w = (received = Len(BytesOf(answer)))
    OBVIOUS
  <2>5. /\ datagram' = [answer |-> answer, whole |-> w, bytes |-> bytes]
        /\ buf' = Filled(buf, datagram'.bytes)
        /\ outcome' = Outcome(buf', received)
        /\ engine' = engine
    BY <1>2, <2>2, <2>3, <2>4 DEF Listen
  <2>6. datagram'.bytes = bytes /\ datagram'.answer = answer /\ datagram'.whole = w
    BY <2>5
  <2>7. CASE ~w
    <3>1. ~datagram'.whole
      BY <2>6, <2>7
    <3> QED
      BY <2>5, <3>1 DEF FieldsInv
  <2>8. CASE w
    <3>1. PICK all : all = BytesOf(answer)
      OBVIOUS
    <3>2. /\ all = Behind(FieldParts(AnswerFields(engine.kind, answer), answer), 0)
          /\ IsSequence(all) /\ Len(all) \in Nat
      BY <1>2, <2>1, <3>1, FieldsBytes
    <3>3. received = Len(all)
      BY <2>4, <2>8, <3>1
    <3>4. received \in 0..BufLen
      <4>1. BufLen \in Nat
        BY ResponsesAssumption
      <4> QED
        BY <2>2, <3>1, <3>2, <4>1
    <3>5. bytes = all
      <4>1. \A i \in 1..Len(all) : all[i] = all[i]
        OBVIOUS
      <4>2. SubSeq(all, 1, Len(all)) = all
        BY <3>2, <4>1, WholeCut
      <4> QED
        BY <2>3, <3>1, <3>3, <4>2
    <3>6. Fits(Filled(buf, bytes), bytes)
      BY <3>2, <3>3, <3>4, <3>5, FilledFits
    <3>7. Fits(buf', bytes)
      BY <2>5, <2>6, <3>6
    <3>8. Outcome(buf', received) = FieldsMade(engine, buf', received)
      BY <1>2, FieldsOutcome
    <3>9. outcome' = FieldsMade(engine, buf', Len(bytes))
      BY <2>5, <3>3, <3>5, <3>8
    <3> QED
      BY <1>2, <2>1, <2>5, <2>6, <3>2, <3>5, <3>7, <3>9 DEF FieldsInv, Sent
  <2> QED
    BY <2>7, <2>8
<1>3. ASSUME NEW answer \in Answers[engine.kind], NEW len \in 0..Len(BytesOf(answer)),
             Listen(answer, len), engine.kind \notin {"ut2k", "samp"}
      PROVE  FieldsInv'
  <2>1. engine' = engine
    BY <1>3 DEF Listen
  <2> QED
    BY <1>3, <2>1 DEF FieldsInv
<1> QED
  BY <1>1, <1>2, <1>3 DEF ResponsesNext

LEMMA FieldsOwnDatagram ==
  ASSUME FieldsInv, engine.kind \in {"ut2k", "samp"}
  PROVE  OwnDatagramOnly
<1> SUFFICES ASSUME datagram.whole
             PROVE  outcome = Outcome(Filled([i \in 1..BufLen |-> 0], datagram.bytes),
                                      Len(datagram.bytes))
  BY DEF OwnDatagramOnly
<1>1. PICK answer, bytes : answer = datagram.answer /\ bytes = datagram.bytes
  OBVIOUS
<1>2. PICK b : b = [i \in 1..BufLen |-> 0]
  OBVIOUS
<1>3. PICK c : c = Filled(b, bytes)
  OBVIOUS
<1>4. PICK e : e = engine
  OBVIOUS
<1>5. /\ Sent(e, answer, bytes) /\ Fits(buf, bytes)
      /\ outcome = FieldsMade(e, buf, Len(bytes))
  BY <1>1, <1>4 DEF FieldsInv
<1>6. Fits(c, bytes)
  <2>1. IsSequence(bytes) /\ Len(bytes) \in 0..BufLen
    BY <1>5 DEF Fits
  <2> QED
    BY <1>3, <2>1, FilledFits
<1>7. FieldsAlike(e, answer, buf, c, Len(bytes))
  BY ONLY <1>5, <1>6, FieldsRight
<1>8. FieldsMade(e, buf, Len(bytes)) = FieldsMade(e, c, Len(bytes))
  BY <1>7 DEF FieldsAlike
<1>9. Outcome(c, Len(bytes)) = FieldsMade(e, c, Len(bytes))
  BY <1>4, FieldsOutcome
<1> QED
  BY <1>1, <1>2, <1>3, <1>5, <1>8, <1>9

-----------------------------------------------------------------------------
(* What is meant by an answer of UT2K or SAMP.                             *)

HasKey(fields, k) == k # NoKey /\ \E i \in 1..Len(fields) : fields[i].key = k

(* What is meant, in terms of the keys and what is kept of their values.   *)
LEMMA FieldsMeant ==
  ASSUME NEW answer, NEW bytes, Sent(engine, answer, bytes),
         NEW fields, fields = AnswerFields(engine.kind, answer),
         NEW p, RightUpto(p, FieldPairs(fields, answer), {NoKey}, Len(fields)),
         NEW k \in DOMAIN Meant(answer)
  PROVE  /\ k \in DOMAIN p
         /\ HasKey(fields, k)
         /\ Meant(answer)[k] = IF engine.kind = "samp" /\ k = "password" /\ p[k] # 0 THEN 1 ELSE p[k]
<1>0. engine.kind \in {"ut2k", "samp"} /\ engine.kind \in DOMAIN Answers /\ answer \in Answers[engine.kind]
  BY DEF Sent
<1>1. HasFields(fields, answer)
  BY <1>0, AnswerHasFields
<1>2. PICK n \in Nat : n = Len(fields) /\ n = Len(answer)
  BY <1>1 DEF HasFields
<1>3. Fields(answer) = fields
  BY DEF Fields, AnswerFields
<1>4. PICK Keys : Keys = [i \in 1..n |-> fields[i].key]
  OBVIOUS
<1> DEFINE Found(i) == Keys[i] = k /\ \A j \in i + 1..n : Keys[j] # k
           Value(i) == IF engine.kind = "ut2k"
                         THEN IF fields[i].kind = "compact" THEN Plain(answer[i]) ELSE answer[i]
                         ELSE IF Keys[i] # "password" \/ answer[i] = 0 THEN answer[i] ELSE 1
           At(x) == CHOOSE i \in 1..n : Keys[i] = x /\ \A j \in i + 1..n : Keys[j] # x
<1>5. Meant(answer) = [x \in {Keys[i] : i \in 1..n} \ {NoKey} |-> Value(At(x))]
  <2>1. CASE engine.kind = "ut2k"
    BY <1>2, <1>3, <1>4, <2>1 DEF Meant
  <2>2. CASE engine.kind = "samp"
    BY <1>2, <1>3, <1>4, <2>2 DEF Meant
  <2> QED
    BY <1>0, <2>1, <2>2
<1>6. k \in {Keys[i] : i \in 1..n} /\ k # NoKey
  <2> HIDE DEF Value, At
  <2> QED
    BY <1>5
<1>7. Meant(answer)[k] = Value(CHOOSE i \in 1..n : Found(i))
  <2>1. Meant(answer)[k] = Value(At(k))
    <3> HIDE DEF Value, At
    <3> QED
      BY <1>5
  <2> QED
    BY <2>1
<1>8. PICK S : S = {i \in 1..n : Keys[i] = k}
  OBVIOUS
<1>9. S \in SUBSET (1..n) /\ S # {}
  BY <1>6, <1>8
<1>10. PICK i \in S : \A j \in i + 1..n : j \notin S
  BY <1>9, LastOf
<1>11. i \in 1..n /\ Found(i)
  <2>1. \A j \in i + 1..n : j \in 1..n
    BY <1>8, <1>10
  <2> QED
    BY <1>8, <1>10, <2>1
<1>12. PICK x : x = CHOOSE h \in 1..n : Found(h)
  OBVIOUS
<1>13. x \in 1..n /\ Found(x)
  BY <1>11, <1>12
<1>14. k \in DOMAIN p /\ p[k] = Shown(fields[x].kind, answer[x])
  <2>1. PICK pr : pr = FieldPairs(fields, answer)
    OBVIOUS
  <2>2. \A h \in 1..n : pr[h][1] = Keys[h] /\ pr[h][2] = Shown(fields[h].kind, answer[h])
    BY <1>2, <1>4, <2>1 DEF FieldPairs
  <2>3. PICK skip : skip = {NoKey}
    OBVIOUS
  <2>4. RightUpto(p, pr, skip, n)
    BY <1>2, <2>1, <2>3
  <2>5. pr[x][1] = k /\ pr[x][2] = Shown(fields[x].kind, answer[x]) /\ pr[x][1] \notin skip
    BY <1>6, <1>13, <2>2, <2>3
  <2>6. \A j \in x + 1..n : pr[j][1] # pr[x][1]
    <3>1. \A j \in x + 1..n : j \in 1..n
      BY <1>13
    <3> QED
      BY <1>13, <2>2, <2>5, <3>1
  <2> QED
    BY <1>13, <2>4, <2>5, <2>6 DEF RightUpto
<1>15. Value(x) = IF engine.kind = "samp" /\ k = "password" /\ p[k] # 0 THEN 1 ELSE p[k]
  <2>1. CASE engine.kind = "ut2k"
    BY <1>14, <2>1 DEF Shown
  <2>2. CASE engine.kind = "samp"
    <3>1. fields[x].kind # "compact"
      <4>1. fields = SAMPFields
        BY <2>2 DEF AnswerFields
      <4>2. x \in 1..8
        BY <1>2, <1>13, <4>1, SAMPFieldFacts
      <4> QED
        BY <4>1, <4>2, SAMPFieldFacts
    <3>2. p[k] = answer[x]
      BY <1>14, <3>1 DEF Shown
    <3>3. Keys[x] = k
      BY <1>13
    <3> QED
      BY <2>2, <3>2, <3>3
  <2> QED
    BY <1>0, <2>1, <2>2
<1>16. HasKey(fields, k)
  <2>1. fields[x].key = k
    BY <1>4, <1>13
  <2> QED
    BY <1>2, <1>6, <1>13, <2>1 DEF HasKey
<1> QED
  BY <1>7, <1>12, <1>14, <1>15, <1>16

(* What is added to the properties changes none of those that are meant.   *)
LEMMA AdaptedKeeps ==
  ASSUME NEW kind \in {"ut2k", "samp"}, NEW p, NEW k \in DOMAIN p,
         kind = "ut2k" => k \notin {"freespace", "currentplayers"}
  PROVE  /\ k \in DOMAIN Adapted(kind, p)
         /\ Adapted(kind, p)[k] = IF kind = "samp" /\ k = "password" /\ p[k] # 0 THEN 1 ELSE p[k]
<1>1. CASE kind = "ut2k"
  <2>1. Adapted(kind, p) = WithFreespace(p)
    BY <1>1 DEF Adapted
  <2>2. PICK v, w : /\ v = IF p.numplayers < p.maxplayers THEN 1 ELSE 0
                    /\ w = p.numplayers
    OBVIOUS
  <2>3. WithFreespace(p) = Set(Set(p, "freespace", v), "currentplayers", w)
    BY <2>2 DEF WithFreespace
  <2>4. ASSUME NEW m, NEW x, NEW u, k \in DOMAIN m, k # x
        PROVE  k \in DOMAIN Set(m, x, u) /\ Set(m, x, u)[k] = m[k]
    BY <2>4 DEF Set
  <2>5. k # "freespace" /\ k # "currentplayers"
    BY <1>1
  <2>6. PICK q : q = Set(p, "freespace", v)
    OBVIOUS
  <2>7. k \in DOMAIN q /\ q[k] = p[k]
    BY <2>4, <2>5, <2>6
  <2>8. k \in DOMAIN Set(q, "currentplayers", w) /\ Set(q, "currentplayers", w)[k] = q[k]
    BY <2>4, <2>5, <2>7
  <2> QED
    BY <1>1, <2>1, <2>3, <2>6, <2>7, <2>8
<1>2. CASE kind = "samp"
  <2>1. PICK q : q = [p EXCEPT !["password"] = IF p["password"] = 0 THEN 0 ELSE 1]
    OBVIOUS
  <2>2. Adapted(kind, p) = q
    BY <1>2, <2>1 DEF Adapted
  <2>3. k \in DOMAIN q /\ q[k] = IF k = "password" THEN (IF p[k] = 0 THEN 0 ELSE 1) ELSE p[k]
    BY <2>1
  <2> QED
    BY <1>2, <2>2, <2>3
<1> QED
  BY <1>1, <1>2

LEMMA FieldsComplete ==
  ASSUME FieldsInv, engine.kind \in {"ut2k", "samp"}
  PROVE  CompleteAnswerRead
<1> SUFFICES ASSUME datagram.whole, FitsTheBuffer, OfThisGame, engine.outputHandler
             PROVE  /\ outcome.what = "published"
                    /\ \A k \in DOMAIN Meant(datagram.answer) :
                         k \in DOMAIN outcome.props /\ outcome.props[k] = Meant(datagram.answer)[k]
  BY DEF CompleteAnswerRead
<1>1. PICK e, answer, bytes : e = engine /\ answer = datagram.answer /\ bytes = datagram.bytes
  OBVIOUS
<1>2. PICK fields : fields = AnswerFields(e.kind, answer)
  OBVIOUS
<1>3. /\ Sent(e, answer, bytes) /\ Fits(buf, bytes)
      /\ outcome = FieldsMade(e, buf, Len(bytes))
  BY <1>1 DEF FieldsInv
<1>4. FieldsAlike(e, answer, buf, buf, Len(bytes))
  BY ONLY <1>3, FieldsRight
<1>5. PICK p : /\ RightUpto(p, FieldPairs(fields, answer), {NoKey}, Len(fields))
               /\ outcome = Delivered(e, answer, Len(bytes), p)
  BY <1>2, <1>3, <1>4 DEF FieldsAlike
<1>6. Expects(e, answer) /\ ~(e.kind = "ut2k" /\ Len(bytes) = BufLen)
  <2>1. Expects(e, answer)
    BY <1>1, <1>3 DEF OfThisGame, Expects
  <2>2. e.kind = "ut2k" => Len(bytes) < BufLen
    BY <1>1 DEF FitsTheBuffer
  <2>3. Len(bytes) < BufLen => Len(bytes) # BufLen
    <3>1. Len(bytes) \in Nat /\ BufLen \in Nat
      BY <1>3, ResponsesAssumption DEF Fits
    <3> QED
      BY <3>1
  <2> QED
    BY <2>1, <2>2, <2>3
<1>7. PICK q : q = Adapted(e.kind, p)
  OBVIOUS
<1>8. outcome = Published(q)
  BY <1>5, <1>6, <1>7 DEF Delivered
<1>9. outcome.what = "published" /\ outcome.props = q
  BY <1>8 DEF Published
<1>10. ASSUME NEW k \in DOMAIN Meant(answer)
       PROVE  k \in DOMAIN q /\ q[k] = Meant(answer)[k]
  <2>1. /\ k \in DOMAIN p
        /\ HasKey(fields, k)
        /\ Meant(answer)[k] = IF e.kind = "samp" /\ k = "password" /\ p[k] # 0 THEN 1 ELSE p[k]
    <3>1. /\ Sent(engine, answer, bytes) /\ fields = AnswerFields(engine.kind, answer)
          /\ RightUpto(p, FieldPairs(fields, answer), {NoKey}, Len(fields))
          /\ k \in DOMAIN Meant(answer)
      BY <1>1, <1>2, <1>3, <1>5, <1>10
    <3>2. /\ k \in DOMAIN p
          /\ HasKey(fields, k)
          /\ Meant(answer)[k] = IF engine.kind = "samp" /\ k = "password" /\ p[k] # 0 THEN 1 ELSE p[k]
      BY ONLY <3>1, FieldsMeant
    <3> QED
      BY <1>1, <3>2
  <2>2. e.kind = "ut2k" => k \notin {"freespace", "currentplayers"}
    <3>1. SUFFICES ASSUME e.kind = "ut2k"
                   PROVE  k \notin {"freespace", "currentplayers"}
      OBVIOUS
    <3>2. fields = UT2KFields(answer[1])
      BY <1>2, <3>1 DEF AnswerFields
    <3> QED
      BY <2>1, <3>2, UT2KFieldKinds DEF HasKey
  <2>3. /\ k \in DOMAIN Adapted(e.kind, p)
        /\ Adapted(e.kind, p)[k] = IF e.kind = "samp" /\ k = "password" /\ p[k] # 0 THEN 1 ELSE p[k]
    BY <1>3, <2>1, <2>2, AdaptedKeeps DEF Sent
  <2> QED
    BY <1>7, <2>1, <2>3
<1> QED
  BY <1>1, <1>9, <1>10

(* A whole answer ends the process only if it fills the UT2K buffer.       *)
LEMMA FieldsSurvive ==
  ASSUME FieldsInv, engine.kind \in {"ut2k", "samp"}, datagram.whole, FitsTheBuffer
  PROVE  outcome # Panic
<1>1. PICK e, answer, bytes : e = engine /\ answer = datagram.answer /\ bytes = datagram.bytes
  OBVIOUS
<1>2. /\ Sent(e, answer, bytes) /\ Fits(buf, bytes)
      /\ outcome = FieldsMade(e, buf, Len(bytes))
  BY <1>1 DEF FieldsInv
<1>3. FieldsAlike(e, answer, buf, buf, Len(bytes))
  BY ONLY <1>2, FieldsRight
<1>4. PICK p : outcome = Delivered(e, answer, Len(bytes), p)
  BY <1>2, <1>3 DEF FieldsAlike
<1>5. ~(e.kind = "ut2k" /\ Len(bytes) = BufLen)
  <2>1. e.kind = "ut2k" => Len(bytes) < BufLen
    BY <1>1 DEF FitsTheBuffer
  <2>2. Len(bytes) \in Nat /\ BufLen \in Nat
    BY <1>2, ResponsesAssumption DEF Fits
  <2> QED
    BY <2>1, <2>2
<1>6. outcome = Ignored \/ outcome = Published(Adapted(e.kind, p))
  BY <1>4, <1>5 DEF Delivered
<1>7. \A q : Published(q).what = "published" /\ Ignored.what = "ignored" /\ Panic.what = "panic"
  BY DEF Published, Ignored, Panic
<1> QED
  BY <1>6, <1>7

-----------------------------------------------------------------------------
(* The theorems.                                                           *)

AnswersInv == ReceivedInv /\ FieldsInv

LEMMA KindsKnown ==
  ASSUME engine \in Engines
  PROVE  engine.kind \in {"ut2k", "samp", "qr2", "goa0"}
BY ResponsesAssumption

LEMMA AnswersInvariant ==
  ResponsesSpec => []AnswersInv
<1>1. ResponsesInit => AnswersInv
  <2> SUFFICES ASSUME ResponsesInit
               PROVE  AnswersInv
    OBVIOUS
  <2>1. FieldsInv
    BY FieldsInitially
  <2>2. outcome # Panic
    <3>1. Ignored.what = "ignored" /\ Panic.what = "panic"
      BY DEF Ignored, Panic
    <3> QED
      BY <3>1 DEF ResponsesInit
  <2> QED
    BY <2>1, <2>2 DEF ResponsesInit, ReceivedInv, AnswersInv
<1>2. AnswersInv /\ [ResponsesNext]_vars => AnswersInv'
  <2> SUFFICES ASSUME AnswersInv, [ResponsesNext]_vars
               PROVE  AnswersInv'
    OBVIOUS
  <2>1. ReceivedInv /\ FieldsInv
    BY DEF AnswersInv
  <2>2. ReceivedInv'
    BY <2>1, ReceivedStep
  <2>3. FieldsInv'
    BY <2>1, FieldsStep
  <2> QED
    BY <2>2, <2>3 DEF AnswersInv
<1> QED
  BY <1>1, <1>2, PTL DEF ResponsesSpec

(* What the parser of any engine makes of a whole datagram, and those of   *)
(* QR2 and GOA of any, depends on its own bytes only, not on those of      *)
(* earlier datagrams that the buffer still holds behind them.              *)
THEOREM ResponsesOwnDatagramOnly ==
  ResponsesSpec => []OwnDatagramOnly
<1>1. AnswersInv => OwnDatagramOnly
  BY KindsKnown, PairsOwnDatagram, FieldsOwnDatagram DEF AnswersInv, FieldsInv
<1> QED
  BY <1>1, AnswersInvariant, PTL

(* Whatever keys and values a server gives, however often, with empty,     *)
(* long or coloured texts, and whatever was in the buffer: an answer that  *)
(* arrives whole is published with each of its keys, with the value it was *)
(* last given.                                                             *)
THEOREM ResponsesCompleteAnswerRead ==
  ResponsesSpec => []CompleteAnswerRead
<1>1. AnswersInv => CompleteAnswerRead
  BY KindsKnown, PairsComplete, FieldsComplete DEF AnswersInv, FieldsInv
<1> QED
  BY <1>1, AnswersInvariant, PTL

(* No datagram ends the process of a QR2 or GOA engine, and none that is   *)
(* whole that of a SAMP or UT2K engine, unless it fills the UT2K buffer.   *)
THEOREM ResponsesListenerSurvives ==
  ResponsesSpec => []ListenerSurvives
<1>1. AnswersInv => ListenerSurvives
  <2> SUFFICES ASSUME AnswersInv, outcome = Panic
               PROVE  engine.kind \in {"ut2k", "samp"} /\ (datagram.whole => ~FitsTheBuffer)
    BY DEF ListenerSurvives
  <2>1. engine.kind \in {"ut2k", "samp"}
    BY KindsKnown DEF AnswersInv, ReceivedInv
  <2> QED
    BY <2>1, FieldsSurvive DEF AnswersInv
<1> QED
  BY <1>1, AnswersInvariant, PTL

-----------------------------------------------------------------------------
(* The types.  That the buffer holds bytes rests on every answer being     *)
(* sent as bytes.                                                          *)

LEMMA FieldsType ==
  ASSUME engine \in Engines, engine.kind \in {"ut2k", "samp"}, NEW answer \in Answers[engine.kind]
  PROVE  BytesOf(answer) \in Seq(Bytes)
<1>1. PICK fields : fields = AnswerFields(engine.kind, answer)
  OBVIOUS
<1>2. HasFields(fields, answer)
  BY <1>1, AnswerHasFields, ResponsesAssumption
<1>3. PICK n \in Nat : n = Len(fields) /\ n = Len(answer)
  BY <1>2 DEF HasFields
<1>4. PICK parts : parts = FieldParts(fields, answer)
  OBVIOUS
<1>5. parts = [i \in 1..n |-> parts[i]] /\ \A i \in 1..n : parts[i] = Encoded(fields[i].kind, answer[i])
  BY <1>3, <1>4 DEF FieldParts
<1>6. \A i \in 1..n : parts[i] \in Seq(Bytes)
  BY <1>2, <1>3, <1>5, FieldType DEF HasFields
<1>7. parts \in Seq(Seq(Bytes))
  BY <1>5, <1>6, BytesMade
<1>8. FlattenSeq(parts) \in Seq(Bytes)
  BY <1>7, FlattenSeqType
<1>9. Fields(answer) = fields
  BY <1>1 DEF Fields, AnswerFields
<1>10. BytesOf(answer) = FlattenSeq(parts)
  BY <1>3, <1>4, <1>9 DEF BytesOf, FieldParts
<1> QED
  BY <1>8, <1>10

(* The pairs of an answer of QR2 or GOA.                                   *)
LEMMA PairsType ==
  ASSUME engine \in Engines, engine.kind \in {"qr2", "goa0"}, NEW answer \in Answers[engine.kind]
  PROVE  BytesOf(answer) \in Seq(Bytes)
<1>1. engine.kind \in DOMAIN Answers \cap {"qr2", "goa0"}
  BY ResponsesAssumption
<1>2. PICK W : W = Words(engine.kind)
  OBVIOUS
<1>3. answer \in Seq(W \X W)
  BY <1>1, <1>2, AnswersAssumption
<1>4. \A w \in W : w \in Seq(Bytes)
  BY <1>2 DEF Words, Bytes
<1>5. PICK n \in Nat : n = Len(answer)
  BY <1>3, LenProperties
<1>6. \A i \in 1..n : answer[i][1] \in Seq(Bytes) /\ answer[i][2] \in Seq(Bytes)
  <2> TAKE i \in 1..n
  <2>1. answer[i] \in W \X W
    BY <1>3, <1>5, ElementOfSeq
  <2>2. answer[i][1] \in W /\ answer[i][2] \in W
    BY <2>1
  <2> QED
    BY <1>4, <2>2
<1>7. PICK z, s, o, f : z = <<0>> /\ s = <<Backslash>> /\ o = <<1>> /\ f = Final
  OBVIOUS
<1>8. z \in Seq(Bytes) /\ s \in Seq(Bytes) /\ o \in Seq(Bytes) /\ f \in Seq(Bytes)
  <2>1. 0 \in Bytes /\ 1 \in Bytes /\ Backslash \in Bytes /\ 250 \in Bytes
    BY DEF Bytes, Backslash
  <2> QED
    BY <1>7, <2>1 DEF Final
<1>9. PICK Q, G : /\ Q = [i \in 1..n |-> answer[i][1] \o z \o answer[i][2] \o z]
                  /\ G = [i \in 1..n |-> s \o answer[i][1] \o s \o answer[i][2]]
  OBVIOUS
<1>10. \A i \in 1..n : Q[i] \in Seq(Bytes) /\ G[i] \in Seq(Bytes)
  <2> TAKE i \in 1..n
  <2>1. PICK a, b : a = answer[i][1] /\ b = answer[i][2]
    OBVIOUS
  <2>2. a \in Seq(Bytes) /\ b \in Seq(Bytes)
    BY <1>6, <2>1
  <2>3. a \o z \in Seq(Bytes) /\ s \o a \in Seq(Bytes)
    BY <1>8, <2>2, ConcatProperties
  <2>4. (a \o z) \o b \in Seq(Bytes) /\ (s \o a) \o s \in Seq(Bytes)
    BY <1>8, <2>2, <2>3, ConcatProperties
  <2>5. ((a \o z) \o b) \o z \in Seq(Bytes) /\ ((s \o a) \o s) \o b \in Seq(Bytes)
    BY <1>8, <2>2, <2>4, ConcatProperties
  <2> QED
    BY <1>9, <2>1, <2>5
<1>11. Q \in Seq(Seq(Bytes)) /\ G \in Seq(Seq(Bytes))
  <2>1. Q = [i \in 1..n |-> Q[i]] /\ G = [i \in 1..n |-> G[i]]
    BY <1>9
  <2> QED
    BY <1>10, <2>1, BytesMade
<1>12. PICK q, g : q = FlattenSeq(Q) /\ g = FlattenSeq(G)
  OBVIOUS
<1>13. q \in Seq(Bytes) /\ g \in Seq(Bytes)
  BY <1>11, <1>12, FlattenSeqType
<1>14. CASE engine.kind = "qr2"
  <2>1. o \o q \in Seq(Bytes)
    BY <1>8, <1>13, ConcatProperties
  <2>2. (o \o q) \o z \in Seq(Bytes)
    BY <1>8, <2>1, ConcatProperties
  <2>3. BytesOf(answer) = (o \o q) \o z
    BY <1>5, <1>7, <1>9, <1>12, <1>14 DEF BytesOf
  <2> QED
    BY <2>2, <2>3
<1>15. CASE engine.kind = "goa0"
  <2>1. g \o s \in Seq(Bytes)
    BY <1>8, <1>13, ConcatProperties
  <2>2. (g \o s) \o f \in Seq(Bytes)
    BY <1>8, <2>1, ConcatProperties
  <2>3. ((g \o s) \o f) \o s \in Seq(Bytes)
    BY <1>8, <2>2, ConcatProperties
  <2>4. BytesOf(answer) = ((g \o s) \o f) \o s
    BY <1>5, <1>7, <1>9, <1>12, <1>15 DEF BytesOf
  <2> QED
    BY <2>3, <2>4
<1> QED
  BY <1>14, <1>15

LEMMA AnswerType ==
  ASSUME engine \in Engines, NEW answer \in Answers[engine.kind]
  PROVE  BytesOf(answer) \in Seq(Bytes)
<1>1. engine.kind \in {"ut2k", "samp", "qr2", "goa0"}
  BY ResponsesAssumption
<1> QED
  BY <1>1, FieldsType, PairsType

LEMMA OutcomeType ==
  ASSUME engine \in Engines, NEW b, NEW len
  PROVE  Outcome(b, len).what \in {"ignored", "panic", "published", "completed"}
<1>1. engine.kind \in {"ut2k", "samp", "qr2", "goa0"}
  BY ResponsesAssumption
<1> DEFINE Typed(o) == o.what \in {"ignored", "panic", "published", "completed"}
<1>2. Typed(Ignored) /\ Typed(Panic) /\ Typed(CompletedOnly) /\ \A props : Typed(Published(props))
  BY DEF Ignored, Panic, CompletedOnly, Published
<1> HIDE DEF Typed
<1>3. CASE engine.kind = "ut2k"
  <2>1. Typed(UT2KOutcome(b, len))
    BY <1>2, Zenon DEF UT2KOutcome
  <2> QED
    BY <1>3, <2>1 DEF Outcome, Typed
<1>4. CASE engine.kind = "samp"
  <2>1. Typed(SAMPOutcome(b, len))
    BY <1>2, Zenon DEF SAMPOutcome
  <2> QED
    BY <1>4, <2>1 DEF Outcome, Typed
<1>5. CASE engine.kind = "qr2"
  <2>1. Typed(QR2Outcome(b, len))
    BY <1>2, Zenon DEF QR2Outcome
  <2> QED
    BY <1>5, <2>1 DEF Outcome, Typed
<1>6. CASE engine.kind = "goa0"
  <2>1. Typed(GOAOutcome(b, len))
    BY <1>2, Zenon DEF GOAOutcome
  <2> QED
    BY <1>6, <2>1 DEF Outcome, Typed
<1> QED
  BY <1>1, <1>3, <1>4, <1>5, <1>6

(* Every variable has its type: in particular, that the buffer holds bytes *)
(* whatever a server answers, and never changes its size.                  *)
THEOREM ResponsesTypeCorrect ==
  ResponsesSpec => []ResponsesTypeOK
<1>1. ResponsesInit => ResponsesTypeOK
  <2> SUFFICES ASSUME ResponsesInit
               PROVE  ResponsesTypeOK
    OBVIOUS
  <2>1. BufLen \in Nat /\ MaxDatagrams \in Nat
    BY ResponsesAssumption
  <2>2. DOMAIN buf = 1..BufLen /\ \A i \in 1..BufLen : buf[i] \in 0..255
    BY <2>1 DEF ResponsesInit
  <2>3. datagram.bytes = <<>> /\ datagram.whole = FALSE
    BY DEF ResponsesInit, NoDatagram
  <2>4. Len(datagram.bytes) \in 0..BufLen /\ datagram.whole \in BOOLEAN
    <3>1. Len(datagram.bytes) = 0
      BY <2>3, EmptySequence
    <3>2. 0 \in 0..BufLen
      BY <2>1
    <3> QED
      BY <2>3, <3>1, <3>2
  <2>5. outcome.what \in {"ignored", "panic", "published", "completed"}
    BY DEF ResponsesInit, Ignored
  <2> QED
    BY <2>1, <2>2, <2>4, <2>5 DEF ResponsesInit, ResponsesTypeOK
<1>2. ResponsesTypeOK /\ [ResponsesNext]_vars => ResponsesTypeOK'
  <2> SUFFICES ASSUME ResponsesTypeOK, [ResponsesNext]_vars
               PROVE  ResponsesTypeOK'
    OBVIOUS
  <2>1. ASSUME NEW answer \in Answers[engine.kind], NEW len \in 0..Len(BytesOf(answer)),
               Listen(answer, len)
        PROVE  ResponsesTypeOK'
    <3>1. engine \in Engines /\ BufLen \in Nat /\ MaxDatagrams \in Nat
      BY ResponsesAssumption DEF ResponsesTypeOK
    <3>2. PICK all : all = BytesOf(answer)
      OBVIOUS
    <3>3. all \in Seq(Bytes) /\ Len(all) \in Nat
      <4>1. all \in Seq(Bytes)
        BY <3>1, <3>2, AnswerType
      <4> QED
        BY <4>1, LenProperties
    <3>4. PICK received \in 0..BufLen : /\ received = IF len <= BufLen THEN len ELSE BufLen
                                        /\ received <= Len(all)
      BY <3>1, <3>2, <3>3
    <3>5. PICK bytes, w : bytes = SubSeq(all, 1, received) /\ w = (received = Len(all))
      OBVIOUS
    <3>6. w \in BOOLEAN
      BY <3>5
    <3>7. /\ datagram' = [answer |-> answer, whole |-> w, bytes |-> bytes]
          /\ buf' = Filled(buf, datagram'.bytes)
          /\ outcome' = Outcome(buf', received)
          /\ engine' = engine /\ count < MaxDatagrams /\ count' = count + 1
      BY <2>1, <3>2, <3>4, <3>5 DEF Listen
    <3>8. /\ Len(bytes) = received
          /\ \A i \in 1..received : bytes[i] \in Bytes
      <4>1. \A i \in 1..received : all[i] \in Bytes
        BY <3>3, <3>4, ElementOfSeq
      <4>2. bytes \in Seq(Bytes) /\ Len(bytes) = received
        BY <3>4, <3>5, <4>1, SubSeqProperties
      <4> QED
        BY <4>2, ElementOfSeq
    <3>9. datagram'.bytes = bytes /\ datagram'.whole = w
      BY <3>7
    <3>10. DOMAIN buf' = 1..BufLen
      BY <3>7 DEF Filled
    <3>11. \A i \in 1..BufLen : buf'[i] \in 0..255
      <4> TAKE i \in 1..BufLen
      <4>1. buf'[i] = IF i <= Len(bytes) THEN bytes[i]
                      ELSE IF engine.kind = "ut2k" /\ i = Len(bytes) + 1 THEN 0 ELSE buf[i]
        BY <3>7, <3>9 DEF Filled
      <4>2. buf[i] \in 0..255
        BY DEF ResponsesTypeOK
      <4>3. i <= Len(bytes) => bytes[i] \in 0..255
        BY <3>1, <3>8 DEF Bytes
      <4> QED
        BY <4>1, <4>2, <4>3
    <3>12. outcome'.what \in {"ignored", "panic", "published", "completed"}
      BY <3>1, <3>7, OutcomeType
    <3>13. count' \in 0..MaxDatagrams
      BY <3>1, <3>7 DEF ResponsesTypeOK
    <3>14. Len(datagram'.bytes) \in 0..BufLen /\ datagram'.whole \in BOOLEAN
      BY <3>4, <3>6, <3>8, <3>9
    <3> QED
      BY <3>1, <3>7, <3>10, <3>11, <3>12, <3>13, <3>14 DEF ResponsesTypeOK
  <2>2. CASE Ended \/ UNCHANGED vars
    BY <2>2 DEF Ended, vars, ResponsesTypeOK
  <2> QED
    BY <2>1, <2>2 DEF ResponsesNext
<1> QED
  BY <1>1, <1>2, PTL DEF ResponsesSpec
=============================================================================
