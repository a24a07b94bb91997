------------------------- MODULE TextDeliveryProofs -------------------------
(***************************************************************************)
(* The textual GOA list: however the text is cut into Reads, and wherever  *)
(* it breaks off, what a session makes of it is a delivery of the list.    *)
(* The text is a sequence of pieces with a mark between any two, the first *)
(* of them what was left of the greeting.  Split finds these pieces in     *)
(* whatever part of the text it is given, for no mark is in a piece or     *)
(* across its end; the last one may be cut and is kept for the next pass.  *)
(***************************************************************************)
EXTENDS SessionProofs

(* The same beginning in front of both, put there or taken away.            *)
LEMMA StartCancel ==
  ASSUME NEW c, NEW x, NEW y, IsSequence(c), IsSequence(x), IsSequence(y)
  PROVE  /\ StartOf(x, y) <=> StartOf(c \o x, c \o y)
         /\ c \o x = c \o y => x = y
<1>1. PICK u, v : u = c \o x /\ v = c \o y
  OBVIOUS
<1>2. PICK k, m, n : k = Len(c) /\ m = Len(x) /\ n = Len(y)
  OBVIOUS
<1>3. /\ IsSequence(u) /\ k \in Nat /\ m \in Nat /\ Len(u) = k + m
      /\ \A i \in 1..k + m : u[i] = IF i <= k THEN c[i] ELSE x[i - k]
  BY <1>1, <1>2, ConcatSequences
<1>4. /\ IsSequence(v) /\ n \in Nat /\ Len(v) = k + n
      /\ \A i \in 1..k + n : v[i] = IF i <= k THEN c[i] ELSE y[i - k]
  BY <1>1, <1>2, ConcatSequences
<1>5. \A i \in 1..m : k + i \in 1..k + m /\ ~(k + i <= k) /\ (k + i) - k = i
  BY <1>3
<1>6. \A i \in 1..n : k + i \in 1..k + n /\ ~(k + i <= k) /\ (k + i) - k = i
  BY <1>3, <1>4
<1>7. (\A i \in 1..m : u[k + i] = x[i]) /\ (\A i \in 1..n : v[k + i] = y[i])
  BY <1>3, <1>4, <1>5, <1>6
<1>8. ASSUME StartOf(x, y)
      PROVE  StartOf(u, v)
  <2>1. m <= n /\ \A i \in 1..m : x[i] = y[i]
    BY <1>2, <1>8 DEF StartOf
  <2>2. k + m <= k + n
    BY <1>3, <1>4, <2>1
  <2>3. \A i \in 1..k + m : u[i] = v[i]
    <3> TAKE i \in 1..k + m
    <3>1. i \in 1..k + n
      BY <1>3, <1>4, <2>2
    <3>2. ~(i <= k) => i - k \in 1..m
      BY <1>3
    <3> QED
      BY <1>3, <1>4, <2>1, <3>1, <3>2
  <2> QED
    BY <1>3, <1>4, <2>2, <2>3 DEF StartOf
<1>9. ASSUME StartOf(u, v)
      PROVE  StartOf(x, y)
  <2>1. k + m <= k + n /\ \A i \in 1..k + m : u[i] = v[i]
    BY <1>3, <1>4, <1>9 DEF StartOf
  <2>2. m <= n
    BY <1>3, <1>4, <2>1
  <2>3. \A i \in 1..m : x[i] = y[i]
    <3> TAKE i \in 1..m
    <3>1. i \in 1..n /\ k + i \in 1..k + m
      BY <1>3, <1>4, <2>2
    <3> QED
      BY <1>7, <2>1, <3>1
  <2> QED
    BY <1>2, <2>2, <2>3 DEF StartOf
<1>10. ASSUME u = v
       PROVE  x = y
  <2>1. m = n
    BY <1>3, <1>4, <1>10
  <2>2. \A i \in 1..m : x[i] = y[i]
    BY <1>7, <1>10, <2>1
  <2> QED
    BY <1>2, <2>1, <2>2, SequencesEqual
<1> QED
  BY <1>1, <1>8, <1>9, <1>10

LEMMA AppendConcat ==
  ASSUME NEW c, NEW p, NEW e, IsSequence(c), IsSequence(p)
  PROVE  Append(c \o p, e) = c \o Append(p, e)
<1> DEFINE S == ToSet(c) \cup ToSet(p) \cup {e}
<1>1. c \in Seq(S) /\ p \in Seq(S) /\ e \in S
  <2>1. ToSet(c) \subseteq S /\ ToSet(p) \subseteq S /\ e \in S /\ c \in Seq(ToSet(c)) /\ p \in Seq(ToSet(p))
    BY DEF IsSequence
  <2> HIDE DEF S
  <2> QED
    BY <2>1, SeqMonotonic
<1> HIDE DEF S
<1>2. PICK t : t = <<e>>
  OBVIOUS
<1>3. t \in Seq(S)
  BY <1>1, <1>2
<1>4. Append(p, e) = p \o t
  BY <1>1, <1>2, AppendIsConcat
<1>5. c \o p \in Seq(S)
  BY <1>1, ConcatProperties
<1>6. Append(c \o p, e) = (c \o p) \o t
  BY <1>1, <1>2, <1>5, AppendIsConcat
<1>7. (c \o p) \o t = c \o (p \o t)
  BY <1>1, <1>3, ConcatAssociative
<1> QED
  BY <1>4, <1>6, <1>7

(* One symbol more of a beginning. *)
LEMMA SubSeqNext ==
  ASSUME NEW v, IsSequence(v), NEW n \in 0..Len(v) - 1
  PROVE  SubSeq(v, 1, n + 1) = Append(SubSeq(v, 1, n), v[n + 1])
<1> DEFINE S == ToSet(v)
<1>1. v \in Seq(S) /\ Len(v) \in Nat /\ n \in Nat /\ n + 1 <= Len(v)
  BY LenProperties DEF IsSequence
<1> HIDE DEF S
<1>2. \A i \in 1..n + 1 : v[i] \in S
  BY <1>1, ElementOfSeq
<1>3. PICK a, b : a = SubSeq(v, 1, n) /\ b = SubSeq(v, 1, n + 1)
  OBVIOUS
<1>4. /\ IsSequence(a) /\ Len(a) = n
      /\ \A i \in 1..n : a[i] = v[i]
  <2>1. \A i \in 1..n : v[i] \in S
    BY <1>1, <1>2
  <2>2. \A i \in 1..n - 1 + 1 : a[i] = v[1 + i - 1]
    BY <1>1, <1>3, <2>1, SubSeqProperties
  <2>3. \A i \in 1..n : i \in 1..n - 1 + 1 /\ 1 + i - 1 = i
    BY <1>1
  <2> QED
    BY <1>1, <1>3, <2>2, <2>3, ChunkSequence
<1>5. /\ IsSequence(b) /\ Len(b) = n + 1
      /\ \A i \in 1..n + 1 : b[i] = v[i]
  <2>2. \A i \in 1..(n + 1) - 1 + 1 : b[i] = v[1 + i - 1]
    BY <1>1, <1>2, <1>3, SubSeqProperties
  <2>3. \A i \in 1..n + 1 : i \in 1..(n + 1) - 1 + 1 /\ 1 + i - 1 = i
    BY <1>1
  <2>4. n + 1 \in Nat
    BY <1>1
  <2> QED
    BY <1>1, <1>3, <2>2, <2>3, <2>4, ChunkSequence
<1>6. PICK c, e : c = Append(a, e) /\ e = v[n + 1]
  OBVIOUS
<1>7. IsSequence(c) /\ Len(c) = n + 1 /\ \A i \in 1..n + 1 : c[i] = IF i <= n THEN a[i] ELSE e
  BY <1>4, <1>6, AppendSequence, AppendElements
<1>8. \A i \in 1..n + 1 : b[i] = c[i]
  <2> TAKE i \in 1..n + 1
  <2>1. i \in 1..n \/ (i = n + 1 /\ ~(i <= n))
    BY <1>1
  <2> QED
    BY <1>4, <1>5, <1>6, <1>7, <2>1
<1>9. b = c
  BY <1>5, <1>7, <1>8, SequencesEqual
<1> QED
  BY <1>3, <1>6, <1>9

LEMMA FrontFacts ==
  ASSUME NEW ps, NEW j \in Nat, IsSequence(ps), Len(ps) = j + 1
  PROVE  /\ IsSequence(Front(ps)) /\ Len(Front(ps)) = j
         /\ \A i \in 1..j : Front(ps)[i] = ps[i]
<1>1. PICK f : f = SubSeq(ps, 1, j)
  OBVIOUS
<1>2. Front(ps) = f
  <2>1. Len(ps) - 1 = j
    OBVIOUS
  <2> QED
    BY <1>1, <2>1 DEF Front
<1>3. IsSequence(f) /\ Len(f) = j
  BY <1>1, ChunkSequence
<1>4. \A i \in 1..j : f[i] = ps[i]
  <2> DEFINE S == ToSet(ps)
  <2>1. ps \in Seq(S)
    BY DEF IsSequence
  <2> HIDE DEF S
  <2>2. \A i \in 1..j : ps[i] \in S
    BY <2>1, ElementOfSeq
  <2>3. \A i \in 1..j - 1 + 1 : f[i] = ps[1 + i - 1]
    BY <1>1, <2>2, SubSeqProperties
  <2>4. \A i \in 1..j : i \in 1..j - 1 + 1 /\ 1 + i - 1 = i
    OBVIOUS
  <2> QED
    BY <2>3, <2>4
<1> QED
  BY <1>2, <1>3, <1>4

(* The last piece is replaced by another.                                   *)
LEMMA LastReplaced ==
  ASSUME NEW ps, IsSequence(ps), Len(ps) > 0, NEW s
  PROVE  /\ IsSequence(Append(Front(ps), s)) /\ Len(Append(Front(ps), s)) = Len(ps)
         /\ \A i \in 1..Len(ps) : Append(Front(ps), s)[i] = IF i = Len(ps) THEN s ELSE ps[i]
<1>1. PICK f, j, g : f = Front(ps) /\ j = Len(ps) - 1 /\ g = Append(f, s)
  OBVIOUS
<1>2. j \in Nat /\ Len(ps) = j + 1
  BY <1>1, LenProperties DEF IsSequence
<1>3. IsSequence(f) /\ Len(f) = j /\ \A i \in 1..j : f[i] = ps[i]
  BY <1>1, <1>2, FrontFacts
<1>4. g = Append(f, s)
  BY <1>1
<1>5. IsSequence(g) /\ Len(g) = j + 1 /\ \A i \in 1..j + 1 : g[i] = IF i <= j THEN f[i] ELSE s
  BY <1>3, <1>4, AppendSequence, AppendElements
<1>6. \A i \in 1..j + 1 : (i <= j /\ i \in 1..j /\ i # j + 1) \/ (i = j + 1 /\ ~(i <= j))
  BY <1>2
<1>7. \A i \in 1..j + 1 : g[i] = IF i = j + 1 THEN s ELSE ps[i]
  BY <1>3, <1>5, <1>6
<1>8. g = Append(Front(ps), s)
  BY <1>1
<1> QED
  BY <1>2, <1>5, <1>7, <1>8

-----------------------------------------------------------------------------
(* The pieces behind each symbol of the text.                               *)
NextPieces(before, c) ==
  LET s == Append(Last(before), c) IN
  IF EndsWithMark(s)
    THEN Append(Append(Front(before), SubSeq(s, 1, Len(s) - 4)), <<>>)
    ELSE Append(Front(before), s)

SplitTo(text, g) ==
  g = [n \in 0..Len(text) |-> IF n = 0 THEN <<<<>>>> ELSE NextPieces(g[n - 1], text[n])]

LEMMA SplitExists ==
  ASSUME NEW text, IsSequence(text)
  PROVE  \E g : SplitTo(text, g)
<1> DEFINE l == Len(text)
           Due(g, n) == IF n = 0 THEN <<<<>>>> ELSE NextPieces(g[n - 1], text[n])
           Upto(m, g) == \A n \in 0..m : g[n] = Due(g, n)
           T == {m \in 1..l + 1 : \E g : Upto(m - 1, g)}
<1>1. l \in Nat
  BY LenProperties DEF IsSequence
<1>2. 1 \in T
  <2>1. Upto(1 - 1, [n \in 0..0 |-> <<<<>>>>])
    OBVIOUS
  <2> HIDE DEF Upto
  <2> QED
    BY <1>1, <2>1
<1>3. ASSUME NEW m \in 1..(l + 1) - 1, m \in T
      PROVE  m + 1 \in T
  <2>1. PICK g : Upto(m - 1, g)
    BY <1>3
  <2> DEFINE x == NextPieces(g[m - 1], text[m])
             h == [n \in 0..m |-> IF n = m THEN x ELSE g[n]]
  <2>2. h[m] = x /\ \A n \in 0..m - 1 : h[n] = g[n]
    <3> HIDE DEF x
    <3> QED
      BY <1>1
  <2> HIDE DEF h
  <2>3. ASSUME NEW n \in 0..m
        PROVE  h[n] = Due(h, n)
    <3>1. CASE n = m
      <4>1. n # 0 /\ n - 1 = m - 1 /\ m - 1 \in 0..m - 1
        BY <1>1, <3>1
      <4>2. h[n] = x /\ h[n - 1] = g[m - 1] /\ text[n] = text[m]
        BY <2>2, <3>1, <4>1
      <4> QED
        BY <4>1, <4>2
    <3>2. CASE n # m
      <4>1. n \in 0..m - 1 /\ (n # 0 => n - 1 \in 0..m - 1)
        BY <1>1, <3>2
      <4>2. g[n] = Due(g, n)
        BY <2>1, <4>1
      <4>3. h[n] = g[n] /\ (n # 0 => h[n - 1] = g[n - 1])
        BY <2>2, <4>1
      <4> QED
        BY <4>2, <4>3
    <3> QED
      BY <3>1, <3>2
  <2>4. Upto((m + 1) - 1, h)
    <3>1. (m + 1) - 1 = m
      BY <1>1
    <3> HIDE DEF Due
    <3> QED
      BY <2>3, <3>1
  <2>5. m + 1 \in 1..l + 1
    BY <1>1
  <2> HIDE DEF Upto
  <2> QED
    BY <2>4, <2>5
<1>4. l + 1 \in T
  <2> HIDE DEF T
  <2>1. l + 1 \in Nat /\ l + 1 \in 1..l + 1
    BY <1>1
  <2>2. \A m \in 1..l + 1 : m \in T
    BY <1>2, <1>3, <2>1, InductionTo
  <2> QED
    BY <2>1, <2>2
<1>5. PICK g : Upto(l, g)
  <2>1. (l + 1) - 1 = l
    BY <1>1
  <2> HIDE DEF Upto
  <2> QED
    BY <1>4, <2>1
<1>6. PICK h : h = [n \in 0..l |-> g[n]]
  OBVIOUS
<1>7. \A n \in 0..l : h[n] = Due(h, n)
  <2> TAKE n \in 0..l
  <2>1. n # 0 => n - 1 \in 0..l
    BY <1>1
  <2>2. g[n] = Due(g, n)
    BY <1>5
  <2>3. h[n] = g[n] /\ (n # 0 => h[n - 1] = g[n - 1])
    BY <1>6, <2>1
  <2> QED
    BY <2>2, <2>3
<1>8. h = [n \in 0..l |-> Due(h, n)]
  <2> HIDE DEF Due
  <2> QED
    BY <1>6, <1>7
<1> QED
  BY <1>8 DEF SplitTo

LEMMA SplitSteps ==
  ASSUME NEW text, IsSequence(text)
  PROVE  \E g : /\ g[0] = <<<<>>>>
                /\ \A n \in 0..Len(text) - 1 : g[n + 1] = NextPieces(g[n], text[n + 1])
                /\ Split(text) = g[Len(text)]
<1> DEFINE f == CHOOSE g : SplitTo(text, g)
<1>1. Split(text) = f[Len(text)]
  BY DEF Split, SplitTo, NextPieces
<1>2. SplitTo(text, f)
  BY SplitExists, Zenon
<1>3. Len(text) \in Nat
  BY LenProperties DEF IsSequence
<1> HIDE DEF f
<1>4. \A n \in 0..Len(text) : f[n] = IF n = 0 THEN <<<<>>>> ELSE NextPieces(f[n - 1], text[n])
  BY <1>2 DEF SplitTo
<1>5. 0 \in 0..Len(text) /\ \A n \in 0..Len(text) - 1 : /\ n + 1 \in 0..Len(text) /\ n + 1 # 0
                                                        /\ (n + 1) - 1 = n
  BY <1>3
<1>6. f[0] = <<<<>>>> /\ \A n \in 0..Len(text) - 1 : f[n + 1] = NextPieces(f[n], text[n + 1])
  BY <1>4, <1>5
<1> QED
  BY <1>1, <1>6

-----------------------------------------------------------------------------
(* The textual list: one mark and one body for each server.                 *)
Body(a) == <<a.host, ":">> \o a.port
TextEntries == [i \in 1..Len(Listing) |-> TextEntry(Listing[i])]
TextDue(k) == Behind(TextEntries, k) \o FinalText

LEMMA IpMarkFacts ==
  /\ IsSequence(IpMark) /\ Len(IpMark) = 4
  /\ IpMark[1] = Backslash /\ IpMark[2] = "i" /\ IpMark[3] = "p" /\ IpMark[4] = Backslash
<1>1. PICK b, i, p : b = Backslash /\ i = "i" /\ p = "p"
  OBVIOUS
<1>2. IpMark = <<b, i, p, b>>
  BY <1>1 DEF IpMark
<1>3. <<b, i, p, b>> \in Seq({b, i, p}) /\ Len(<<b, i, p, b>>) = 4
  OBVIOUS
<1>4. /\ <<b, i, p, b>>[1] = b /\ <<b, i, p, b>>[2] = i
      /\ <<b, i, p, b>>[3] = p /\ <<b, i, p, b>>[4] = b
  OBVIOUS
<1> QED
  BY <1>1, <1>2, <1>3, <1>4, SequenceOf

LEMMA FinalTextFacts ==
  /\ IsSequence(FinalText) /\ Len(FinalText) = 3
  /\ FinalText[1] = Backslash /\ FinalText[2] = "final" /\ FinalText[3] = Backslash
<1>1. PICK b, f : b = Backslash /\ f = "final"
  OBVIOUS
<1>2. FinalText = <<b, f, b>>
  BY <1>1 DEF FinalText
<1>3. <<b, f, b>> \in Seq({b, f}) /\ Len(<<b, f, b>>) = 3
  OBVIOUS
<1>4. <<b, f, b>>[1] = b /\ <<b, f, b>>[2] = f /\ <<b, f, b>>[3] = b
  OBVIOUS
<1> QED
  BY <1>1, <1>2, <1>3, <1>4, SequenceOf

LEMMA BodyFacts ==
  ASSUME NEW i \in 1..Len(Listing), NEW b, b = Body(Listing[i])
  PROVE  /\ IsSequence(b) /\ Len(b) = 4
         /\ b[1] = Listing[i].host /\ b[2] = ":"
         /\ b[3] = Listing[i].port[1] /\ b[4] = Listing[i].port[2]
         /\ b[1] \in Hosts /\ b[3] \in Digits /\ b[4] \in Digits
         /\ TextEntry(Listing[i]) = IpMark \o b
<1>1. PICK h, p, c : h = Listing[i].host /\ p = Listing[i].port /\ c = ":"
  OBVIOUS
<1>2. h \in Hosts /\ p \in Seq(Digits) /\ Len(p) = 2
  BY <1>1, ListingFacts
<1>3. PICK hs : hs = <<h, c>>
  OBVIOUS
<1>4. hs \in Seq({h, c}) /\ Len(hs) = 2 /\ hs[1] = h /\ hs[2] = c
  BY <1>3
<1>5. IsSequence(hs) /\ IsSequence(p)
  BY <1>2, <1>4, SequenceOf
<1>6. b = hs \o p
  BY <1>1, <1>3 DEF Body
<1>7. Len(hs) + Len(p) = 4
  BY <1>2, <1>4
<1>8. /\ IsSequence(b) /\ Len(b) = Len(hs) + Len(p)
      /\ \A k \in 1..Len(hs) + Len(p) : b[k] = IF k <= Len(hs) THEN hs[k] ELSE p[k - Len(hs)]
  BY <1>5, <1>6, ConcatSequences
<1>9. b[1] = h /\ b[2] = c /\ b[3] = p[1] /\ b[4] = p[2]
  <2>1. \A k \in 1..4 : b[k] = IF k <= 2 THEN hs[k] ELSE p[k - 2]
    BY <1>4, <1>7, <1>8
  <2> QED
    BY <1>4, <2>1
<1>10. p[1] \in Digits /\ p[2] \in Digits
  BY <1>2
<1>11. TextEntry(Listing[i]) = IpMark \o b
  <2>1. TextEntry(Listing[i]) = (IpMark \o hs) \o p
    BY <1>1, <1>3 DEF TextEntry
  <2>2. (IpMark \o hs) \o p = IpMark \o (hs \o p)
    <3>1. IsSequence(IpMark) /\ IsSequence(hs) /\ IsSequence(p)
      BY <1>5, IpMarkFacts
    <3> QED
      BY <3>1, ConcatRegroups
  <2> QED
    BY <1>6, <2>1, <2>2
<1> QED
  BY <1>1, <1>2, <1>7, <1>8, <1>9, <1>10, <1>11

LEMMA TextDueFacts ==
  /\ \A k \in 0..Len(Listing) : IsSequence(TextDue(k))
  /\ \A k \in 0..Len(Listing) :
       k < Len(Listing) => TextDue(k) = IpMark \o (Body(Listing[k + 1]) \o TextDue(k + 1))
  /\ TextDue(Len(Listing)) = FinalText
  /\ TextDue(0) = FlattenSeq([i \in 1..Len(Listing) |-> TextEntry(Listing[i])]) \o FinalText
<1>1. PICK n \in Nat : n = Len(Listing)
  BY ListingFacts
<1>2. TextEntries = [i \in 1..n |-> TextEntries[i]] /\ \A i \in 1..n : TextEntries[i] = TextEntry(Listing[i])
  BY <1>1 DEF TextEntries
<1>3. \A i \in 1..n : IsSequence(Body(Listing[i])) /\ TextEntries[i] = IpMark \o Body(Listing[i])
  BY <1>1, <1>2, BodyFacts
<1>4. \A i \in 1..n : IsSequence(TextEntries[i])
  <2> TAKE i \in 1..n
  <2>1. PICK b : b = Body(Listing[i])
    OBVIOUS
  <2>2. IsSequence(IpMark) /\ IsSequence(b)
    BY <1>3, <2>1, IpMarkFacts
  <2>3. IsSequence(IpMark \o b)
    BY <2>2, ConcatSequences
  <2> QED
    BY <1>3, <2>1, <2>3
<1>5. /\ \A k \in 0..n : IsSequence(Behind(TextEntries, k))
      /\ \A k \in 0..n : k < n => Behind(TextEntries, k) = TextEntries[k + 1] \o Behind(TextEntries, k + 1)
      /\ Behind(TextEntries, n) = <<>>
      /\ Behind(TextEntries, 0) = FlattenSeq(TextEntries)
  BY <1>2, <1>4, BehindFacts
<1>6. \A k \in 0..n : IsSequence(TextDue(k))
  BY <1>5, FinalTextFacts, ConcatSequences DEF TextDue
<1>7. ASSUME NEW k \in 0..n, k < n
      PROVE  TextDue(k) = IpMark \o (Body(Listing[k + 1]) \o TextDue(k + 1))
  <2>1. k + 1 \in 0..n /\ k + 1 \in 1..n
    BY <1>7
  <2>2. PICK m, b, r, f : m = IpMark /\ b = Body(Listing[k + 1]) /\ r = Behind(TextEntries, k + 1) /\ f = FinalText
    OBVIOUS
  <2>3. IsSequence(m) /\ IsSequence(b) /\ IsSequence(r) /\ IsSequence(f)
    BY <1>3, <1>5, <2>1, <2>2, IpMarkFacts, FinalTextFacts
  <2>4. TextDue(k) = ((m \o b) \o r) \o f
    BY <1>3, <1>5, <1>7, <2>1, <2>2 DEF TextDue
  <2>5. IsSequence(b \o r)
    BY <2>3, ConcatSequences
  <2>6. (m \o b) \o r = m \o (b \o r)
    BY <2>3, ConcatRegroups
  <2>9. (m \o (b \o r)) \o f = m \o ((b \o r) \o f)
    <3>1. PICK e : e = b \o r
      OBVIOUS
    <3>2. IsSequence(m) /\ IsSequence(e) /\ IsSequence(f)
      BY <2>3, <2>5, <3>1
    <3>3. (m \o e) \o f = m \o (e \o f)
      BY <3>2, ConcatRegroups
    <3> QED
      BY <3>1, <3>3
  <2>7. (b \o r) \o f = b \o (r \o f)
    BY <2>3, ConcatRegroups
  <2>8. TextDue(k + 1) = r \o f
    BY <2>2 DEF TextDue
  <2> QED
    BY <2>2, <2>4, <2>6, <2>7, <2>8, <2>9
<1>8. TextDue(n) = FinalText
  BY <1>5, FinalTextFacts, EmptyConcat DEF TextDue
<1>9. TextDue(0) = FlattenSeq(TextEntries) \o FinalText
  BY <1>5 DEF TextDue
<1> QED
  BY <1>1, <1>6, <1>7, <1>8, <1>9, Zenon DEF TextEntries

-----------------------------------------------------------------------------
(* A piece in which, with a backslash behind it, there is no mark.          *)
MarkAt(x, i) ==
  x[i] = Backslash /\ x[i + 1] = "i" /\ x[i + 2] = "p" /\ x[i + 3] = Backslash

Clean(H) ==
  /\ IsSequence(H)
  /\ \A x : x = H \o <<Backslash>> => \A i \in 1..Len(H) - 2 : ~MarkAt(x, i)

LEMMA EndsWithMarkFacts ==
  ASSUME NEW s, IsSequence(s), NEW n, n = Len(s)
  PROVE  EndsWithMark(s) <=> (n >= 4 /\ MarkAt(s, n - 3))
<1>1. n \in Nat
  BY LenProperties DEF IsSequence
<1>2. CASE ~(n >= 4)
  BY <1>2 DEF EndsWithMark
<1>3. CASE n >= 4
  <2>1. PICK r, k : r = SubSeq(s, n - 3, n) /\ k = n - 4
    OBVIOUS
  <2>2. k \in 0..n /\ k + 1 = n - 3 /\ n - k = 4
    BY <1>1, <1>3, <2>1
  <2>3. /\ IsSequence(r) /\ Len(r) = 4
        /\ \A i \in 1..4 : r[i] = s[k + i]
    <3>1. /\ IsSequence(SubSeq(s, k + 1, Len(s)))
          /\ Len(SubSeq(s, k + 1, Len(s))) = Len(s) - k
          /\ \A i \in 1..Len(s) - k : SubSeq(s, k + 1, Len(s))[i] = s[k + i]
      BY <2>2, RemainingSequence
    <3> QED
      BY <2>1, <2>2, <3>1
  <2>4. r = IpMark <=> r[1] = Backslash /\ r[2] = "i" /\ r[3] = "p" /\ r[4] = Backslash
    <3>1. \A i \in 1..4 : i = 1 \/ i = 2 \/ i = 3 \/ i = 4
      OBVIOUS
    <3> QED
      BY <2>3, <3>1, IpMarkFacts, SequencesEqual
  <2>5. r[1] = s[k + 1] /\ r[2] = s[k + 2] /\ r[3] = s[k + 3] /\ r[4] = s[k + 4]
    <3>1. 1 \in 1..4 /\ 2 \in 1..4 /\ 3 \in 1..4 /\ 4 \in 1..4
      OBVIOUS
    <3> QED
      BY <2>3, <3>1
  <2>6. k + 1 = n - 3 /\ k + 2 = (n - 3) + 1 /\ k + 3 = (n - 3) + 2 /\ k + 4 = (n - 3) + 3
    BY <1>1, <2>1
  <2>7. EndsWithMark(s) <=> r = IpMark
    BY <1>3, <2>1 DEF EndsWithMark
  <2> QED
    BY <1>3, <2>4, <2>5, <2>6, <2>7 DEF MarkAt
<1> QED
  BY <1>2, <1>3

(* Behind a clean piece no mark ends before the one that follows it.        *)
LEMMA NoMark ==
  ASSUME NEW H, Clean(H), NEW y, IsSequence(y), Len(y) > 0, y[1] = Backslash,
         NEW s, StartOf(s, H \o y),
         \A i \in 2..Len(s) - Len(H) : y[i] # Backslash \/ y[i - 1] # "p"
  PROVE  ~EndsWithMark(s)
<1>1. PICK w, bs : w = H \o y /\ bs = <<Backslash>>
  OBVIOUS
<1>2. PICK x : x = H \o bs
  OBVIOUS
<1>3. PICK h, m, n : h = Len(H) /\ m = Len(y) /\ n = Len(s)
  OBVIOUS
<1>4. /\ h \in Nat /\ m \in Nat /\ Len(w) = h + m
      /\ \A i \in 1..h + m : w[i] = IF i <= h THEN H[i] ELSE y[i - h]
  BY <1>1, <1>3, ConcatSequences DEF Clean
<1>5. IsSequence(bs) /\ Len(bs) = 1 /\ bs[1] = Backslash
  <2>1. PICK b : b = Backslash
    OBVIOUS
  <2>2. <<b>> \in Seq({b}) /\ Len(<<b>>) = 1 /\ <<b>>[1] = b
    OBVIOUS
  <2> QED
    BY <1>1, <2>1, <2>2, SequenceOf
<1>6. /\ Len(x) = h + 1
      /\ \A i \in 1..h + 1 : x[i] = IF i <= h THEN H[i] ELSE bs[i - h]
  <2>1. IsSequence(H) /\ IsSequence(bs)
    BY <1>5 DEF Clean
  <2>2. /\ Len(x) = Len(H) + Len(bs)
        /\ \A i \in 1..Len(H) + Len(bs) : x[i] = IF i <= Len(H) THEN H[i] ELSE bs[i - Len(H)]
    BY <1>2, <2>1, ConcatSequences
  <2> QED
    BY <1>3, <1>5, <2>2
<1>7. IsSequence(s) /\ n \in Nat /\ n <= h + m /\ \A i \in 1..n : s[i] = w[i]
  BY <1>1, <1>3, <1>4, LenProperties DEF StartOf, IsSequence
<1>8. \A i \in 1..h + 1 : x[i] = w[i]
  <2> TAKE i \in 1..h + 1
  <2>1. i \in 1..h + m /\ (i <= h \/ (i = h + 1 /\ ~(i <= h) /\ i - h = 1))
    BY <1>3, <1>4
  <2> QED
    BY <1>4, <1>5, <1>6, <2>1
<1>9. \A i \in 1..h - 2 : ~MarkAt(x, i)
  BY <1>1, <1>2, <1>3 DEF Clean
<1>10. SUFFICES ASSUME n >= 4, MarkAt(s, n - 3) PROVE FALSE
  BY <1>3, <1>7, EndsWithMarkFacts
<1>11. CASE n <= h + 1
  <2>1. n - 3 \in 1..h - 2 /\ n - 3 \in 1..n /\ (n - 3) + 1 \in 1..n /\ (n - 3) + 2 \in 1..n /\ (n - 3) + 3 \in 1..n
    BY <1>4, <1>7, <1>10, <1>11
  <2>2. n - 3 \in 1..h + 1 /\ (n - 3) + 1 \in 1..h + 1 /\ (n - 3) + 2 \in 1..h + 1 /\ (n - 3) + 3 \in 1..h + 1
    BY <1>4, <1>7, <1>10, <1>11
  <2>3. MarkAt(x, n - 3)
    BY <1>7, <1>8, <1>10, <2>1, <2>2 DEF MarkAt
  <2> QED
    BY <1>9, <2>1, <2>3
<1>12. CASE n > h + 1
  <2>1. PICK i : i = n - h
    OBVIOUS
  <2>2. i \in 2..n - h /\ (n - 3) + 3 = n /\ (n - 3) + 2 = n - 1 /\ n \in 1..n /\ n - 1 \in 1..n
    BY <1>4, <1>7, <1>10, <1>12, <2>1
  <2>3. /\ n \in 1..h + m /\ n - 1 \in 1..h + m /\ ~(n <= h) /\ ~(n - 1 <= h)
        /\ n - h = i /\ (n - 1) - h = i - 1
    BY <1>4, <1>7, <1>10, <1>12, <2>1
  <2>4. w[n] = y[i] /\ w[n - 1] = y[i - 1]
    BY <1>4, <2>3
  <2>5. s[n] = y[i] /\ s[n - 1] = y[i - 1]
    BY <1>7, <2>2, <2>4
  <2>6. y[i] # Backslash \/ y[i - 1] # "p"
    BY <1>3, <2>2
  <2> QED
    BY <1>10, <2>2, <2>5, <2>6 DEF MarkAt
<1> QED
  BY <1>4, <1>7, <1>11, <1>12

LEMMA MarkEnds ==
  ASSUME NEW H, IsSequence(H), NEW s, s = H \o IpMark
  PROVE  EndsWithMark(s) /\ SubSeq(s, 1, Len(s) - 4) = H /\ Len(s) = Len(H) + 4
<1>1. Len(s) = Len(H) + 4 /\ Len(H) \in Nat
  <2>1. IsSequence(H) /\ IsSequence(IpMark)
    BY IpMarkFacts
  <2>2. Len(s) = Len(H) + Len(IpMark) /\ Len(H) \in Nat
    BY <2>1, ConcatSequences
  <2> QED
    BY <2>2, IpMarkFacts
<1>2. SubSeq(s, 1, Len(H)) = H /\ SubSeq(s, Len(H) + 1, Len(s)) = IpMark
  BY IpMarkFacts, ConcatCut
<1>3. Len(s) - 4 = Len(H) /\ Len(s) - 3 = Len(H) + 1 /\ Len(s) >= 4
  BY <1>1
<1> QED
  BY <1>1, <1>2, <1>3 DEF EndsWithMark

-----------------------------------------------------------------------------
(* The pieces the text is to be cut into: what came with the challenge and *)
(* the servers; and what follows each of them.                             *)
Piece(G, d) == IF d = 0 THEN G ELSE Body(Listing[d])
Rest(G, d) == IF d = 0 THEN IpMark \o (G \o TextDue(0)) ELSE TextDue(d - 1)

LEMMA RestFacts ==
  ASSUME NEW G, IsSequence(G), NEW n, n = Len(Listing)
  PROVE  /\ n \in Nat
         /\ \A d \in 0..n : IsSequence(Piece(G, d))
         /\ \A d \in 0..n + 1 : IsSequence(Rest(G, d))
         /\ \A d \in 0..n : Rest(G, d) = IpMark \o (Piece(G, d) \o Rest(G, d + 1))
         /\ Rest(G, n + 1) = FinalText
<1>1. n \in Nat
  BY ListingFacts
<1>2. \A d \in 0..n : IsSequence(Piece(G, d))
  <2> TAKE d \in 0..n
  <2>1. CASE d = 0
    BY <2>1 DEF Piece
  <2>2. CASE d # 0
    <3>1. d \in 1..Len(Listing)
      BY <1>1, <2>2
    <3> QED
      BY <2>2, <3>1, BodyFacts DEF Piece
  <2> QED
    BY <2>1, <2>2
<1>3. \A d \in 0..n + 1 : IsSequence(Rest(G, d))
  <2> TAKE d \in 0..n + 1
  <2>1. CASE d = 0
    <3>1. PICK t : t = TextDue(0)
      OBVIOUS
    <3>2. IsSequence(t) /\ IsSequence(G) /\ IsSequence(IpMark)
      BY <1>1, <3>1, TextDueFacts, IpMarkFacts
    <3>3. IsSequence(G \o t)
      BY <3>2, ConcatSequences
    <3>4. IsSequence(IpMark \o (G \o t))
      BY <3>2, <3>3, ConcatSequences
    <3> QED
      BY <2>1, <3>1, <3>4 DEF Rest
  <2>2. CASE d # 0
    <3>1. d - 1 \in 0..Len(Listing)
      BY <1>1, <2>2
    <3> QED
      BY <2>2, <3>1, TextDueFacts DEF Rest
  <2> QED
    BY <2>1, <2>2
<1>4. \A d \in 0..n : Rest(G, d) = IpMark \o (Piece(G, d) \o Rest(G, d + 1))
  <2> TAKE d \in 0..n
  <2>1. CASE d = 0
    <3>1. d + 1 # 0 /\ (d + 1) - 1 = 0
      BY <2>1
    <3> QED
      BY <2>1, <3>1 DEF Rest, Piece
  <2>2. CASE d # 0
    <3>1. /\ d - 1 \in 0..Len(Listing) /\ d - 1 < Len(Listing) /\ (d - 1) + 1 = d
          /\ d + 1 # 0 /\ (d + 1) - 1 = d
      BY <1>1, <2>2
    <3>2. TextDue(d - 1) = IpMark \o (Body(Listing[d]) \o TextDue(d))
      BY <3>1, TextDueFacts
    <3> QED
      BY <2>2, <3>1, <3>2 DEF Rest, Piece
  <2> QED
    BY <2>1, <2>2
<1>5. Rest(G, n + 1) = FinalText
  <2>1. n + 1 # 0 /\ (n + 1) - 1 = n
    BY <1>1
  <2> QED
    BY <2>1, TextDueFacts DEF Rest
<1> QED
  BY <1>1, <1>2, <1>3, <1>4, <1>5

LEMMA BodyClean ==
  ASSUME NEW i \in 1..Len(Listing)
  PROVE  Clean(Body(Listing[i]))
<1>1. PICK b : b = Body(Listing[i])
  OBVIOUS
<1>2. /\ IsSequence(b) /\ Len(b) = 4 /\ b[1] \in Hosts /\ b[2] = ":"
  BY <1>1, BodyFacts
<1>3. PICK e, bs : e = Backslash /\ bs = <<e>>
  OBVIOUS
<1>4. IsSequence(bs) /\ Len(bs) = 1
  <2>1. <<e>> \in Seq({e}) /\ Len(<<e>>) = 1
    OBVIOUS
  <2> QED
    BY <1>3, <2>1, SequenceOf
<1>5. ASSUME NEW x, x = b \o bs, NEW j \in 1..Len(b) - 2, MarkAt(x, j)
      PROVE  FALSE
  <2>1. /\ Len(b) = 4
        /\ \A k \in 1..Len(b) + Len(bs) : x[k] = IF k <= Len(b) THEN b[k] ELSE bs[k - Len(b)]
    BY <1>2, <1>4, <1>5, ConcatSequences
  <2>2. x[1] = b[1] /\ x[2] = b[2]
    <3>1. 1 \in 1..Len(b) + Len(bs) /\ 2 \in 1..Len(b) + Len(bs) /\ 1 <= Len(b) /\ 2 <= Len(b)
      BY <1>4, <2>1
    <3> QED
      BY <2>1, <3>1
  <2>3. j = 1 \/ j = 2
    BY <2>1
  <2>4. x[j] = Backslash
    BY <1>5 DEF MarkAt
  <2>5. b[1] # Backslash
    BY <1>2, SeparatorAssumption
  <2>6. b[2] # Backslash
    BY <1>2 DEF Backslash
  <2> QED
    BY <2>2, <2>3, <2>4, <2>5, <2>6
<1> QED
  BY <1>1, <1>2, <1>3, <1>5 DEF Clean

First(G, H, q, j) == IF j = 0 THEN H ELSE Piece(G, q + j - 1)

(* A text that begins with H, and goes on with what follows piece q - 1:    *)
(* what has been split of it, j marks having been met.                      *)
SplitAt(ps, w, G, H, q, j, C) ==
  /\ IsSequence(ps) /\ Len(ps) = j + 1
  /\ \A i \in 1..j : ps[i] = First(G, H, q, i - 1)
  /\ IsSequence(C) /\ IsSequence(ps[j + 1]) /\ w = C \o ps[j + 1]
  /\ H \o Rest(G, q) = C \o (First(G, H, q, j) \o Rest(G, q + j))
  /\ q + j <= Len(Listing) => Len(ps[j + 1]) < Len(First(G, H, q, j)) + 4

LEMMA FirstClean ==
  ASSUME NEW G, NEW H, Clean(G), Clean(H), NEW q \in 0..Len(Listing) + 1,
         NEW j \in 0..Len(Listing) + 1 - q
  PROVE  Clean(First(G, H, q, j))
<1>1. CASE j = 0
  BY <1>1 DEF First
<1>2. CASE j # 0
  <2>1. q + j - 1 \in 0..Len(Listing)
    BY <1>2, ListingFacts
  <2>2. q + j - 1 # 0 => Clean(Body(Listing[q + j - 1]))
    BY <2>1, BodyClean
  <2> QED
    BY <1>2, <2>2 DEF First, Piece
<1> QED
  BY <1>1, <1>2

LEMMA SplitStep ==
  ASSUME NEW G, NEW H, Clean(G), Clean(H), NEW q \in 0..Len(Listing) + 1,
         NEW j \in 0..Len(Listing) + 1 - q, NEW ps, NEW w, NEW C, SplitAt(ps, w, G, H, q, j, C),
         NEW c, StartOf(Append(w, c), H \o Rest(G, q))
  PROVE  \E k \in 0..Len(Listing) + 1 - q : \E D :
           SplitAt(NextPieces(ps, c), Append(w, c), G, H, q, k, D)
<1>1. PICK n \in Nat : n = Len(Listing)
  BY ListingFacts
<1>2. PICK p, F, R : p = ps[j + 1] /\ F = First(G, H, q, j) /\ R = Rest(G, q + j)
  OBVIOUS
<1>3. PICK s : s = Append(p, c)
  OBVIOUS
<1>4. /\ IsSequence(ps) /\ Len(ps) = j + 1 /\ IsSequence(C) /\ IsSequence(p) /\ w = C \o p
      /\ \A i \in 1..j : ps[i] = First(G, H, q, i - 1)
      /\ H \o Rest(G, q) = C \o (F \o R)
      /\ q + j <= n => Len(p) < Len(F) + 4
  BY <1>1, <1>2 DEF SplitAt
<1>5. j \in Nat /\ q + j \in 0..n + 1
  BY <1>1
<1>6. IsSequence(s) /\ Len(s) = Len(p) + 1 /\ Len(p) \in Nat
  BY <1>3, <1>4, AppendSequence, LenProperties DEF IsSequence
<1>7. Append(w, c) = C \o s
  <2>1. IsSequence(C) /\ IsSequence(p)
    BY <1>4
  <2>2. Append(C \o p, c) = C \o Append(p, c)
    BY <2>1, AppendConcat
  <2> QED
    BY <1>3, <1>4, <2>2
<1>8. IsSequence(G) /\ Clean(F) /\ IsSequence(F)
  BY <1>2, FirstClean DEF Clean
<1>9. /\ \A d \in 0..n : IsSequence(Piece(G, d))
      /\ \A d \in 0..n + 1 : IsSequence(Rest(G, d))
      /\ \A d \in 0..n : Rest(G, d) = IpMark \o (Piece(G, d) \o Rest(G, d + 1))
      /\ Rest(G, n + 1) = FinalText
  BY <1>1, <1>8, RestFacts
<1>10. IsSequence(R) /\ IsSequence(F \o R)
  <2>1. IsSequence(R)
    BY <1>2, <1>5, <1>9
  <2> QED
    BY <1>8, <2>1, ConcatSequences
<1>11. StartOf(s, F \o R)
  <2>1. StartOf(C \o s, C \o (F \o R))
    BY <1>4, <1>7
  <2>2. IsSequence(C) /\ IsSequence(s) /\ IsSequence(F \o R)
    BY <1>4, <1>6, <1>10
  <2> QED
    BY <2>1, <2>2, StartCancel
<1>12. PICK h \in Nat : h = Len(F)
  BY <1>8, LenProperties DEF IsSequence
<1>13. PICK e : e = <<>>
  OBVIOUS
<1>14. PICK f : f = Append(Front(ps), s)
  OBVIOUS
<1>15. /\ Last(ps) = p
       /\ IsSequence(f) /\ Len(f) = j + 1
       /\ \A i \in 1..j + 1 : f[i] = IF i <= j THEN ps[i] ELSE s
  <2>1. j \in Nat /\ IsSequence(ps) /\ Len(ps) = j + 1
    BY <1>4, <1>5
  <2>3. IsSequence(ps) /\ Len(ps) > 0
    BY <2>1
  <2>4. /\ IsSequence(f) /\ Len(f) = Len(ps)
        /\ \A i \in 1..Len(ps) : f[i] = IF i = Len(ps) THEN s ELSE ps[i]
    <3>1. /\ IsSequence(Append(Front(ps), s)) /\ Len(Append(Front(ps), s)) = Len(ps)
          /\ \A i \in 1..Len(ps) : Append(Front(ps), s)[i] = IF i = Len(ps) THEN s ELSE ps[i]
      BY <2>3, LastReplaced
    <3> QED
      BY <1>14, <3>1
  <2>5. \A i \in 1..j + 1 : (i <= j /\ i # j + 1) \/ (i = j + 1 /\ ~(i <= j))
    BY <2>1
  <2>2. /\ IsSequence(f) /\ Len(f) = j + 1
        /\ \A i \in 1..j + 1 : f[i] = IF i <= j THEN ps[i] ELSE s
    BY <2>1, <2>4, <2>5
  <2> QED
    BY <1>2, <2>1, <2>2 DEF Last
<1>16. NextPieces(ps, c) = IF EndsWithMark(s) THEN Append(Append(Front(ps), SubSeq(s, 1, Len(s) - 4)), e)
                                              ELSE f
  BY <1>3, <1>13, <1>14, <1>15 DEF NextPieces
<1>17. ASSUME ~EndsWithMark(s), q + j <= n => Len(s) < h + 4
       PROVE  SplitAt(NextPieces(ps, c), Append(w, c), G, H, q, j, C)
  <2>1. NextPieces(ps, c) = f
    BY <1>16, <1>17
  <2>2. f[j + 1] = s /\ \A i \in 1..j : f[i] = ps[i]
    <3>1. j + 1 \in 1..j + 1 /\ ~(j + 1 <= j) /\ \A i \in 1..j : i \in 1..j + 1 /\ i <= j
      BY <1>5
    <3> QED
      BY <1>15, <3>1
  <2> QED
    BY <1>1, <1>2, <1>4, <1>6, <1>7, <1>12, <1>15, <1>17, <2>1, <2>2 DEF SplitAt
<1>18. CASE q + j = n + 1
  <2>1. R = FinalText
    BY <1>2, <1>9, <1>18
  <2>2. \A i \in 2..Len(s) - h : R[i] # Backslash \/ R[i - 1] # "p"
    <3> TAKE i \in 2..Len(s) - h
    <3>1. Len(s) <= h + 3
      <4>1. Len(s) <= Len(F \o R)
        BY <1>11 DEF StartOf
      <4>2. Len(F \o R) = Len(F) + Len(R)
        BY <1>8, <1>10, ConcatSequences
      <4> QED
        BY <1>12, <2>1, <4>1, <4>2, FinalTextFacts
    <3>2. i = 2 \/ i = 3
      BY <1>6, <1>12, <3>1
    <3> QED
      BY <2>1, <3>2, FinalTextFacts DEF Backslash
  <2>3. ~EndsWithMark(s)
    <3>1. Len(R) > 0 /\ R[1] = Backslash
      BY <2>1, FinalTextFacts
    <3>2. Clean(F) /\ IsSequence(R) /\ StartOf(s, F \o R)
      BY <1>8, <1>10, <1>11
    <3>3. \A i \in 2..Len(s) - Len(F) : R[i] # Backslash \/ R[i - 1] # "p"
      BY <1>12, <2>2
    <3> QED
      BY <3>1, <3>2, <3>3, NoMark
  <2>4. ~(q + j <= n)
    BY <1>1, <1>18
  <2> QED
    BY <1>1, <1>17, <2>3, <2>4
<1>19. CASE q + j # n + 1
  <2>1. q + j \in 0..n /\ q + j <= n
    BY <1>1, <1>5, <1>19
  <2>2. PICK B, Q : B = Piece(G, q + j) /\ Q = Rest(G, q + j + 1)
    OBVIOUS
  <2>3. PICK a : a = B \o Q
    OBVIOUS
  <2>4. R = IpMark \o a
    BY <1>2, <1>9, <2>1, <2>2, <2>3
  <2>5. IsSequence(B) /\ IsSequence(Q) /\ IsSequence(a)
    <3>1. q + j + 1 \in 0..n + 1
      BY <2>1
    <3>2. IsSequence(B) /\ IsSequence(Q)
      BY <1>9, <2>1, <2>2, <3>1
    <3> QED
      BY <2>3, <3>2, ConcatSequences
  <2>6. Len(s) <= h + 4
    BY <1>4, <1>6, <1>12, <2>1
  <2>7. /\ Len(R) > 0
        /\ R[1] = Backslash /\ R[2] = "i" /\ R[3] = "p"
    <3>1. IsSequence(IpMark) /\ IsSequence(a)
      BY <2>5, IpMarkFacts
    <3>2. /\ Len(R) = Len(IpMark) + Len(a) /\ Len(a) \in Nat
          /\ \A i \in 1..Len(IpMark) + Len(a) : R[i] = IF i <= Len(IpMark) THEN IpMark[i] ELSE a[i - Len(IpMark)]
      BY <2>4, <3>1, ConcatSequences
    <3>3. \A i \in 1..4 + Len(a) : R[i] = IF i <= 4 THEN IpMark[i] ELSE a[i - 4]
      BY <3>2, IpMarkFacts
    <3>4. 1 \in 1..4 + Len(a) /\ 2 \in 1..4 + Len(a) /\ 3 \in 1..4 + Len(a)
      BY <3>2
    <3>5. R[1] = IpMark[1] /\ R[2] = IpMark[2] /\ R[3] = IpMark[3]
      BY <3>3, <3>4
    <3>6. Len(R) > 0
      BY <3>2, IpMarkFacts
    <3> QED
      BY <3>5, <3>6, IpMarkFacts
  <2>8. CASE Len(s) < h + 4
    <3>1. \A i \in 2..Len(s) - Len(F) : R[i] # Backslash \/ R[i - 1] # "p"
      <4> TAKE i \in 2..Len(s) - Len(F)
      <4>1. i = 2 \/ i = 3
        BY <1>6, <1>12, <2>8
      <4> QED
        BY <2>7, <4>1 DEF Backslash
    <3>2. Clean(F) /\ IsSequence(R) /\ StartOf(s, F \o R)
      BY <1>8, <1>10, <1>11
    <3>3. ~EndsWithMark(s)
      BY <2>7, <3>1, <3>2, NoMark
    <3> QED
      BY <1>1, <1>17, <2>8, <3>3
  <2>9. CASE Len(s) = h + 4
    <3>1. PICK m : m = F \o IpMark
      OBVIOUS
    <3>2. IsSequence(m) /\ Len(m) = h + 4
      <4>1. IsSequence(F) /\ IsSequence(IpMark)
        BY <1>8, IpMarkFacts
      <4>2. IsSequence(m) /\ Len(m) = Len(F) + Len(IpMark)
        BY <3>1, <4>1, ConcatSequences
      <4> QED
        BY <1>12, <4>2, IpMarkFacts
    <3>3. F \o R = m \o a
      <4>1. IsSequence(F) /\ IsSequence(IpMark) /\ IsSequence(a)
        BY <1>8, <2>5, IpMarkFacts
      <4>2. (F \o IpMark) \o a = F \o (IpMark \o a)
        BY <4>1, ConcatRegroups
      <4> QED
        BY <2>4, <3>1, <4>2
    <3>4. s = m
      <4>1. StartOf(s, m \o a) /\ IsSequence(m) /\ IsSequence(a) /\ Len(s) = Len(m)
        BY <1>11, <2>5, <2>9, <3>2, <3>3
      <4>2. /\ \A i \in 1..Len(m) + Len(a) : (m \o a)[i] = IF i <= Len(m) THEN m[i] ELSE a[i - Len(m)]
            /\ Len(m) \in Nat /\ Len(a) \in Nat
        BY <4>1, ConcatSequences
      <4>3. \A i \in 1..Len(s) : s[i] = (m \o a)[i]
        BY <4>1 DEF StartOf
      <4>4. \A i \in 1..Len(s) : i \in 1..Len(m) + Len(a) /\ i <= Len(m)
        BY <4>1, <4>2
      <4>5. \A i \in 1..Len(s) : s[i] = m[i]
        BY <4>2, <4>3, <4>4
      <4> QED
        BY <1>6, <4>1, <4>5, SequencesEqual
    <3>5. EndsWithMark(s) /\ SubSeq(s, 1, Len(s) - 4) = F
      BY <1>8, <3>1, <3>4, MarkEnds
    <3>6. PICK g : g = Append(Append(Front(ps), F), e)
      OBVIOUS
    <3>7. NextPieces(ps, c) = g
      BY <1>16, <3>5, <3>6
    <3>8. /\ IsSequence(g) /\ Len(g) = j + 2
          /\ \A i \in 1..j + 2 : g[i] = IF i <= j THEN ps[i] ELSE IF i = j + 1 THEN F ELSE e
      <4>1. j \in Nat /\ IsSequence(ps) /\ Len(ps) = j + 1
        BY <1>4, <1>5
      <4>2. IsSequence(ps) /\ Len(ps) > 0
        BY <4>1
      <4>3. PICK u : u = Append(Front(ps), F)
        OBVIOUS
      <4>4. IsSequence(u) /\ Len(u) = j + 1 /\ \A i \in 1..j + 1 : u[i] = IF i = j + 1 THEN F ELSE ps[i]
        <5>1. /\ IsSequence(Append(Front(ps), F)) /\ Len(Append(Front(ps), F)) = Len(ps)
              /\ \A i \in 1..Len(ps) : Append(Front(ps), F)[i] = IF i = Len(ps) THEN F ELSE ps[i]
          BY <4>2, LastReplaced
        <5> QED
          BY <4>1, <4>3, <5>1
      <4>5. g = Append(u, e)
        BY <3>6, <4>3
      <4>6. /\ IsSequence(g) /\ Len(g) = (j + 1) + 1
            /\ \A i \in 1..(j + 1) + 1 : g[i] = IF i <= j + 1 THEN u[i] ELSE e
        <5>1. IsSequence(u)
          BY <4>4
        <5>2. /\ IsSequence(g) /\ Len(g) = Len(u) + 1
              /\ \A i \in 1..Len(u) + 1 : g[i] = IF i <= Len(u) THEN u[i] ELSE e
          BY <4>5, <5>1, AppendSequence, AppendElements
        <5> QED
          BY <4>4, <5>2
      <4>7. \A i \in 1..j + 2 : g[i] = IF i <= j THEN ps[i] ELSE IF i = j + 1 THEN F ELSE e
        <5> TAKE i \in 1..j + 2
        <5>1. i \in 1..(j + 1) + 1
          BY <1>5
        <5>2. CASE i = j + 2
          <6>1. ~(i <= j + 1) /\ ~(i <= j) /\ i # j + 1
            BY <1>5, <5>2
          <6> QED
            BY <4>6, <5>1, <6>1
        <5>3. CASE i # j + 2
          <6>1. i \in 1..j + 1 /\ i <= j + 1 /\ (i <= j <=> i # j + 1)
            BY <1>5, <5>3
          <6>2. g[i] = u[i] /\ u[i] = IF i = j + 1 THEN F ELSE ps[i]
            BY <4>4, <4>6, <5>1, <6>1
          <6> QED
            BY <6>1, <6>2
        <5> QED
          BY <5>2, <5>3
      <4>8. Len(g) = j + 2
        BY <1>5, <4>6
      <4> QED
        BY <4>6, <4>7, <4>8
    <3>9. PICK k : k = j + 1
      OBVIOUS
    <3>10. /\ k \in 0..Len(Listing) + 1 - q /\ k # 0 /\ q + k = q + j + 1 /\ q + k - 1 = q + j
           /\ Len(g) = k + 1
      BY <1>1, <2>1, <3>8, <3>9
    <3>11. g[k + 1] = e /\ \A i \in 1..k : g[i] = First(G, H, q, i - 1)
      <4>1. k + 1 \in 1..j + 2 /\ ~(k + 1 <= j) /\ k + 1 # j + 1
        BY <1>5, <3>9
      <4>2. g[k + 1] = e
        BY <3>8, <4>1
      <4>3. \A i \in 1..k : g[i] = First(G, H, q, i - 1)
        <5> TAKE i \in 1..k
        <5>1. CASE i = j + 1
          <6>1. i \in 1..j + 2 /\ ~(i <= j) /\ i - 1 = j
            BY <1>5, <5>1
          <6> QED
            BY <1>2, <3>8, <5>1, <6>1
        <5>2. CASE i # j + 1
          <6>1. i \in 1..j /\ i \in 1..j + 2 /\ i <= j
            BY <1>5, <3>9, <5>2
          <6> QED
            BY <1>4, <3>8, <6>1
        <5> QED
          BY <5>1, <5>2
      <4> QED
        BY <4>2, <4>3
    <3>12. PICK D : D = C \o s
      OBVIOUS
    <3>13. IsSequence(D) /\ IsSequence(e) /\ Len(e) = 0 /\ D \o e = D
      <4>1. IsSequence(D)
        BY <1>4, <1>6, <3>12, ConcatSequences
      <4> QED
        BY <1>13, <4>1, EmptySequence, EmptyConcat
    <3>14. Append(w, c) = D \o g[k + 1]
      BY <1>7, <3>11, <3>12, <3>13
    <3>15. First(G, H, q, k) = B /\ Rest(G, q + k) = Q
      BY <2>2, <3>10 DEF First
    <3>16. H \o Rest(G, q) = D \o (B \o Q)
      <4>1. C \o (s \o a) = (C \o s) \o a
        <5>1. IsSequence(C) /\ IsSequence(s) /\ IsSequence(a)
          BY <1>4, <1>6, <2>5
        <5> QED
          BY <5>1, ConcatRegroups
      <4>2. F \o R = s \o a
        BY <3>3, <3>4
      <4> QED
        BY <1>4, <2>3, <3>12, <4>1, <4>2
    <3>17. Len(g[k + 1]) < Len(First(G, H, q, k)) + 4
      <4>1. Len(B) \in Nat
        BY <2>5, LenProperties DEF IsSequence
      <4> QED
        BY <3>11, <3>13, <3>15, <4>1
    <3>18. SplitAt(g, Append(w, c), G, H, q, k, D)
      BY <3>8, <3>10, <3>11, <3>13, <3>14, <3>15, <3>16, <3>17 DEF SplitAt
    <3> QED
      BY <3>7, <3>10, <3>18
  <2> QED
    BY <1>6, <1>12, <2>6, <2>8, <2>9
<1> QED
  BY <1>18, <1>19

(* A text that goes on where H is expected is cut into the pieces of the    *)
(* list, the last of them as far as it came.                                *)
LEMMA SplitPieces ==
  ASSUME NEW G, NEW H, Clean(G), Clean(H), NEW q \in 0..Len(Listing) + 1,
         NEW v, StartOf(v, H \o Rest(G, q))
  PROVE  \E j \in 0..Len(Listing) + 1 - q : \E C : SplitAt(Split(v), v, G, H, q, j, C)
<1>1. PICK W : W = H \o Rest(G, q)
  OBVIOUS
<1>2. PICK l \in Nat : l = Len(v)
  BY LenProperties DEF StartOf, IsSequence
<1>3. IsSequence(v) /\ StartOf(v, W)
  BY <1>1 DEF StartOf
<1>4. PICK g : /\ g[0] = <<<<>>>>
               /\ \A n \in 0..l - 1 : g[n + 1] = NextPieces(g[n], v[n + 1])
               /\ Split(v) = g[l]
  BY <1>2, <1>3, SplitSteps
<1> DEFINE Done(n) == \E j \in 0..Len(Listing) + 1 - q : \E C : SplitAt(g[n], SubSeq(v, 1, n), G, H, q, j, C)
           T == {m \in 1..l + 1 : Done(m - 1)}
<1>5. IsSequence(H) /\ Len(H) \in Nat /\ Len(Listing) \in Nat /\ q \in Nat
  BY ListingFacts, LenProperties DEF Clean, IsSequence
<1>6. Done(0)
  <2>1. PICK e, ps : e = <<>> /\ ps = <<e>>
    OBVIOUS
  <2>2. ps \in Seq({e}) /\ Len(ps) = 1 /\ ps[1] = e
    BY <2>1
  <2>3. IsSequence(ps) /\ IsSequence(e) /\ Len(e) = 0
    BY <2>1, <2>2, SequenceOf, EmptySequence
  <2>4. SubSeq(v, 1, 0) = e
    <3>0. PICK z \in Nat : z = 0
      OBVIOUS
    <3>1. PICK s : s = SubSeq(v, 1, z)
      OBVIOUS
    <3>2. IsSequence(s) /\ Len(s) = z
      BY <3>1, ChunkSequence
    <3>3. s = e
      BY <2>3, <3>0, <3>2, SequencesEqual
    <3> QED
      BY <3>0, <3>1, <3>3
  <2>5. e \o e = e /\ W = e \o W
    <3>1. IsSequence(W)
      BY <1>3 DEF StartOf
    <3> QED
      BY <2>1, <2>3, <3>1, EmptyConcat
  <2>6. g[0] = ps
    BY <1>4, <2>1
  <2>7. First(G, H, q, 0) = H /\ q + 0 = q
    BY <1>5 DEF First
  <2>8. Len(ps) = 0 + 1 /\ ps[0 + 1] = e /\ (q + 0 <= Len(Listing) => Len(e) < Len(H) + 4)
    BY <1>5, <2>2, <2>3
  <2>9. H \o Rest(G, q) = e \o (First(G, H, q, 0) \o Rest(G, q + 0))
    BY <1>1, <2>5, <2>7
  <2>10. SplitAt(ps, e, G, H, q, 0, e)
    BY <2>3, <2>5, <2>7, <2>8, <2>9 DEF SplitAt
  <2>11. 0 \in 0..Len(Listing) + 1 - q
    BY <1>5
  <2> QED
    BY <2>4, <2>6, <2>10, <2>11
<1>7. ASSUME NEW n \in 0..l - 1, Done(n)
      PROVE  Done(n + 1)
  <2>1. PICK w, c : w = SubSeq(v, 1, n) /\ c = v[n + 1]
    OBVIOUS
  <2>2. PICK j \in 0..Len(Listing) + 1 - q : \E C : SplitAt(g[n], w, G, H, q, j, C)
    BY <1>7, <2>1
  <2>9. PICK C : SplitAt(g[n], w, G, H, q, j, C)
    BY <2>2
  <2>3. Append(w, c) = SubSeq(v, 1, n + 1)
    BY <1>2, <1>3, <2>1, SubSeqNext
  <2>4. n + 1 \in 0..Len(v)
    BY <1>2
  <2>5. StartOf(SubSeq(v, 1, n + 1), W)
    BY <1>3, <2>4, StartCut
  <2>6. StartOf(Append(w, c), H \o Rest(G, q))
    BY <1>1, <2>3, <2>5
  <2>7. \E k \in 0..Len(Listing) + 1 - q : \E D : SplitAt(NextPieces(g[n], c), Append(w, c), G, H, q, k, D)
    BY <2>6, <2>9, SplitStep
  <2>8. NextPieces(g[n], c) = g[n + 1]
    BY <1>4, <2>1
  <2> QED
    BY <2>3, <2>7, <2>8
<1> HIDE DEF Done
<1>8. \A m \in 1..l + 1 : m \in T
  <2>1. 1 \in T
    <3>1. 1 \in 1..l + 1 /\ 1 - 1 = 0
      BY <1>2
    <3> QED
      BY <1>6, <3>1
  <2>2. ASSUME NEW m \in 1..(l + 1) - 1, m \in T
        PROVE  m + 1 \in T
    <3>1. m - 1 \in 0..l - 1 /\ (m - 1) + 1 = m /\ (m + 1) - 1 = m /\ m + 1 \in 1..l + 1
      BY <1>2
    <3>2. Done(m)
      BY <1>7, <2>2, <3>1
    <3> QED
      BY <3>1, <3>2
  <2>3. l + 1 \in Nat
    BY <1>2
  <2> HIDE DEF T
  <2> QED
    BY <2>1, <2>2, <2>3, InductionTo
<1>9. Done(l)
  <2>1. l + 1 \in 1..l + 1 /\ (l + 1) - 1 = l
    BY <1>2
  <2> QED
    BY <1>8, <2>1
<1>10. SubSeq(v, 1, l) = v
  <2> DEFINE S == ToSet(v)
  <2>1. v \in Seq(S)
    BY <1>3 DEF IsSequence
  <2> HIDE DEF S
  <2> QED
    BY <1>2, <2>1, SubSeqFull
<1> QED
  BY <1>4, <1>9, <1>10 DEF Done

-----------------------------------------------------------------------------
(* What is left of the greeting when secure\ was read.                      *)
Leftover(G) == Clean(G) /\ \A i \in 1..Len(G) : G[i] \notin Hosts

LEMMA WindowFacts ==
  ASSUME NEW s, IsSequence(s), NEW k \in 1..Len(s) - 3, MarkAt(s, k)
  PROVE  SubSeq(s, k, k + 3) = IpMark
<1> DEFINE S == ToSet(s)
<1>1. s \in Seq(S) /\ Len(s) \in Nat
  BY LenProperties DEF IsSequence
<1> HIDE DEF S
<1>2. PICK r, n : r = SubSeq(s, k, n) /\ n = k + 3
  OBVIOUS
<1>3. \A i \in k..n : s[i] \in S
  BY <1>1, <1>2, ElementOfSeq
<1>4. k \in Int /\ n \in Int /\ k <= n /\ n - k + 1 = 4
  BY <1>1, <1>2
<1>5. /\ r \in Seq(S)
      /\ Len(r) = IF k <= n THEN n - k + 1 ELSE 0
      /\ \A i \in 1..n - k + 1 : r[i] = s[k + i - 1]
  BY <1>2, <1>3, <1>4, SubSeqProperties
<1>6. IsSequence(r) /\ Len(r) = 4
  BY <1>4, <1>5, SequenceOf
<1>7. r[1] = s[k] /\ r[2] = s[k + 1] /\ r[3] = s[k + 2] /\ r[4] = s[k + 3]
  <2>1. \A i \in 1..4 : r[i] = s[k + i - 1]
    BY <1>4, <1>5
  <2>2. 1 \in 1..4 /\ 2 \in 1..4 /\ 3 \in 1..4 /\ 4 \in 1..4
    OBVIOUS
  <2>3. k + 1 - 1 = k /\ k + 2 - 1 = k + 1 /\ k + 3 - 1 = k + 2 /\ k + 4 - 1 = k + 3
    BY <1>4
  <2>4. r[1] = s[k + 1 - 1] /\ r[2] = s[k + 2 - 1] /\ r[3] = s[k + 3 - 1] /\ r[4] = s[k + 4 - 1]
    BY <2>1, <2>2
  <2> QED
    BY <2>3, <2>4
<1>8. \A i \in 1..4 : r[i] = IpMark[i]
  <2>1. \A i \in 1..4 : i = 1 \/ i = 2 \/ i = 3 \/ i = 4
    OBVIOUS
  <2> QED
    BY <1>7, <2>1, IpMarkFacts DEF MarkAt
<1>9. r = IpMark
  BY <1>6, <1>8, IpMarkFacts, SequencesEqual
<1> QED
  BY <1>2, <1>9

LEMMA GreetingLeft ==
  ASSUME session \in Sessions, session.kind = "goa", NEW n \in 2..Len(Greeting),
         NEW G, G = SubSeq(Greeting, n + 1, Len(Greeting))
  PROVE  Leftover(G)
<1>1. PICK g, l, rest, b : g = Greeting /\ l = Len(g) /\ rest = Challenge \o session.junk /\ b = Backslash
  OBVIOUS
<1>2. PICK bs : bs = <<b>>
  OBVIOUS
<1>3. PICK extra : extra = rest \o bs
  OBVIOUS
<1>4. /\ IsSequence(g) /\ l \in Nat /\ n \in 2..l
      /\ SubSeq(g, 3, l) = rest
  BY <1>1, GreetingFacts, LenProperties DEF IsSequence
<1>5. /\ IsSequence(rest) /\ Len(rest) = l - 2
      /\ \A i \in 1..l - 2 : rest[i] = g[2 + i]
  <2>1. PICK t : t = 2
    OBVIOUS
  <2>2. t \in 0..Len(g)
    BY <1>1, <1>4, <2>1
  <2>3. /\ IsSequence(SubSeq(g, t + 1, Len(g)))
        /\ Len(SubSeq(g, t + 1, Len(g))) = Len(g) - t
        /\ \A i \in 1..Len(g) - t : SubSeq(g, t + 1, Len(g))[i] = g[t + i]
    BY <1>4, <2>2, RemainingSequence
  <2>4. SubSeq(g, t + 1, Len(g)) = rest
    BY <1>1, <1>4, <2>1
  <2> QED
    BY <1>1, <2>1, <2>3, <2>4
<1>6. /\ IsSequence(G) /\ Len(G) = l - n
      /\ \A i \in 1..l - n : G[i] = g[n + i]
  <2>1. n \in 0..Len(g)
    BY <1>1, <1>4
  <2>2. /\ IsSequence(SubSeq(g, n + 1, Len(g)))
        /\ Len(SubSeq(g, n + 1, Len(g))) = Len(g) - n
        /\ \A i \in 1..Len(g) - n : SubSeq(g, n + 1, Len(g))[i] = g[n + i]
    BY <1>4, <2>1, RemainingSequence
  <2> QED
    BY <1>1, <2>2
<1>7. \A i \in 1..l - n : G[i] = rest[n - 2 + i]
  <2> TAKE i \in 1..l - n
  <2>1. n - 2 + i \in 1..l - 2 /\ 2 + (n - 2 + i) = n + i
    BY <1>4
  <2> QED
    BY <1>5, <1>6, <2>1
<1>8. bs \in Seq({b}) /\ Len(bs) = 1 /\ bs[1] = b
  BY <1>2
<1>9. IsSequence(bs)
  BY <1>8, SequenceOf
<1>10. /\ IsSequence(extra) /\ Len(extra) = l - 1
       /\ \A i \in 1..l - 1 : extra[i] = IF i <= l - 2 THEN rest[i] ELSE bs[i - (l - 2)]
  <2>1. /\ IsSequence(extra) /\ Len(extra) = Len(rest) + Len(bs)
        /\ \A i \in 1..Len(rest) + Len(bs) : extra[i] = IF i <= Len(rest) THEN rest[i] ELSE bs[i - Len(rest)]
    BY <1>3, <1>5, <1>9, ConcatSequences
  <2>2. Len(rest) = l - 2 /\ Len(rest) + Len(bs) = l - 1
    BY <1>4, <1>5, <1>8
  <2> QED
    BY <2>1, <2>2
<1>11. /\ \A i \in 1..Len(extra) : extra[i] \notin Hosts
       /\ \A i \in 1..Len(extra) - 3 : SubSeq(extra, i, i + 3) # IpMark
  <2>1. extra = Challenge \o session.junk \o <<Backslash>>
    BY <1>1, <1>2, <1>3
  <2>2. session \in GOASessions
    BY DEF GOASessions
  <2> QED
    BY <2>1, <2>2, SeparatorAssumption
<1>12. \A i \in 1..Len(G) : G[i] \notin Hosts
  <2> TAKE i \in 1..Len(G)
  <2>1. n - 2 + i \in 1..l - 1 /\ n - 2 + i <= l - 2 /\ i \in 1..l - n
    BY <1>4, <1>6
  <2>2. G[i] = extra[n - 2 + i]
    BY <1>7, <1>10, <2>1
  <2> QED
    BY <1>10, <1>11, <2>1, <2>2
<1>13. ASSUME NEW x, x = G \o bs, NEW i \in 1..Len(G) - 2, MarkAt(x, i)
       PROVE  FALSE
  <2>1. /\ Len(x) = Len(G) + Len(bs)
        /\ \A k \in 1..Len(G) + Len(bs) : x[k] = IF k <= Len(G) THEN G[k] ELSE bs[k - Len(G)]
    BY <1>6, <1>9, <1>13, ConcatSequences
  <2>2. \A k \in 1..l - n + 1 : x[k] = extra[n - 2 + k]
    <3> TAKE k \in 1..l - n + 1
    <3>1. k \in 1..Len(G) + Len(bs) /\ n - 2 + k \in 1..l - 1
      BY <1>4, <1>6, <1>8
    <3>2. CASE k <= Len(G)
      <4>1. k \in 1..l - n /\ n - 2 + k <= l - 2
        BY <1>4, <1>6, <3>2
      <4> QED
        BY <1>7, <1>10, <2>1, <3>1, <3>2, <4>1
    <3>3. CASE ~(k <= Len(G))
      <4>1. ~(n - 2 + k <= l - 2) /\ (n - 2 + k) - (l - 2) = k - Len(G)
        <5>1. k > l - n /\ Len(G) = l - n
          BY <1>4, <1>6, <3>3
        <5>2. k \in Int /\ l \in Int /\ n \in Int
          BY <1>4
        <5>3. ~(n - 2 + k <= l - 2)
          BY <5>1, <5>2
        <5>4. (n - 2 + k) - (l - 2) = k - (l - n)
          BY <5>2
        <5> QED
          BY <5>1, <5>3, <5>4
      <4> QED
        BY <1>10, <2>1, <3>1, <3>3, <4>1
    <3> QED
      BY <3>2, <3>3
  <2>3. /\ i \in 1..l - n + 1 /\ i + 1 \in 1..l - n + 1 /\ i + 2 \in 1..l - n + 1 /\ i + 3 \in 1..l - n + 1
        /\ n - 2 + (i + 1) = (n - 2 + i) + 1 /\ n - 2 + (i + 2) = (n - 2 + i) + 2
        /\ n - 2 + (i + 3) = (n - 2 + i) + 3
        /\ n - 2 + i \in 1..Len(extra) - 3
    BY <1>4, <1>6, <1>10
  <2>4. PICK k : k = n - 2 + i
    OBVIOUS
  <2>5. x[i] = extra[k] /\ x[i + 1] = extra[k + 1] /\ x[i + 2] = extra[k + 2] /\ x[i + 3] = extra[k + 3]
    BY <2>2, <2>3, <2>4
  <2>6. MarkAt(extra, k)
    BY <1>13, <2>5 DEF MarkAt
  <2>7. k \in 1..Len(extra) - 3
    BY <2>3, <2>4
  <2>8. SubSeq(extra, k, k + 3) = IpMark
    BY <1>10, <2>6, <2>7, WindowFacts
  <2> QED
    BY <1>11, <2>7, <2>8
<1> QED
  BY <1>1, <1>2, <1>6, <1>12, <1>13 DEF Leftover, Clean

-----------------------------------------------------------------------------
(* The invariant of a session with a textual list.                          *)
Leftovers == {SubSeq(Greeting, n + 1, Len(Greeting)) : n \in 2..Len(Greeting)}

(* The servers in front of piece d. *)
Served(d) == IF d = 0 THEN 0 ELSE d - 1

(* Behind p comes on the stream what completes w. *)
Awaits(p, w) ==
  /\ IsSequence(p) /\ IsSequence(stream)
  /\ StartOf(p \o stream, w)
  /\ validated /\ ~lost => p \o stream = w

(* What a pass leaves is the beginning of piece d. *)
Kept(p, G, d) ==
  /\ d < Len(Listing) => Len(p) < Len(Piece(G, d)) + 4
  /\ Awaits(p, Piece(G, d) \o Rest(G, d + 1))

TextKept(G) ==
  \/ ipStringAccum = <<>> /\ handled = <<>> /\ Awaits(<<>>, G \o Rest(G, 1))
  \/ \E d \in 0..Len(Listing) : \E p :
       ipStringAccum = IpMark \o p /\ Len(handled) = Served(d) /\ Kept(p, G, d)

(* In a pass: z pieces that are no addresses, servers, and the last piece.  *)
TextPass(G) ==
  /\ IsSequence(splitData)
  /\ \E d \in 0..Len(Listing), z \in 0..Len(splitData) - 1 :
       /\ Kept(splitData[Len(splitData)], G, d)
       /\ Len(handled) + (Len(splitData) - 1 - z) = Served(d)
       /\ \A i \in 1..z : ~IsAddrPort(splitData[i])
       /\ \A i \in z + 1..Len(splitData) - 1 : splitData[i] = Body(Listing[Len(handled) + i - z])

TextInv ==
  session.kind = "goa" /\ NoCompressedList =>
    /\ pc \in {"auth", "list", "split", "tail", "done", "panic"}
    /\ pc = "auth" => /\ handled = <<>> /\ ipStringAccum = <<>> /\ ~shortRead /\ ~validated
                      /\ StartOf(stream, Greeting)
                      /\ ~closed => stream = Greeting
                      /\ ~lost => ~closed
    /\ pc \in {"list", "split", "tail", "done"} => shortRead \/ lost \/ validated
    /\ pc \in {"list", "split", "tail", "panic"} => InOrder
    /\ pc \in {"list", "tail"} => \E G \in Leftovers : TextKept(G)
    /\ pc = "split" => \E G \in Leftovers : TextPass(G)
    /\ pc = "tail" => lost \/ stream = <<>>
    /\ pc = "done" /\ validated /\ ~lost => handled = Listing

LEMMA StartPart ==
  ASSUME NEW x, NEW y, NEW w, IsSequence(x), IsSequence(y), StartOf(x \o y, w)
  PROVE  StartOf(x, w)
<1>1. PICK u, m, n : u = x \o y /\ m = Len(x) /\ n = Len(y)
  OBVIOUS
<1>2. /\ m \in Nat /\ n \in Nat /\ Len(u) = m + n
      /\ \A i \in 1..m + n : u[i] = IF i <= m THEN x[i] ELSE y[i - m]
  BY <1>1, ConcatSequences
<1>3. IsSequence(w) /\ Len(u) <= Len(w) /\ \A i \in 1..Len(u) : u[i] = w[i]
  BY <1>1 DEF StartOf
<1>4. Len(w) \in Nat
  BY <1>3, LenProperties DEF IsSequence
<1>5. m <= Len(w) /\ \A i \in 1..m : i \in 1..m + n /\ i <= m
  BY <1>2, <1>3, <1>4
<1>6. \A i \in 1..m : x[i] = w[i]
  BY <1>2, <1>3, <1>5
<1> QED
  BY <1>1, <1>3, <1>5, <1>6 DEF StartOf

LEMMA StartLonger ==
  ASSUME NEW x, NEW w, NEW r, StartOf(x, w), IsSequence(r)
  PROVE  StartOf(x, w \o r)
<1>1. PICK u, m, n : u = w \o r /\ m = Len(w) /\ n = Len(r)
  OBVIOUS
<1>2. IsSequence(w) /\ IsSequence(x) /\ Len(x) <= m /\ \A i \in 1..Len(x) : x[i] = w[i]
  BY <1>1 DEF StartOf
<1>3. /\ IsSequence(u) /\ m \in Nat /\ n \in Nat /\ Len(u) = m + n
      /\ \A i \in 1..m + n : u[i] = IF i <= m THEN w[i] ELSE r[i - m]
  BY <1>1, <1>2, ConcatSequences
<1>4. Len(x) \in Nat
  BY <1>2, LenProperties DEF IsSequence
<1>5. Len(x) <= m + n /\ \A i \in 1..Len(x) : i \in 1..m + n /\ i <= m
  BY <1>2, <1>3, <1>4
<1>6. \A i \in 1..Len(x) : x[i] = u[i]
  BY <1>2, <1>3, <1>5
<1> QED
  BY <1>1, <1>2, <1>3, <1>5, <1>6 DEF StartOf

LEMMA WholeSequence ==
  ASSUME NEW s, IsSequence(s)
  PROVE  SubSeq(s, 1, Len(s)) = s
BY SubSeqFull DEF IsSequence

(* What a Read takes and what it leaves make up what there was.             *)
LEMMA CutAndRest ==
  ASSUME NEW p, NEW s, IsSequence(p), IsSequence(s), NEW n \in 0..Len(s)
  PROVE  /\ IsSequence(SubSeq(s, 1, n)) /\ IsSequence(SubSeq(s, n + 1, Len(s)))
         /\ (p \o SubSeq(s, 1, n)) \o SubSeq(s, n + 1, Len(s)) = p \o s
<1>1. PICK a, b : a = SubSeq(s, 1, n) /\ b = SubSeq(s, n + 1, Len(s))
  OBVIOUS
<1>2. Len(s) \in Nat /\ n \in Nat /\ n <= Len(s)
  BY LenProperties DEF IsSequence
<1>3. IsSequence(a) /\ Len(a) = n
  BY <1>1, <1>2, ChunkSequence
<1>4. IsSequence(b) /\ Len(b) = Len(s) - n /\ \A i \in 1..Len(s) - n : b[i] = s[n + i]
  BY <1>1, RemainingSequence
<1>5. \A i \in 1..n : a[i] = s[i]
  <2> DEFINE S == ToSet(s)
  <2>1. s \in Seq(S)
    BY DEF IsSequence
  <2> HIDE DEF S
  <2>2. \A i \in 1..n : s[i] \in S
    BY <1>2, <2>1, ElementOfSeq
  <2>3. \A i \in 1..n - 1 + 1 : a[i] = s[1 + i - 1]
    BY <1>1, <1>2, <2>2, SubSeqProperties
  <2>4. \A i \in 1..n : i \in 1..n - 1 + 1 /\ 1 + i - 1 = i
    BY <1>2
  <2> QED
    BY <2>3, <2>4
<1>6. PICK c : c = a \o b
  OBVIOUS
<1>7. /\ IsSequence(c) /\ Len(c) = Len(s)
      /\ \A i \in 1..Len(s) : c[i] = IF i <= n THEN a[i] ELSE b[i - n]
  <2>1. /\ IsSequence(c) /\ Len(c) = Len(a) + Len(b)
        /\ \A i \in 1..Len(a) + Len(b) : c[i] = IF i <= Len(a) THEN a[i] ELSE b[i - Len(a)]
    BY <1>3, <1>4, <1>6, ConcatSequences
  <2>2. Len(a) + Len(b) = Len(s)
    BY <1>2, <1>3, <1>4
  <2> QED
    BY <1>3, <2>1, <2>2
<1>8. \A i \in 1..Len(s) : c[i] = s[i]
  <2> TAKE i \in 1..Len(s)
  <2>1. CASE i <= n
    BY <1>5, <1>7, <2>1
  <2>2. CASE ~(i <= n)
    <3>1. i - n \in 1..Len(s) - n /\ n + (i - n) = i
      BY <1>2, <2>2
    <3> QED
      BY <1>4, <1>7, <2>2, <3>1
  <2> QED
    BY <2>1, <2>2
<1>9. c = s
  BY <1>7, <1>8, SequencesEqual
<1>10. (p \o a) \o b = p \o (a \o b)
  BY <1>3, <1>4, ConcatRegroups
<1> QED
  BY <1>1, <1>3, <1>4, <1>6, <1>9, <1>10

LEMMA BehindBoth ==
  ASSUME NEW C, NEW p, NEW s, NEW w, IsSequence(C), IsSequence(p), IsSequence(s), IsSequence(w),
         StartOf((C \o p) \o s, C \o w)
  PROVE  StartOf(p \o s, w)
<1>1. PICK x : x = p \o s
  OBVIOUS
<1>2. IsSequence(x)
  BY <1>1, ConcatSequences
<1>3. (C \o p) \o s = C \o x
  BY <1>1, ConcatRegroups
<1>4. StartOf(C \o x, C \o w)
  BY <1>3
<1>5. StartOf(x, w)
  BY <1>2, <1>4, StartCancel
<1> QED
  BY <1>1, <1>5

LEMMA BehindBothWhole ==
  ASSUME NEW C, NEW p, NEW s, NEW w, IsSequence(C), IsSequence(p), IsSequence(s), IsSequence(w)
  PROVE  (C \o p) \o s = C \o w => p \o s = w
<1>1. PICK x : x = p \o s
  OBVIOUS
<1>2. IsSequence(x)
  BY <1>1, ConcatSequences
<1>3. (C \o p) \o s = C \o x
  BY <1>1, ConcatRegroups
<1>4. ASSUME C \o x = C \o w
      PROVE  x = w
  BY <1>2, <1>4, StartCancel
<1> QED
  BY <1>1, <1>3, <1>4

(* The last piece of a pass goes on as the text did.                        *)
LEMMA LastPieceParts ==
  ASSUME NEW G, NEW H, Clean(G), Clean(H), NEW q \in 0..Len(Listing) + 1,
         NEW j \in 0..Len(Listing) + 1 - q, NEW ps, NEW v, NEW C, SplitAt(ps, v, G, H, q, j, C)
  PROVE  /\ IsSequence(C) /\ IsSequence(ps[j + 1]) /\ IsSequence(First(G, H, q, j) \o Rest(G, q + j))
         /\ v = C \o ps[j + 1]
         /\ H \o Rest(G, q) = C \o (First(G, H, q, j) \o Rest(G, q + j))
<1>1. IsSequence(C) /\ IsSequence(ps[j + 1]) /\ v = C \o ps[j + 1]
      /\ H \o Rest(G, q) = C \o (First(G, H, q, j) \o Rest(G, q + j))
  BY DEF SplitAt
<1>2. PICK F, R : F = First(G, H, q, j) /\ R = Rest(G, q + j)
  OBVIOUS
<1>3. IsSequence(F)
  BY <1>2, FirstClean DEF Clean
<1>4. q + j \in 0..Len(Listing) + 1
  BY ListingFacts
<1>5. IsSequence(R)
  BY <1>2, <1>4, RestFacts DEF Clean
<1>6. IsSequence(F \o R)
  BY <1>3, <1>5, ConcatSequences
<1> QED
  BY <1>1, <1>2, <1>6

LEMMA LastPieceStart ==
  ASSUME NEW C, NEW p, NEW w, NEW v, NEW u, NEW s, IsSequence(C), IsSequence(p), IsSequence(w), IsSequence(s),
         v = C \o p, u = C \o w, StartOf(v \o s, u)
  PROVE  StartOf(p \o s, w)
<1>1. StartOf((C \o p) \o s, C \o w)
  OBVIOUS
<1>2. IsSequence(C) /\ IsSequence(p) /\ IsSequence(s) /\ IsSequence(w)
  OBVIOUS
<1> QED
  BY ONLY <1>1, <1>2, BehindBoth

-----------------------------------------------------------------------------
TextOn ==
  session.kind = "goa" /\ session \in Sessions /\ NoCompressedList /\ TextInv

LEMMA LeftoverFacts ==
  ASSUME session \in Sessions, session.kind = "goa", NEW G \in Leftovers
  PROVE  Leftover(G) /\ Clean(G) /\ IsSequence(G)
<1>1. PICK n \in 2..Len(Greeting) : G = SubSeq(Greeting, n + 1, Len(Greeting))
  BY DEF Leftovers
<1>2. Leftover(G)
  BY <1>1, GreetingLeft
<1> QED
  BY <1>2 DEF Leftover, Clean

LEMMA NoAddress ==
  /\ Clean(<<>>) /\ ~IsAddrPort(<<>>)
  /\ \A G : Leftover(G) => ~IsAddrPort(G)
<1>1. PICK e, b : e = <<>> /\ b = <<Backslash>>
  OBVIOUS
<1>2. IsSequence(e) /\ Len(e) = 0
  BY <1>1, EmptySequence
<1>3. Clean(e)
  BY <1>2 DEF Clean
<1>4. ~IsAddrPort(e)
  BY <1>2 DEF IsAddrPort
<1>5. ASSUME NEW G, Leftover(G)
      PROVE  ~IsAddrPort(G)
  <2>1. SUFFICES ASSUME Len(G) >= 3, G[1] \in Hosts PROVE FALSE
    BY DEF IsAddrPort
  <2>2. Len(G) \in Nat
    BY <1>5, LenProperties DEF Leftover, Clean, IsSequence
  <2>3. 1 \in 1..Len(G)
    BY <2>1, <2>2
  <2> QED
    BY <1>5, <2>1, <2>3 DEF Leftover
<1> QED
  BY <1>1, <1>3, <1>4, <1>5

(* What was awaited before the Read is awaited of what it has left.         *)
LEMMA AwaitsRead ==
  ASSUME NEW p, NEW w, Awaits(p, w), NEW n \in 0..Len(stream),
         stream' = Remaining(n), UNCHANGED histories, NEW v, v = p \o Chunk(n)
  PROVE  /\ Awaits(v, w)'
         /\ IsSequence(p) /\ IsSequence(Chunk(n)) /\ IsSequence(stream')
<1>1. PICK c, r : c = SubSeq(stream, 1, n) /\ r = SubSeq(stream, n + 1, Len(stream))
  OBVIOUS
<1>2. c = Chunk(n) /\ stream' = r
  BY <1>1 DEF Chunk, Remaining
<1>3. IsSequence(p) /\ IsSequence(stream) /\ StartOf(p \o stream, w) /\ (validated /\ ~lost => p \o stream = w)
  BY DEF Awaits
<1>4. IsSequence(c) /\ IsSequence(r) /\ (p \o c) \o r = p \o stream
  BY <1>1, <1>3, CutAndRest
<1>5. IsSequence(p \o c)
  BY <1>3, <1>4, ConcatSequences
<1>6. validated' = validated /\ lost' = lost
  BY DEF histories
<1>7. v = p \o c
  BY <1>2
<1>8. /\ IsSequence(v) /\ IsSequence(stream') /\ StartOf(v \o stream', w)
      /\ validated' /\ ~lost' => v \o stream' = w
  BY <1>2, <1>3, <1>4, <1>5, <1>6, <1>7
<1>9. Awaits(v, w)'
  BY <1>8 DEF Awaits
<1> QED
  BY <1>2, <1>3, <1>4, <1>9

(* The text from piece q on, where H is left of it, is cut into ps: up to   *)
(* piece d.                                                                 *)
CutTo(ps, G, H, q, d) ==
  /\ IsSequence(ps) /\ Len(ps) \in Nat /\ Len(ps) >= 1 /\ Len(ps) = d + 2 - q
  /\ Kept(ps[Len(ps)], G, d)
  /\ Len(ps) > 1 => ps[1] = H
  /\ \A i \in 2..Len(ps) - 1 : ps[i] = Piece(G, q + i - 2)

(* A pass over a text that starts with the first piece of all, or in front  *)
(* of a mark.                                                               *)
LEMMA PassCut ==
  ASSUME session \in Sessions, session.kind = "goa", NEW G \in Leftovers, NEW H, NEW q, NEW v,
         \/ H = G /\ q = 1
         \/ H = <<>> /\ q \in 0..Len(Listing) /\ Len(v) >= 4,
         NEW w, w = H \o Rest(G, q), Awaits(v, w)',
         NEW ps, ps = Split(v), NEW l, l = Len(ps)
  PROVE  \E d \in 0..Len(Listing) :
           /\ CutTo(ps, G, H, q, d)'
           /\ H = <<>> /\ q \in 0..Len(Listing) /\ Len(v) >= 4 => d >= q
<1>1. PICK n \in Nat : n = Len(Listing)
  BY ListingFacts
<1>2. Clean(G) /\ Clean(H) /\ IsSequence(G) /\ IsSequence(H) /\ q \in 0..n + 1 /\ q \in 0..Len(Listing) + 1
  <2>1. Clean(G)
    BY LeftoverFacts
  <2>2. Clean(H)
    BY <2>1, NoAddress
  <2>3. IsSequence(G) /\ IsSequence(H)
    BY <2>1, <2>2 DEF Clean
  <2>4. q \in 0..n + 1
    BY <1>1
  <2> QED
    BY <1>1, <2>1, <2>2, <2>3, <2>4
<1>3. PICK s : s = stream'
  OBVIOUS
<1>4. IsSequence(v) /\ IsSequence(s) /\ StartOf(v \o s, w) /\ (validated' /\ ~lost' => v \o s = w)
  BY <1>3 DEF Awaits
<1>5. StartOf(v, H \o Rest(G, q))
  BY <1>4, StartPart
<1>18. PICK j \in 0..Len(Listing) + 1 - q : \E C : SplitAt(ps, v, G, H, q, j, C)
  BY <1>2, <1>5, SplitPieces
<1>6. PICK C : SplitAt(ps, v, G, H, q, j, C)
  BY <1>18
<1>7. /\ IsSequence(ps) /\ Len(ps) = j + 1
      /\ \A i \in 1..j : ps[i] = First(G, H, q, i - 1)
      /\ IsSequence(C) /\ IsSequence(ps[j + 1]) /\ v = C \o ps[j + 1]
      /\ H \o Rest(G, q) = C \o (First(G, H, q, j) \o Rest(G, q + j))
      /\ q + j <= n => Len(ps[j + 1]) < Len(First(G, H, q, j)) + 4
  BY <1>1, <1>6 DEF SplitAt
<1>8. j \in Nat /\ l = j + 1 /\ l \in Nat /\ l >= 1
  BY <1>2, <1>7
<1>9. /\ IsSequence(ps[l])
      /\ StartOf(ps[l] \o s, First(G, H, q, j) \o Rest(G, q + j))
      /\ validated' /\ ~lost' => ps[l] \o s = First(G, H, q, j) \o Rest(G, q + j)
  <2>1. Clean(G) /\ Clean(H) /\ q \in 0..Len(Listing) + 1 /\ j \in 0..Len(Listing) + 1 - q
    BY <1>2
  <2>2. IsSequence(First(G, H, q, j) \o Rest(G, q + j))
    BY <1>6, <2>1, LastPieceParts
  <2>3. PICK p, x : p = ps[j + 1] /\ x = First(G, H, q, j) \o Rest(G, q + j)
    OBVIOUS
  <2>4. IsSequence(C) /\ IsSequence(p) /\ IsSequence(x) /\ IsSequence(s) /\ v = C \o p /\ w = C \o x
    BY <1>4, <1>7, <2>2, <2>3
  <2>5. StartOf(v \o s, w)
    BY <1>4
  <2>6. StartOf(p \o s, x)
    BY ONLY <2>4, <2>5, LastPieceStart
  <2>7. ASSUME validated' /\ ~lost'
        PROVE  p \o s = x
    <3>1. (C \o p) \o s = C \o x
      BY <1>4, <2>4, <2>7
    <3>2. IsSequence(C) /\ IsSequence(p) /\ IsSequence(s) /\ IsSequence(x)
      BY <2>4
    <3>3. (C \o p) \o s = C \o x => p \o s = x
      BY ONLY <3>2, BehindBothWhole
    <3> QED
      BY <3>1, <3>3
  <2> QED
    BY <1>8, <2>3, <2>4, <2>6, <2>7
<1>10. H = <<>> /\ q \in 0..n /\ Len(v) >= 4 => j # 0
  <2>1. SUFFICES ASSUME H = <<>>, q \in 0..n, Len(v) >= 4, j = 0 PROVE FALSE
    OBVIOUS
  <2>2. PICK p, R : p = ps[1] /\ R = Rest(G, q)
    OBVIOUS
  <2>3. IsSequence(R)
    BY <1>1, <1>2, <2>2, RestFacts
  <2>4. First(G, H, q, j) = H /\ q + j = q
    BY <1>2, <2>1 DEF First
  <2>5. H \o R = R
    BY <2>1, <2>3, EmptyConcat
  <2>6. R = C \o R
    BY <1>7, <2>2, <2>4, <2>5
  <2>7. Len(C) = 0
    <3>1. Len(C \o R) = Len(C) + Len(R) /\ Len(C) \in Nat /\ Len(R) \in Nat
      BY <1>7, <2>3, ConcatSequences
    <3> QED
      BY <2>6, <3>1
  <2>8. IsSequence(p) /\ v = C \o p /\ Len(p) < Len(H) + 4
    BY <1>7, <2>1, <2>2, <2>4
  <2>9. Len(v) = Len(C) + Len(p)
    BY <1>7, <2>8, ConcatSequences
  <2>10. Len(H) = 0 /\ Len(p) \in Nat
    BY <2>1, <2>8, EmptySequence, LenProperties DEF IsSequence
  <2> QED
    BY <2>1, <2>7, <2>8, <2>9, <2>10
<1>20. (H = G /\ q = 1) \/ j # 0
  BY <1>1, <1>10
<1>11. PICK d : d = q + j - 1
  OBVIOUS
<1>12. d \in 0..n /\ q + j = d + 1 /\ l = d + 2 - q
  BY <1>1, <1>2, <1>8, <1>11, <1>20
<1>13. First(G, H, q, j) = Piece(G, d)
  BY <1>2, <1>8, <1>11, <1>20 DEF First, Piece
<1>14. Kept(ps[l], G, d)'
  <2>1. d < n => Len(ps[l]) < Len(Piece(G, d)) + 4
    <3>1. d < n => q + j <= n
      BY <1>1, <1>12
    <3> QED
      BY <1>7, <1>8, <1>13, <3>1
  <2>2. /\ StartOf(ps[l] \o stream', Piece(G, d) \o Rest(G, d + 1))
        /\ validated' /\ ~lost' => ps[l] \o stream' = Piece(G, d) \o Rest(G, d + 1)
    BY <1>3, <1>4, <1>9, <1>12, <1>13
  <2>3. IsSequence(stream')
    BY <1>3, <1>4
  <2> QED
    BY <1>1, <1>3, <1>9, <2>1, <2>2, <2>3 DEF Kept, Awaits
<1>15. l > 1 => ps[1] = H
  <2>1. l > 1 => 1 \in 1..j /\ 1 - 1 = 0
    BY <1>8
  <2>2. l > 1 => ps[1] = First(G, H, q, 0)
    BY <1>7, <2>1
  <2> QED
    BY <2>2 DEF First
<1>16. \A i \in 2..l - 1 : ps[i] = Piece(G, q + i - 2)
  <2> TAKE i \in 2..l - 1
  <2>1. i \in 1..j /\ i - 1 # 0 /\ q + (i - 1) - 1 = q + i - 2
    BY <1>2, <1>8
  <2>2. ps[i] = First(G, H, q, i - 1)
    BY <1>7, <2>1
  <2> QED
    BY <2>1, <2>2 DEF First
<1>17. H = <<>> /\ q \in 0..Len(Listing) /\ Len(v) >= 4 => d >= q
  BY <1>1, <1>2, <1>8, <1>10, <1>11
<1>19. CutTo(ps, G, H, q, d)'
  BY <1>7, <1>8, <1>12, <1>14, <1>15, <1>16 DEF CutTo
<1> QED
  BY <1>1, <1>12, <1>17, <1>19

LEMMA StartBehind ==
  ASSUME NEW s, NEW g, StartOf(s, g), NEW n \in 0..Len(s)
  PROVE  StartOf(SubSeq(s, n + 1, Len(s)), SubSeq(g, n + 1, Len(g)))
<1>1. /\ IsSequence(s) /\ IsSequence(g) /\ Len(s) \in Nat /\ Len(g) \in Nat /\ Len(s) <= Len(g)
      /\ \A i \in 1..Len(s) : s[i] = g[i]
  BY LenProperties DEF StartOf, IsSequence
<1>2. n \in 0..Len(g) /\ n \in Nat
  BY <1>1
<1>3. PICK r, t : r = SubSeq(s, n + 1, Len(s)) /\ t = SubSeq(g, n + 1, Len(g))
  OBVIOUS
<1>4. IsSequence(r) /\ Len(r) = Len(s) - n /\ \A i \in 1..Len(s) - n : r[i] = s[n + i]
  BY <1>1, <1>3, RemainingSequence
<1>5. IsSequence(t) /\ Len(t) = Len(g) - n /\ \A i \in 1..Len(g) - n : t[i] = g[n + i]
  BY <1>1, <1>2, <1>3, RemainingSequence
<1>6. \A i \in 1..Len(s) - n : i \in 1..Len(g) - n /\ n + i \in 1..Len(s)
  BY <1>1, <1>2
<1>7. \A i \in 1..Len(r) : r[i] = t[i]
  BY <1>1, <1>4, <1>5, <1>6
<1>8. Len(r) <= Len(t)
  BY <1>1, <1>2, <1>4, <1>5
<1> QED
  BY <1>3, <1>4, <1>5, <1>7, <1>8 DEF StartOf

LEMMA GreetingStart ==
  ASSUME session \in Sessions, session.kind = "goa"
  PROVE  Greeting[1] = "basic"
<1>1. PICK b, c, words, junk : b = "basic" /\ c = "secure" /\ words = <<b, c>> /\ junk = session.junk
  OBVIOUS
<1>2. words \in Seq({b, c}) /\ Len(words) = 2 /\ words[1] = b
  BY <1>1
<1>3. IsSequence(words)
  BY <1>2, SequenceOf
<1>4. IsSequence(Challenge) /\ IsSequence(junk)
  BY <1>1, ReaderFacts
<1>5. PICK rest : rest = Challenge \o junk
  OBVIOUS
<1>6. IsSequence(rest) /\ Len(rest) \in Nat
  BY <1>4, <1>5, ConcatSequences
<1>7. Greeting = words \o rest
  <2>1. Greeting = (words \o Challenge) \o junk
    BY <1>1, Zenon DEF Greeting
  <2>2. (words \o Challenge) \o junk = words \o rest
    BY <1>3, <1>4, <1>5, ConcatRegroups
  <2> QED
    BY <2>1, <2>2
<1>8. \A i \in 1..Len(words) + Len(rest) : (words \o rest)[i] = IF i <= Len(words) THEN words[i]
                                                                        ELSE rest[i - Len(words)]
  BY <1>3, <1>6, ConcatSequences
<1>9. 1 \in 1..Len(words) + Len(rest) /\ 1 <= Len(words)
  BY <1>2, <1>6
<1> QED
  BY <1>1, <1>2, <1>7, <1>8, <1>9

(* Only the first symbol of the greeting holds no challenge.                *)
LEMMA ChallengeRead ==
  ASSUME TextOn, pc = "auth", NEW n \in 1..Len(Greeting), n <= Len(stream),
         Contains(Chunk(n), "secure")
  PROVE  n \in 2..Len(Greeting)
<1>1. PICK c, e : c = SubSeq(stream, 1, n) /\ e = "secure"
  OBVIOUS
<1>2. StartOf(stream, Greeting)
  BY DEF TextOn, TextInv
<1>3. /\ IsSequence(stream) /\ Len(stream) \in Nat /\ Len(Greeting) \in Nat
      /\ \A i \in 1..Len(stream) : stream[i] = Greeting[i]
  BY <1>2, LenProperties DEF StartOf, IsSequence
<1>4. SUFFICES ASSUME n = 1 PROVE FALSE
  BY <1>3
<1>5. IsSequence(c) /\ Len(c) = 1 /\ c[1] = stream[1]
  <2> DEFINE S == ToSet(stream)
  <2>1. stream \in Seq(S)
    BY <1>3 DEF IsSequence
  <2> HIDE DEF S
  <2>2. \A i \in 1..n : stream[i] \in S
    BY <1>3, <2>1, ElementOfSeq
  <2>3. Len(c) = 1 /\ \A i \in 1..n - 1 + 1 : c[i] = stream[1 + i - 1]
    BY <1>1, <1>3, <1>4, <2>2, SubSeqProperties
  <2>4. 1 \in 1..n - 1 + 1 /\ 1 + 1 - 1 = 1
    BY <1>4
  <2>5. n \in Nat
    BY <1>4
  <2> QED
    BY <1>1, <1>3, <2>3, <2>4, <2>5, ChunkSequence
<1>6. 1 \in 1..Len(stream)
  BY <1>3, <1>4
<1>7. c[1] = "basic"
  BY <1>3, <1>5, <1>6, GreetingStart DEF TextOn
<1>8. Contains(c, e)
  BY <1>1 DEF Chunk
<1>9. c[1] = e
  BY <1>5, <1>8 DEF Contains
<1> QED
  BY <1>1, <1>7, <1>9

LEMMA TextAuthenticate ==
  ASSUME TextOn, NEW n, Authenticate(n)
  PROVE  TextInv' /\ [Delivery!DeliveryNext]_(Delivery!deliveryVars)
<1>1. /\ pc = "auth" /\ n \in 1..Len(Greeting) /\ n <= Len(stream)
      /\ shortRead' = (n < Len(Greeting)) /\ handled' = handled /\ session' = session
      /\ lost' = lost /\ closed' = closed /\ ipStringAccum' = ipStringAccum
  BY DEF Authenticate, Reads, readerVars, textVars
<1>2. /\ handled = <<>> /\ ipStringAccum = <<>> /\ ~validated /\ StartOf(stream, Greeting)
      /\ ~closed => stream = Greeting
      /\ ~lost => ~closed
  BY <1>1 DEF TextOn, TextInv
<1>3. InOrder' /\ [Delivery!DeliveryNext]_(Delivery!deliveryVars)
  <2>1. ~over
    BY <1>1 DEF over
  <2> QED
    BY <1>1, <1>2, <2>1, NothingInOrder, NothingHandled
<1>4. /\ IsSequence(Greeting) /\ IsSequence(stream) /\ Len(Greeting) \in Nat /\ Len(stream) \in Nat
      /\ n \in 0..Len(stream)
  BY <1>1, <1>2, LenProperties DEF StartOf, IsSequence
<1>5. session \in Sessions /\ session.kind = "goa" /\ NoCompressedList
  BY DEF TextOn
<1>6. ASSUME ~(n < Len(Greeting)), ~lost
      PROVE  ~closed /\ Contains(Chunk(n), "secure") /\ ChallengeIn(Chunk(n)) = Challenge
  <2>1. ~closed /\ stream = Greeting /\ n = Len(Greeting)
    BY <1>1, <1>2, <1>4, <1>6
  <2>2. SubSeq(Greeting, 1, Len(Greeting)) = Greeting
    BY <1>4, WholeSequence
  <2>3. Chunk(n) = Greeting
    BY <2>1, <2>2 DEF Chunk
  <2>4. Contains(Chunk(n), "secure")
    BY <1>5, <2>3, GreetingFacts
  <2>5. MaxChallengeLen <= ChallengeRoom
    BY <2>4 DEF Authenticate
  <2> QED
    BY <1>5, <2>1, <2>3, <2>4, <2>5, GreetingFacts
<1>7. Leftovers' = Leftovers /\ NoCompressedList'
  BY <1>1, <1>5 DEF Leftovers, Greeting, NoCompressedList
<1>8. CASE ~Contains(Chunk(n), "secure")
  <2>1. pc' = "done" /\ validated' = validated
    BY <1>8 DEF Authenticate
  <2>2. shortRead' \/ lost'
    BY <1>1, <1>6, <1>8
  <2> QED
    BY <1>2, <1>3, <2>1, <2>2 DEF TextInv
<1>9. CASE Contains(Chunk(n), "secure")
  <2>1. PICK accepted : accepted = (~closed /\ ChallengeIn(Chunk(n)) = Challenge)
    OBVIOUS
  <2>2. /\ pc' = "list" /\ validated' = accepted
        /\ stream' = IF accepted THEN Remaining(n) \o ListText ELSE Remaining(n)
    BY <1>9, <2>1 DEF Authenticate
  <2>3. n \in 2..Len(Greeting)
    BY <1>1, <1>9, ChallengeRead
  <2>4. PICK G, r, a : G = SubSeq(Greeting, n + 1, Len(Greeting)) /\ r = Remaining(n) /\ a = Rest(G, 1)
    OBVIOUS
  <2>5. G \in Leftovers
    BY <2>3, <2>4 DEF Leftovers
  <2>6. StartOf(r, G) /\ (stream = Greeting => r = G)
    BY <1>2, <1>4, <2>4, StartBehind DEF Remaining
  <2>7. IsSequence(r) /\ IsSequence(G)
    BY <2>6 DEF StartOf
  <2>8. IsSequence(a) /\ a = ListText
    <3>1. a = TextDue(0)
      BY <2>4 DEF Rest
    <3>2. TextDue(0) = ListText /\ IsSequence(TextDue(0))
      BY <1>5, TextDueFacts, ListingFacts DEF ListText
    <3> QED
      BY <3>1, <3>2
  <2>9. IsSequence(G \o a) /\ StartOf(G \o a, G \o a) /\ StartOf(r, G \o a)
    BY <2>6, <2>7, <2>8, ConcatSequences, WholeStart, StartLonger
  <2>10. /\ IsSequence(stream') /\ StartOf(stream', G \o a)
         /\ validated' => stream' = G \o a
    <3>1. CASE accepted
      <4>1. r = G /\ stream' = r \o ListText
        BY <1>2, <2>1, <2>2, <2>4, <2>6, <3>1
      <4>2. stream' = G \o a
        BY <2>8, <4>1
      <4> QED
        BY <2>9, <4>2
    <3>2. CASE ~accepted
      <4>1. stream' = r /\ ~validated'
        BY <2>2, <2>4, <3>2
      <4> QED
        BY <2>7, <2>9, <4>1
    <3> QED
      BY <3>1, <3>2
  <2>11. Awaits(<<>>, G \o Rest(G, 1))'
    <3>1. <<>> \o stream' = stream' /\ IsSequence(<<>>)
      BY <2>10, EmptyConcat, EmptySequence
    <3> QED
      BY <2>4, <2>10, <3>1 DEF Awaits
  <2>12. TextKept(G)'
    BY <1>1, <1>2, <2>11 DEF TextKept
  <2>13. shortRead' \/ lost' \/ validated'
    BY <1>1, <1>6, <2>1, <2>2
  <2> QED
    BY <1>3, <1>7, <2>2, <2>5, <2>12, <2>13 DEF TextInv
<1> QED
  BY <1>8, <1>9

LEMMA AwaitsMark ==
  ASSUME NEW u, NEW x, Awaits(u, x)', NEW v, v = IpMark \o u, NEW w, w = IpMark \o x
  PROVE  Awaits(v, w)'
<1>1. PICK m, s : m = IpMark /\ s = stream'
  OBVIOUS
<1>2. /\ IsSequence(u) /\ IsSequence(s) /\ StartOf(u \o s, x)
      /\ validated' /\ ~lost' => u \o s = x
  BY <1>1 DEF Awaits
<1>3. IsSequence(m) /\ IsSequence(x) /\ v = m \o u /\ w = m \o x
  BY <1>1, <1>2, IpMarkFacts DEF StartOf
<1>4. IsSequence(v)
  BY <1>2, <1>3, ConcatSequences
<1>5. (m \o u) \o s = m \o (u \o s)
  BY <1>2, <1>3, ConcatRegroups
<1>6. PICK y : y = u \o s
  OBVIOUS
<1>7. IsSequence(y) /\ StartOf(y, x)
  BY <1>2, <1>6, ConcatSequences
<1>8. StartOf(m \o y, m \o x)
  BY <1>3, <1>7, StartCancel
<1>9. StartOf(v \o s, w) /\ (validated' /\ ~lost' => v \o s = w)
  BY <1>2, <1>3, <1>5, <1>6, <1>8
<1> QED
  BY <1>1, <1>2, <1>4, <1>9 DEF Awaits

(* A pass over the first Read of all. *)
LEMMA FirstPass ==
  ASSUME TextOn, NEW n \in 0..Len(stream), NEW G \in Leftovers,
         ipStringAccum = <<>>, handled = <<>>, Awaits(<<>>, G \o Rest(G, 1)),
         stream' = Remaining(n), splitData' = Split(ipStringAccum \o Chunk(n)),
         handled' = handled, UNCHANGED histories
  PROVE  TextPass(G)'
<1>1. PICK w, e : w = G \o Rest(G, 1) /\ e = <<>>
  OBVIOUS
<1>2. PICK v : v = e \o Chunk(n)
  OBVIOUS
<1>3. Awaits(e, w)
  BY <1>1
<1>4. Awaits(v, w)'
  BY <1>2, <1>3, AwaitsRead
<1>5. PICK ps, l : ps = Split(v) /\ l = Len(ps)
  OBVIOUS
<1>6. session \in Sessions /\ session.kind = "goa" /\ Leftover(G)
  BY LeftoverFacts DEF TextOn
<1>7. \E d \in 0..Len(Listing) :
        /\ CutTo(ps, G, G, 1, d)'
        /\ G = <<>> /\ 1 \in 0..Len(Listing) /\ Len(v) >= 4 => d >= 1
  <2>1. Awaits(v, w)' /\ w = G \o Rest(G, 1) /\ (G = G /\ 1 = 1)
    BY <1>1, <1>4
  <2> QED
    BY <1>5, <1>6, <2>1, PassCut
<1>18. PICK d \in 0..Len(Listing) : CutTo(ps, G, G, 1, d)'
  BY <1>7
<1>8. /\ IsSequence(ps) /\ l \in Nat /\ l >= 1 /\ l = d + 2 - 1
      /\ Kept(ps[l], G, d)'
      /\ l > 1 => ps[1] = G
      /\ \A i \in 2..l - 1 : ps[i] = Piece(G, 1 + i - 2)
  BY <1>5, <1>18 DEF CutTo
<1>9. Len(Listing) \in Nat /\ d \in Nat /\ Len(handled) = 0 /\ l = d + 1
  BY <1>8, ListingFacts, EmptySequence
<1>10. splitData' = ps
  BY <1>1, <1>2, <1>5
<1>11. PICK z \in 0..1 : (l = 1 => z = 0) /\ (l # 1 => z = 1)
  <2>1. CASE l = 1
    BY <2>1
  <2>2. CASE l # 1
    BY <2>2
  <2> QED
    BY <2>1, <2>2
<1>12. z \in 0..l - 1 /\ Len(handled) + (l - 1 - z) = Served(d)
  BY <1>9, <1>11 DEF Served
<1>13. \A i \in 1..z : ~IsAddrPort(ps[i])
  <2> TAKE i \in 1..z
  <2>1. i = 1 /\ l > 1
    BY <1>9, <1>11
  <2> QED
    BY <1>6, <1>8, <2>1, NoAddress
<1>14. \A i \in z + 1..l - 1 : ps[i] = Body(Listing[Len(handled) + i - z])
  <2> TAKE i \in z + 1..l - 1
  <2>1. z = 1 /\ i \in 2..l - 1 /\ 1 + i - 2 = i - 1 /\ i - 1 # 0 /\ Len(handled) + i - z = i - 1
    BY <1>9, <1>11
  <2> QED
    BY <1>8, <2>1 DEF Piece
<1>15. PICK hs : hs = handled
  OBVIOUS
<1>16. handled' = hs
  BY <1>15
<1>17. /\ IsSequence(ps) /\ Kept(ps[Len(ps)], G, d)' /\ z \in 0..Len(ps) - 1
       /\ Len(hs) + (Len(ps) - 1 - z) = Served(d)
       /\ \A i \in 1..z : ~IsAddrPort(ps[i])
       /\ \A i \in z + 1..Len(ps) - 1 : ps[i] = Body(Listing[Len(hs) + i - z])
  BY <1>5, <1>8, <1>12, <1>13, <1>14, <1>15
<1> QED
  BY <1>10, <1>16, <1>17 DEF TextPass

(* A pass over what the one before it has left, and one Read more. *)
LEMMA LaterPass ==
  ASSUME TextOn, NEW n \in 0..Len(stream), NEW G \in Leftovers, NEW c \in 0..Len(Listing), NEW p,
         ipStringAccum = IpMark \o p, Len(handled) = Served(c), Kept(p, G, c),
         stream' = Remaining(n), splitData' = Split(ipStringAccum \o Chunk(n)),
         handled' = handled, UNCHANGED histories
  PROVE  TextPass(G)'
<1>1. PICK x, e : x = Piece(G, c) \o Rest(G, c + 1) /\ e = <<>>
  OBVIOUS
<1>2. PICK u : u = p \o Chunk(n)
  OBVIOUS
<1>3. Awaits(p, x)
  BY <1>1 DEF Kept
<1>4. Awaits(u, x)' /\ IsSequence(p) /\ IsSequence(Chunk(n))
  BY <1>2, <1>3, AwaitsRead
<1>5. session \in Sessions /\ session.kind = "goa" /\ Leftover(G) /\ IsSequence(G)
  BY LeftoverFacts DEF TextOn
<1>6. PICK v, w : v = IpMark \o u /\ w = IpMark \o x
  OBVIOUS
<1>7. Awaits(v, w)'
  BY <1>4, <1>6, AwaitsMark
<1>8. ipStringAccum \o Chunk(n) = v
  <2>1. PICK m, k : m = IpMark /\ k = Chunk(n)
    OBVIOUS
  <2>2. IsSequence(m) /\ IsSequence(p) /\ IsSequence(k)
    BY <1>4, <2>1, IpMarkFacts
  <2>3. (m \o p) \o k = m \o (p \o k)
    BY <2>2, ConcatRegroups
  <2> QED
    BY <1>2, <1>6, <2>1, <2>3
<1>9. w = e \o Rest(G, c)
  <2>1. Rest(G, c) = w /\ IsSequence(Rest(G, c))
    <3>1. PICK N : N = Len(Listing)
      OBVIOUS
    <3>2. N \in Nat /\ c \in 0..N /\ c \in 0..N + 1
      BY <3>1, ListingFacts
    <3>3. /\ \A d \in 0..N + 1 : IsSequence(Rest(G, d))
          /\ \A d \in 0..N : Rest(G, d) = IpMark \o (Piece(G, d) \o Rest(G, d + 1))
      BY <1>5, <3>1, RestFacts
    <3> QED
      BY <1>1, <1>6, <3>2, <3>3
  <2> QED
    BY <1>1, <2>1, EmptyConcat
<1>10. Len(v) >= 4
  <2>1. IsSequence(u)
    BY <1>4 DEF Awaits
  <2>2. Len(v) = Len(IpMark) + Len(u) /\ Len(u) \in Nat
    BY <1>6, <2>1, IpMarkFacts, ConcatSequences
  <2> QED
    BY <2>2, IpMarkFacts
<1>11. PICK ps, l : ps = Split(v) /\ l = Len(ps)
  OBVIOUS
<1>12. \E d \in 0..Len(Listing) :
        /\ CutTo(ps, G, e, c, d)'
        /\ e = <<>> /\ c \in 0..Len(Listing) /\ Len(v) >= 4 => d >= c
  <2>1. Awaits(v, w)' /\ w = e \o Rest(G, c) /\ (e = <<>> /\ c \in 0..Len(Listing) /\ Len(v) >= 4)
    BY <1>1, <1>7, <1>9, <1>10
  <2> QED
    BY <1>5, <1>11, <2>1, PassCut
<1>18. PICK d \in 0..Len(Listing) : CutTo(ps, G, e, c, d)' /\ d >= c
  BY <1>1, <1>10, <1>12
<1>13. /\ IsSequence(ps) /\ l \in Nat /\ l >= 1 /\ l = d + 2 - c
       /\ Kept(ps[l], G, d)'
       /\ l > 1 => ps[1] = e
       /\ \A i \in 2..l - 1 : ps[i] = Piece(G, c + i - 2)
  BY <1>11, <1>18 DEF CutTo
<1>14. Len(Listing) \in Nat /\ d \in Nat /\ c \in Nat /\ d >= c /\ l >= 2
  BY <1>13, <1>18, ListingFacts
<1>15. splitData' = ps
  BY <1>8, <1>11
<1>16. PICK z \in 1..2 : z = IF c = 0 /\ l >= 3 THEN 2 ELSE 1
  <2>1. CASE c = 0 /\ l >= 3
    BY <2>1
  <2>2. CASE ~(c = 0 /\ l >= 3)
    BY <2>2
  <2> QED
    BY <2>1, <2>2
<1>17. PICK hs, k : hs = handled /\ k = Len(handled)
  OBVIOUS
<1>19. k \in Nat /\ k = IF c = 0 THEN 0 ELSE c - 1
  BY <1>14, <1>17 DEF Served
<1>20. z \in 0..l - 1 /\ k + (l - 1 - z) = IF d = 0 THEN 0 ELSE d - 1
  BY <1>13, <1>14, <1>16, <1>19
<1>21. \A i \in 1..z : ~IsAddrPort(ps[i])
  <2> TAKE i \in 1..z
  <2>1. i = 1 \/ (i = 2 /\ c = 0 /\ l >= 3)
    BY <1>16
  <2>2. CASE i = 1
    BY <1>1, <1>13, <1>14, <2>2, NoAddress
  <2>3. CASE i = 2 /\ c = 0 /\ l >= 3
    <3>1. i \in 2..l - 1 /\ c + i - 2 = 0
      BY <1>13, <2>3
    <3>2. ps[i] = G
      BY <1>13, <3>1 DEF Piece
    <3> QED
      BY <1>5, <3>2, NoAddress
  <2> QED
    BY <2>1, <2>2, <2>3
<1>22. \A i \in z + 1..l - 1 : ps[i] = Body(Listing[k + i - z])
  <2> TAKE i \in z + 1..l - 1
  <2>1. i \in 2..l - 1 /\ c + i - 2 # 0 /\ k + i - z = c + i - 2
    BY <1>13, <1>14, <1>16, <1>19
  <2> QED
    BY <1>13, <2>1 DEF Piece
<1>23. handled' = hs
  BY <1>17
<1>24. /\ IsSequence(ps) /\ Kept(ps[Len(ps)], G, d)' /\ z \in 0..Len(ps) - 1
       /\ Len(hs) + (Len(ps) - 1 - z) = Served(d)
       /\ \A i \in 1..z : ~IsAddrPort(ps[i])
       /\ \A i \in z + 1..Len(ps) - 1 : ps[i] = Body(Listing[Len(hs) + i - z])
  BY <1>11, <1>13, <1>17, <1>20, <1>21, <1>22 DEF Served
<1> QED
  BY <1>15, <1>23, <1>24 DEF TextPass

LEMMA TextRead ==
  ASSUME TextOn, NEW n, ReadText(n)
  PROVE  TextInv' /\ [Delivery!DeliveryNext]_(Delivery!deliveryVars)
<1>1. /\ pc = "list" /\ pc' = "split" /\ n \in 1..ReadSize /\ n <= Len(stream)
      /\ stream' = Remaining(n) /\ splitData' = Split(ipStringAccum \o Chunk(n))
      /\ session' = session /\ handled' = handled /\ UNCHANGED histories
  BY DEF ReadText, Reads
<1>2. InOrder /\ (shortRead \/ lost \/ validated) /\ NoCompressedList
  BY <1>1 DEF TextOn, TextInv
<1>3. PICK G \in Leftovers : TextKept(G)
  BY <1>1 DEF TextOn, TextInv
<1>4. n \in 0..Len(stream)
  <2>1. IsSequence(stream)
    BY <1>3 DEF TextKept, Kept, Awaits
  <2>2. Len(stream) \in Nat
    BY <2>1, LenProperties DEF IsSequence
  <2> QED
    BY <1>1, <2>2, ReaderAssumption
<1>5. TextPass(G)'
  <2>1. CASE ipStringAccum = <<>> /\ handled = <<>> /\ Awaits(<<>>, G \o Rest(G, 1))
    BY <1>1, <1>4, <2>1, FirstPass
  <2>2. ASSUME NEW d \in 0..Len(Listing), NEW p,
               ipStringAccum = IpMark \o p, Len(handled) = Served(d), Kept(p, G, d)
        PROVE  TextPass(G)'
    BY <1>1, <1>4, <2>2, LaterPass
  <2> QED
    BY <1>3, <2>1, <2>2 DEF TextKept
<1>6. InOrder' /\ [Delivery!DeliveryNext]_(Delivery!deliveryVars)
  <2>1. ~over
    BY <1>1 DEF over
  <2> QED
    BY <1>1, <1>2, <2>1, NothingHandled
<1>7. Leftovers' = Leftovers /\ (shortRead' \/ lost' \/ validated')
  BY <1>1, <1>2 DEF Leftovers, Greeting, histories
<1> QED
  BY <1>1, <1>5, <1>6, <1>7 DEF TextInv

LEMMA TailSequence ==
  ASSUME NEW s, IsSequence(s), Len(s) > 0
  PROVE  /\ IsSequence(Tail(s)) /\ Len(Tail(s)) = Len(s) - 1
         /\ \A i \in 1..Len(s) - 1 : Tail(s)[i] = s[i + 1]
         /\ Head(s) = s[1]
<1> DEFINE S == ToSet(s)
<1>1. s \in Seq(S) /\ s # <<>>
  BY EmptySequence DEF IsSequence
<1> HIDE DEF S
<1>2. PICK t : t = Tail(s)
  OBVIOUS
<1>3. /\ Head(s) = s[1] /\ t \in Seq(S) /\ Len(t) = Len(s) - 1
      /\ \A i \in 1..Len(t) : t[i] = s[i + 1]
  BY <1>1, <1>2, HeadTailProperties
<1>4. IsSequence(t)
  BY <1>3, SequenceOf
<1> QED
  BY <1>2, <1>3, <1>4

(* A whole body is the address of its server.                               *)
LEMMA BodyHandled ==
  ASSUME NEW i \in 1..Len(Listing), NEW b, b = Body(Listing[i]), handleIPString(b)
  PROVE  handled' = Append(handled, Listing[i])
<1>1. /\ IsSequence(b) /\ Len(b) = 4
      /\ b[1] = Listing[i].host /\ b[2] = ":"
      /\ b[3] = Listing[i].port[1] /\ b[4] = Listing[i].port[2]
      /\ b[1] \in Hosts /\ b[3] \in Digits /\ b[4] \in Digits
  BY BodyFacts
<1>2. IsAddrPort(b)
  <2>1. \A k \in 3..4 : k = 3 \/ k = 4
    OBVIOUS
  <2> QED
    BY <1>1, <2>1 DEF IsAddrPort
<1>3. PICK q, k : q = SubSeq(b, 3, 4) /\ k = 2
  OBVIOUS
<1>4. k \in 0..Len(b) /\ k + 1 = 3 /\ Len(b) - k = 2
  BY <1>1, <1>3
<1>5. IsSequence(q) /\ Len(q) = 2 /\ \A j \in 1..2 : q[j] = b[k + j]
  <2>1. /\ IsSequence(SubSeq(b, k + 1, Len(b)))
        /\ Len(SubSeq(b, k + 1, Len(b))) = Len(b) - k
        /\ \A j \in 1..Len(b) - k : SubSeq(b, k + 1, Len(b))[j] = b[k + j]
    BY <1>1, <1>4, RemainingSequence
  <2> QED
    BY <1>1, <1>3, <1>4, <2>1
<1>6. PICK a : a = Listing[i].port
  OBVIOUS
<1>7. IsSequence(a) /\ Len(a) = 2
  BY <1>6, ListingFacts, SequenceOf
<1>8. \A j \in 1..2 : q[j] = a[j]
  <2>1. 1 \in 1..2 /\ 2 \in 1..2 /\ \A j \in 1..2 : j = 1 \/ j = 2
    OBVIOUS
  <2>2. k + 1 = 3 /\ k + 2 = 4
    BY <1>3
  <2>3. q[1] = b[3] /\ q[2] = b[4]
    BY <1>5, <2>1, <2>2
  <2> QED
    BY <1>1, <1>6, <2>1, <2>3
<1>9. q = a
  BY <1>5, <1>7, <1>8, SequencesEqual
<1>10. handled' = Append(handled, [host |-> b[1], port |-> SubSeq(b, 3, 4)])
  BY <1>1, <1>2 DEF handleIPString
<1>11. [host |-> b[1], port |-> SubSeq(b, 3, 4)] = Listing[i]
  BY <1>1, <1>3, <1>6, <1>9, ListingFacts
<1> QED
  BY <1>10, <1>11

LEMMA PieceHandled ==
  ASSUME TextOn, HandlePiece
  PROVE  TextInv' /\ [Delivery!DeliveryNext]_(Delivery!deliveryVars)
<1>1. /\ pc = "split" /\ pc' = "split" /\ Len(splitData) > 1 /\ handleIPString(Head(splitData))
      /\ splitData' = Tail(splitData)
      /\ session' = session /\ stream' = stream /\ UNCHANGED histories
  BY DEF HandlePiece, networkVars
<1>2. InOrder /\ (shortRead \/ lost \/ validated) /\ NoCompressedList
  BY <1>1 DEF TextOn, TextInv
<1>3. PICK G \in Leftovers : TextPass(G)
  BY <1>1 DEF TextOn, TextInv
<1>4. PICK ps, l, t, k : ps = splitData /\ l = Len(splitData) /\ t = Tail(splitData) /\ k = Len(handled)
  OBVIOUS
<1>5. /\ IsSequence(ps) /\ l = Len(ps) /\ l \in Nat /\ l > 1
  BY <1>1, <1>3, <1>4, LenProperties DEF TextPass, IsSequence
<1>6. PICK d \in 0..Len(Listing), z \in 0..l - 1 :
        /\ Kept(ps[l], G, d)
        /\ k + (l - 1 - z) = Served(d)
        /\ \A i \in 1..z : ~IsAddrPort(ps[i])
        /\ \A i \in z + 1..l - 1 : ps[i] = Body(Listing[k + i - z])
  BY <1>3, <1>4 DEF TextPass
<1>7. /\ IsSequence(t) /\ Len(t) = l - 1
      /\ \A i \in 1..l - 1 : t[i] = ps[i + 1]
      /\ Head(ps) = ps[1]
  <2>1. /\ IsSequence(Tail(ps)) /\ Len(Tail(ps)) = Len(ps) - 1
        /\ \A i \in 1..Len(ps) - 1 : Tail(ps)[i] = ps[i + 1]
        /\ Head(ps) = ps[1]
    BY <1>5, TailSequence
  <2> QED
    BY <1>4, <2>1
<1>8. k \in Nat /\ Len(Listing) \in Nat
  BY <1>2, <1>4, ListingFacts, LenProperties DEF InOrder, IsSequence
<1>9. t[l - 1] = ps[l]
  <2>1. l - 1 \in 1..l - 1 /\ (l - 1) + 1 = l
    BY <1>5
  <2> QED
    BY <1>7, <2>1
<1>10. Kept(t[l - 1], G, d)'
  <2>1. PICK p : p = ps[l]
    OBVIOUS
  <2>2. Kept(p, G, d)'
    BY <1>1, <1>6, <2>1 DEF Kept, Awaits, histories
  <2> QED
    BY <1>9, <2>1, <2>2
<1>11. ~over /\ over' = over
  BY <1>1 DEF over
<1>12. Leftovers' = Leftovers /\ (shortRead' \/ lost' \/ validated')
  BY <1>1, <1>2 DEF Leftovers, Greeting, histories
<1>13. splitData' = t
  BY <1>1, <1>4
<1>14. ASSUME NEW y \in 0..l - 2, NEW hs, hs = handled', Len(hs) + (l - 2 - y) = Served(d),
              \A i \in 1..y : ~IsAddrPort(t[i]),
              \A i \in y + 1..l - 2 : t[i] = Body(Listing[Len(hs) + i - y]),
              InOrder'
       PROVE  TextInv'
  <2>1. /\ IsSequence(t) /\ Kept(t[Len(t)], G, d)' /\ y \in 0..Len(t) - 1
        /\ Len(hs) + (Len(t) - 1 - y) = Served(d)
        /\ \A i \in 1..y : ~IsAddrPort(t[i])
        /\ \A i \in y + 1..Len(t) - 1 : t[i] = Body(Listing[Len(hs) + i - y])
    <3>1. Len(t) = l - 1 /\ Len(t) - 1 = l - 2
      BY <1>5, <1>7
    <3> QED
      BY <1>7, <1>10, <1>14, <3>1
  <2>2. TextPass(G)'
    BY <1>13, <1>14, <2>1 DEF TextPass
  <2> QED
    BY <1>1, <1>12, <1>14, <2>2 DEF TextInv
<1>15. CASE z > 0
  <2>1. 1 \in 1..z
    BY <1>15
  <2>2. handled' = handled
    BY <1>1, <1>4, <1>6, <1>7, <2>1 DEF handleIPString
  <2>3. InOrder' /\ [Delivery!DeliveryNext]_(Delivery!deliveryVars)
    BY <1>2, <1>11, <2>2, NothingHandled
  <2>4. PICK y, hs : y = z - 1 /\ hs = handled'
    OBVIOUS
  <2>5. y \in 0..l - 2 /\ Len(hs) = k /\ k + (l - 2 - y) = Served(d)
    BY <1>4, <1>5, <1>6, <1>8, <1>15, <2>2, <2>4
  <2>6. \A i \in 1..y : ~IsAddrPort(t[i])
    <3> TAKE i \in 1..y
    <3>1. i \in 1..l - 1 /\ i + 1 \in 1..z
      BY <1>5, <2>4, <2>5
    <3> QED
      BY <1>6, <1>7, <3>1
  <2>7. \A i \in y + 1..l - 2 : t[i] = Body(Listing[Len(hs) + i - y])
    <3> TAKE i \in y + 1..l - 2
    <3>1. i \in 1..l - 1 /\ i + 1 \in z + 1..l - 1 /\ k + (i + 1) - z = k + i - y
      BY <1>5, <1>8, <2>4, <2>5
    <3> QED
      BY <1>6, <1>7, <2>5, <3>1
  <2>8. TextInv'
    BY <1>14, <2>3, <2>4, <2>5, <2>6, <2>7
  <2> QED
    BY <2>3, <2>8
<1>16. CASE z = 0
  <2>1. 1 \in z + 1..l - 1 /\ k + 1 - z = k + 1
    BY <1>5, <1>8, <1>16
  <2>2. ps[1] = Body(Listing[k + 1])
    BY <1>6, <2>1
  <2>3. k + 1 \in 1..Len(Listing) /\ k < Len(Listing)
    <3>1. k + (l - 1) = IF d = 0 THEN 0 ELSE d - 1
      BY <1>5, <1>6, <1>16 DEF Served
    <3> QED
      BY <1>5, <1>8, <3>1
  <2>4. PICK b : b = ps[1]
    OBVIOUS
  <2>5. handleIPString(b)
    BY <1>1, <1>4, <1>7, <2>4
  <2>6. handled' = Append(handled, Listing[k + 1])
    BY <2>2, <2>3, <2>4, <2>5, BodyHandled
  <2>7. InOrder' /\ Len(handled') = k + 1 /\ Delivery!DeliveryNext
    <3>1. InOrder /\ ~over /\ Len(handled) < Len(Listing) /\ handled' = Append(handled, Listing[Len(handled) + 1])
      BY <1>2, <1>4, <1>11, <2>3, <2>6
    <3>2. InOrder' /\ Len(handled') = Len(handled) + 1 /\ Delivery!DeliveryNext
      BY <3>1, NextHandled
    <3> QED
      BY <1>4, <3>2
  <2>8. PICK y, hs : y = 0 /\ hs = handled'
    OBVIOUS
  <2>9. y \in 0..l - 2 /\ Len(hs) = k + 1 /\ (k + 1) + (l - 2 - y) = Served(d)
    <3>1. y \in 0..l - 2 /\ (k + 1) + (l - 2 - y) = k + (l - 1 - z)
      BY <1>5, <1>8, <1>16, <2>8
    <3> QED
      BY <1>6, <2>7, <2>8, <3>1
  <2>10. \A i \in 1..y : ~IsAddrPort(t[i])
    BY <2>8
  <2>11. \A i \in y + 1..l - 2 : t[i] = Body(Listing[Len(hs) + i - y])
    <3> TAKE i \in y + 1..l - 2
    <3>1. i \in 1..l - 1 /\ i + 1 \in z + 1..l - 1 /\ k + (i + 1) - z = (k + 1) + i - y
      BY <1>5, <1>8, <1>16, <2>8
    <3> QED
      BY <1>6, <1>7, <2>9, <3>1
  <2>12. TextInv'
    BY <1>14, <2>7, <2>8, <2>9, <2>10, <2>11
  <2> QED
    BY <2>7, <2>12
<1> QED
  BY <1>5, <1>15, <1>16

LEMMA PieceKept ==
  ASSUME TextOn, KeepPiece
  PROVE  TextInv' /\ [Delivery!DeliveryNext]_(Delivery!deliveryVars)
<1>1. /\ pc = "split" /\ pc' = "list" /\ Len(splitData) = 1 /\ handled' = handled
      /\ ipStringAccum' = IpMark \o splitData[1]
      /\ session' = session /\ stream' = stream /\ UNCHANGED histories
  BY DEF KeepPiece, networkVars
<1>2. InOrder /\ (shortRead \/ lost \/ validated) /\ NoCompressedList
  BY <1>1 DEF TextOn, TextInv
<1>3. PICK G \in Leftovers : TextPass(G)
  BY <1>1 DEF TextOn, TextInv
<1>4. PICK p : p = splitData[1]
  OBVIOUS
<1>5. PICK d \in 0..Len(Listing), z \in 0..1 - 1 : Kept(p, G, d) /\ Len(handled) + (1 - 1 - z) = Served(d)
  BY <1>1, <1>3, <1>4 DEF TextPass
<1>6. Len(handled) = Served(d)
  <2>1. Len(handled) \in Nat
    BY <1>2, LenProperties DEF InOrder, IsSequence
  <2> QED
    BY <1>5, <2>1
<1>7. Kept(p, G, d)'
  BY <1>1, <1>5 DEF Kept, Awaits, histories
<1>8. TextKept(G)'
  BY <1>1, <1>4, <1>6, <1>7 DEF TextKept
<1>9. InOrder' /\ [Delivery!DeliveryNext]_(Delivery!deliveryVars)
  <2>1. ~over
    BY <1>1 DEF over
  <2> QED
    BY <1>1, <1>2, <2>1, NothingHandled
<1>10. Leftovers' = Leftovers /\ (shortRead' \/ lost' \/ validated')
  BY <1>1, <1>2 DEF Leftovers, Greeting, histories
<1> QED
  BY <1>1, <1>8, <1>9, <1>10 DEF TextInv

(* Part of what is on the stream is lost. *)
LEMMA AwaitsCut ==
  ASSUME NEW p, NEW w, Awaits(p, w), StartOf(stream', stream), validated' = validated,
         lost => lost', lost' \/ stream' = stream
  PROVE  Awaits(p, w)'
<1>1. PICK s, r : s = stream /\ r = stream'
  OBVIOUS
<1>2. IsSequence(p) /\ IsSequence(s) /\ StartOf(p \o s, w) /\ (validated /\ ~lost => p \o s = w)
  BY <1>1 DEF Awaits
<1>3. StartOf(r, s) /\ IsSequence(r)
  BY <1>1 DEF StartOf
<1>4. StartOf(p \o r, p \o s)
  BY <1>2, <1>3, StartCancel
<1>5. PICK x, y : x = p \o r /\ y = p \o s
  OBVIOUS
<1>6. StartOf(x, w)
  <2>1. StartOf(x, y) /\ StartOf(y, w)
    BY <1>2, <1>4, <1>5
  <2>2. /\ IsSequence(x) /\ IsSequence(w) /\ Len(x) \in Nat /\ Len(y) \in Nat /\ Len(w) \in Nat
        /\ Len(x) <= Len(y) /\ Len(y) <= Len(w)
    BY <2>1, LenProperties DEF StartOf, IsSequence
  <2>3. \A i \in 1..Len(x) : i \in 1..Len(y)
    BY <2>2
  <2>4. \A i \in 1..Len(x) : x[i] = w[i]
    BY <2>1, <2>3 DEF StartOf
  <2>5. Len(x) <= Len(w)
    BY <2>2
  <2> QED
    BY <2>2, <2>4, <2>5 DEF StartOf
<1>7. validated' /\ ~lost' => p \o r = w
  BY <1>1, <1>2
<1> QED
  BY <1>1, <1>2, <1>3, <1>5, <1>6, <1>7 DEF Awaits

LEMMA KeptCut ==
  ASSUME NEW G, StartOf(stream', stream), validated' = validated,
         lost => lost', lost' \/ stream' = stream, UNCHANGED <<ipStringAccum, splitData, handled>>
  PROVE  /\ TextKept(G) => TextKept(G)'
         /\ TextPass(G) => TextPass(G)'
<1>1. ASSUME NEW p, NEW d, Kept(p, G, d)
      PROVE  Kept(p, G, d)'
  <2>1. PICK w : w = Piece(G, d) \o Rest(G, d + 1)
    OBVIOUS
  <2>2. Awaits(p, w)
    BY <1>1, <2>1 DEF Kept
  <2>3. Awaits(p, w)'
    BY <2>2, AwaitsCut
  <2> QED
    BY <1>1, <2>1, <2>3 DEF Kept
<1>2. ASSUME TextKept(G)
      PROVE  TextKept(G)'
  <2>1. CASE ipStringAccum = <<>> /\ handled = <<>> /\ Awaits(<<>>, G \o Rest(G, 1))
    <3>1. PICK p, w : p = <<>> /\ w = G \o Rest(G, 1)
      OBVIOUS
    <3>2. Awaits(p, w)
      BY <2>1, <3>1
    <3>3. Awaits(p, w)'
      BY <3>2, AwaitsCut
    <3> QED
      BY <2>1, <3>1, <3>3 DEF TextKept
  <2>2. ASSUME NEW d \in 0..Len(Listing), NEW p,
               ipStringAccum = IpMark \o p, Len(handled) = Served(d), Kept(p, G, d)
        PROVE  TextKept(G)'
    <3>1. Kept(p, G, d)'
      BY <1>1, <2>2
    <3> QED
      BY <2>2, <3>1 DEF TextKept
  <2> QED
    BY <1>2, <2>1, <2>2 DEF TextKept
<1>3. ASSUME TextPass(G)
      PROVE  TextPass(G)'
  <2>1. PICK ps, hs : ps = splitData /\ hs = handled
    OBVIOUS
  <2>2. PICK d \in 0..Len(Listing), z \in 0..Len(ps) - 1 :
          /\ Kept(ps[Len(ps)], G, d)
          /\ Len(hs) + (Len(ps) - 1 - z) = Served(d)
          /\ \A i \in 1..z : ~IsAddrPort(ps[i])
          /\ \A i \in z + 1..Len(ps) - 1 : ps[i] = Body(Listing[Len(hs) + i - z])
    BY <1>3, <2>1 DEF TextPass
  <2>3. PICK p : p = ps[Len(ps)]
    OBVIOUS
  <2>4. Kept(p, G, d)'
    BY <1>1, <2>2, <2>3
  <2>5. IsSequence(ps) /\ splitData' = ps /\ handled' = hs
    BY <1>3, <2>1 DEF TextPass
  <2> QED
    BY <2>2, <2>3, <2>4, <2>5 DEF TextPass
<1> QED
  BY <1>2, <1>3

(* The stream is cut, and the session goes on where it stood or further.    *)
LEMMA TextCut ==
  ASSUME TextOn, UNCHANGED <<session, handled, ipStringAccum, splitData, shortRead, validated>>,
         StartOf(stream', stream), lost => lost', lost' \/ stream' = stream,
         \/ pc' = pc /\ (pc = "auth" => (~closed' => ~closed) /\ (~lost' => ~closed'))
            /\ (pc = "auth" /\ ~closed' => stream' = stream)
         \/ pc \in {"auth", "list"} /\ pc' = "done" /\ lost'
         \/ pc = "list" /\ pc' = "tail" /\ (lost' \/ stream' = <<>>)
  PROVE  TextInv' /\ [Delivery!DeliveryNext]_(Delivery!deliveryVars)
<1>1. pc \in {"auth", "list", "split", "tail", "done", "panic"} /\ NoCompressedList
  BY DEF TextOn, TextInv
<1>2. [Delivery!DeliveryNext]_(Delivery!deliveryVars) /\ (InOrder => InOrder')
  <2>1. over => over'
    BY DEF over
  <2> QED
    BY <2>1, NothingHandled
<1>3. Leftovers' = Leftovers /\ Greeting' = Greeting
  BY DEF Leftovers, Greeting
<1>4. \A G : (TextKept(G) => TextKept(G)') /\ (TextPass(G) => TextPass(G)')
  BY KeptCut
<1>5. CASE pc' = "auth"
  <2>1. pc = "auth" /\ (~closed' => ~closed) /\ (~lost' => ~closed') /\ (~closed' => stream' = stream)
    BY <1>5
  <2>2. /\ handled = <<>> /\ ipStringAccum = <<>> /\ ~shortRead /\ ~validated
        /\ StartOf(stream, Greeting) /\ (~closed => stream = Greeting) /\ (~lost => ~closed)
    BY <2>1 DEF TextOn, TextInv
  <2>3. StartOf(stream', Greeting)
    <3>1. PICK x, y, w : x = stream' /\ y = stream /\ w = Greeting
      OBVIOUS
    <3>2. StartOf(x, y) /\ StartOf(y, w)
      BY <2>2, <3>1
    <3>3. /\ IsSequence(x) /\ IsSequence(w) /\ Len(x) \in Nat /\ Len(y) \in Nat /\ Len(w) \in Nat
          /\ Len(x) <= Len(y) /\ Len(y) <= Len(w)
      BY <3>2, LenProperties DEF StartOf, IsSequence
    <3>4. \A i \in 1..Len(x) : i \in 1..Len(y)
      BY <3>3
    <3>5. \A i \in 1..Len(x) : x[i] = w[i]
      BY <3>2, <3>4 DEF StartOf
    <3>6. Len(x) <= Len(w)
      BY <3>3
    <3>7. StartOf(x, w)
      BY <3>3, <3>5, <3>6 DEF StartOf
    <3> QED
      BY <3>1, <3>7
  <2>4. ~closed' => stream' = Greeting
    BY <2>1, <2>2
  <2>5. /\ handled' = <<>> /\ ipStringAccum' = <<>> /\ ~shortRead' /\ ~validated'
        /\ StartOf(stream', Greeting') /\ (~closed' => stream' = Greeting') /\ (~lost' => ~closed')
    BY <1>3, <2>1, <2>2, <2>3, <2>4
  <2> QED
    BY <1>2, <1>5, <2>5 DEF TextInv
<1>6. CASE pc' = "list"
  <2>1. pc = "list"
    BY <1>6
  <2> QED
    BY <1>2, <1>3, <1>4, <1>6, <2>1 DEF TextOn, TextInv
<1>7. CASE pc' = "split"
  <2>1. pc = "split"
    BY <1>7
  <2> QED
    BY <1>2, <1>3, <1>4, <1>7, <2>1 DEF TextOn, TextInv
<1>8. CASE pc' = "tail"
  <2>1. pc \in {"list", "tail"}
    BY <1>8
  <2>2. lost' \/ stream' = <<>>
    <3>1. CASE pc = "list"
      BY <1>8, <3>1
    <3>2. CASE pc = "tail"
      <4>1. lost \/ stream = <<>>
        BY <3>2 DEF TextOn, TextInv
      <4> QED
        BY <4>1
    <3> QED
      BY <2>1, <3>1, <3>2
  <2> QED
    BY <1>2, <1>3, <1>4, <1>8, <2>1, <2>2 DEF TextOn, TextInv
<1>9. CASE pc' = "done"
  <2>1. CASE pc = "done"
    BY <1>2, <1>9, <2>1 DEF TextOn, TextInv
  <2>2. CASE pc # "done"
    <3>1. lost'
      BY <1>9, <2>2
    <3> QED
      BY <1>2, <1>9, <3>1 DEF TextInv
  <2> QED
    BY <2>1, <2>2
<1>10. CASE pc' = "panic"
  <2>1. pc = "panic"
    BY <1>10
  <2> QED
    BY <1>2, <1>10, <2>1 DEF TextOn, TextInv
<1>11. pc' \in {"auth", "list", "split", "tail", "done", "panic"}
  BY <1>1
<1> QED
  BY <1>5, <1>6, <1>7, <1>8, <1>9, <1>10, <1>11

LEMMA TextSequence ==
  ASSUME TextOn, ~over
  PROVE  IsSequence(stream)
<1>1. CASE pc = "auth"
  BY <1>1 DEF TextOn, TextInv, StartOf
<1>2. CASE pc \in {"list", "tail"}
  <2>1. PICK G \in Leftovers : TextKept(G)
    BY <1>2 DEF TextOn, TextInv
  <2> QED
    BY <2>1 DEF TextKept, Kept, Awaits
<1>3. CASE pc = "split"
  <2>1. PICK G \in Leftovers : TextPass(G)
    BY <1>3 DEF TextOn, TextInv
  <2> QED
    BY <2>1 DEF TextPass, Kept, Awaits
<1> QED
  BY <1>1, <1>2, <1>3 DEF TextOn, TextInv, over

LEMMA TextCloses ==
  ASSUME TextOn, MasterCloses, UNCHANGED <<ipStringAccum, splitData>>
  PROVE  TextInv' /\ [Delivery!DeliveryNext]_(Delivery!deliveryVars)
<1>1. /\ ~over /\ closed' = TRUE /\ UNCHANGED <<session, pc, handled, validated, shortRead>>
      /\ \E n \in 0..Len(stream) :
           /\ stream' = SubSeq(stream, 1, n)
           /\ lost' = (lost \/ Owed \/ n < Len(stream))
  BY DEF MasterCloses
<1>2. PICK n \in 0..Len(stream) :
        /\ stream' = SubSeq(stream, 1, n)
        /\ lost' = (lost \/ Owed \/ n < Len(stream))
  BY <1>1
<1>3. IsSequence(stream) /\ Len(stream) \in Nat
  <2>1. IsSequence(stream)
    BY <1>1, TextSequence
  <2> QED
    BY <2>1, LenProperties DEF IsSequence
<1>4. StartOf(stream', stream)
  BY <1>2, <1>3, WholeStart, StartCut
<1>5. lost' \/ stream' = stream
  <2>1. n < Len(stream) \/ n = Len(stream)
    BY <1>3
  <2>2. SubSeq(stream, 1, Len(stream)) = stream
    BY <1>3, WholeSequence
  <2> QED
    BY <1>2, <2>1, <2>2
<1>6. (lost => lost') /\ (pc = "auth" => lost')
  BY <1>2 DEF Owed
<1> QED
  BY <1>1, <1>4, <1>5, <1>6, TextCut

LEMMA TextFails ==
  ASSUME TextOn, AuthenticateFails \/ TextReadFails \/ RecordReadFails
  PROVE  TextInv' /\ [Delivery!DeliveryNext]_(Delivery!deliveryVars)
<1>1. /\ pc \in {"auth", "list"} /\ stream' = <<>> /\ lost' = TRUE /\ closed' = TRUE
      /\ UNCHANGED <<session, handled, ipStringAccum, splitData, shortRead, validated>>
      /\ \/ pc = "auth" /\ pc' = "done"
         \/ pc = "list" /\ pc' = "tail"
  BY DEF AuthenticateFails, TextReadFails, RecordReadFails, ReadFails, ReadErr, readerVars, textVars,
         TextOn
<1>2. StartOf(stream', stream)
  <2>1. IsSequence(stream)
    BY <1>1, TextSequence DEF over
  <2> QED
    BY <1>1, <2>1, EmptyStart
<1> QED
  BY <1>1, <1>2, TextCut

LEMMA TextOver ==
  ASSUME TextOn, TextEnds
  PROVE  TextInv' /\ [Delivery!DeliveryNext]_(Delivery!deliveryVars)
<1>1. /\ pc = "list" /\ pc' = "tail" /\ stream = <<>> /\ stream' = stream /\ lost' = lost
      /\ UNCHANGED <<session, handled, ipStringAccum, splitData, shortRead, validated>>
  BY DEF TextEnds, networkVars, histories, readerVars, textVars
<1>2. StartOf(stream', stream)
  <2>1. IsSequence(stream)
    BY <1>1, TextSequence DEF over
  <2> QED
    BY <1>1, <2>1, WholeStart
<1> QED
  BY <1>1, <1>2, TextCut

LEMMA TextStays ==
  ASSUME TextOn,
         UNCHANGED <<session, pc, stream, closed, handled, ipStringAccum, splitData, histories>>
  PROVE  TextInv' /\ [Delivery!DeliveryNext]_(Delivery!deliveryVars)
<1>1. UNCHANGED <<validated, shortRead, lost>>
  BY DEF histories
<1>2. CASE over
  BY <1>1, <1>2, NothingHandled DEF TextOn, TextInv, over
<1>3. CASE ~over
  <2>1. IsSequence(stream)
    BY <1>3, TextSequence
  <2>2. StartOf(stream', stream)
    BY <2>1, WholeStart
  <2>3. pc = "auth" => (~lost' => ~closed')
    BY <1>1 DEF TextOn, TextInv
  <2> QED
    BY <1>1, <2>2, <2>3, TextCut
<1> QED
  BY <1>2, <1>3

-----------------------------------------------------------------------------
(* The piece that the end of the connection leaves.                         *)

LEMMA FirstBackslash ==
  ASSUME NEW p, IsSequence(p), NEW m \in 0..Len(p), \A i \in 1..m : p[i] # Backslash,
         m = Len(p) \/ p[m + 1] = Backslash
  PROVE  UpToBackslash(p) = SubSeq(p, 1, m)
<1> DEFINE I == {i \in 1..Len(p) : p[i] = Backslash}
           first == SelectInSeq(p, LAMBDA c : c = Backslash)
<1>1. Len(p) \in Nat
  BY LenProperties DEF IsSequence
<1>2. first = IF I # {} THEN Min(I) ELSE 0
  BY DEF SelectInSeq
<1>3. UpToBackslash(p) = IF first = 0 THEN p ELSE SubSeq(p, 1, first - 1)
  BY DEF UpToBackslash
<1>4. CASE m = Len(p)
  <2>1. I = {}
    BY <1>4
  <2>2. UpToBackslash(p) = p
    BY <1>2, <1>3, <2>1
  <2> QED
    BY <1>4, <2>2, WholeSequence
<1>5. CASE m # Len(p)
  <2>1. m + 1 \in I /\ \A i \in I : m + 1 <= i
    BY <1>1, <1>5
  <2>2. I \subseteq Int
    BY <1>1
  <2>3. Min(I) = m + 1
    <3> HIDE DEF I
    <3>1. Min(I) = CHOOSE x \in I : \A y \in I : x <= y
      BY DEF Min
    <3>2. \A x \in I : (\A y \in I : x <= y) => x = m + 1
      BY <2>1, <2>2
    <3> QED
      BY <2>1, <3>1, <3>2
  <2>4. first = m + 1
    BY <1>2, <2>1, <2>3
  <2>5. m + 1 # 0 /\ (m + 1) - 1 = m
    BY <1>1
  <2> HIDE DEF first
  <2> QED
    BY <1>3, <2>4, <2>5
<1> QED
  BY <1>4, <1>5

LEMMA BeginningFacts ==
  ASSUME NEW s, IsSequence(s), NEW m \in 0..Len(s), NEW r, r = SubSeq(s, 1, m)
  PROVE  IsSequence(r) /\ Len(r) = m /\ \A i \in 1..m : r[i] = s[i]
<1> DEFINE S == ToSet(s)
<1>1. s \in Seq(S) /\ Len(s) \in Nat /\ m \in Nat
  BY LenProperties DEF IsSequence
<1> HIDE DEF S
<1>2. \A i \in 1..m : s[i] \in S
  BY <1>1, ElementOfSeq
<1>3. \A i \in 1..m - 1 + 1 : r[i] = s[1 + i - 1]
  BY <1>1, <1>2, SubSeqProperties
<1>4. \A i \in 1..m : i \in 1..m - 1 + 1 /\ 1 + i - 1 = i
  BY <1>1
<1>5. IsSequence(r) /\ Len(r) = m
  BY <1>1, ChunkSequence
<1> QED
  BY <1>3, <1>4, <1>5

LEMMA UpToFacts ==
  ASSUME NEW p, IsSequence(p)
  PROVE  \E m \in 0..Len(p) : UpToBackslash(p) = SubSeq(p, 1, m)
<1> DEFINE I == {i \in 1..Len(p) : p[i] = Backslash}
<1>1. Len(p) \in Nat
  BY LenProperties DEF IsSequence
<1>2. CASE I = {}
  <2>1. \A i \in 1..Len(p) : p[i] # Backslash
    BY <1>2
  <2>2. Len(p) \in 0..Len(p)
    BY <1>1
  <2> HIDE DEF I
  <2> QED
    BY <2>1, <2>2, FirstBackslash
<1>3. CASE I # {}
  <2>1. PICK i \in I : \A j \in I : i <= j
    <3>1. I \in SUBSET Nat
      BY <1>1
    <3> HIDE DEF I
    <3> QED
      BY <1>3, <3>1, LeastElement
  <2>2. PICK m : m = i - 1
    OBVIOUS
  <2>3. m \in 0..Len(p) /\ p[m + 1] = Backslash
    BY <1>1, <2>1, <2>2
  <2>4. \A j \in 1..m : p[j] # Backslash
    BY <1>1, <2>1, <2>2
  <2> HIDE DEF I
  <2> QED
    BY <2>3, <2>4, FirstBackslash
<1> QED
  BY <1>2, <1>3

LEMMA RestStart ==
  ASSUME NEW G, IsSequence(G), NEW d \in 0..Len(Listing) + 1, NEW R, R = Rest(G, d)
  PROVE  /\ IsSequence(R) /\ Len(R) \in Nat /\ Len(R) >= 3 /\ R[1] = Backslash
         /\ d <= Len(Listing) => Len(R) >= 4
<1>1. PICK n \in Nat : n = Len(Listing)
  BY ListingFacts
<1>2. /\ \A k \in 0..n : IsSequence(Piece(G, k))
      /\ \A k \in 0..n + 1 : IsSequence(Rest(G, k))
      /\ \A k \in 0..n : Rest(G, k) = IpMark \o (Piece(G, k) \o Rest(G, k + 1))
      /\ Rest(G, n + 1) = FinalText
  BY <1>1, RestFacts
<1>3. CASE d = n + 1
  <2>1. R = FinalText /\ ~(d <= Len(Listing))
    BY <1>1, <1>2, <1>3
  <2> QED
    BY <2>1, FinalTextFacts
<1>4. CASE d \in 0..n
  <2>1. d + 1 \in 0..n + 1 /\ d \in 0..n + 1
    BY <1>4
  <2>2. PICK m, x, y : m = IpMark /\ x = Piece(G, d) /\ y = Rest(G, d + 1)
    OBVIOUS
  <2>3. IsSequence(m) /\ IsSequence(x) /\ IsSequence(y) /\ R = m \o (x \o y) /\ Len(m) = 4 /\ m[1] = Backslash
    BY <1>2, <1>4, <2>1, <2>2, IpMarkFacts
  <2>4. PICK z : z = x \o y
    OBVIOUS
  <2>5. IsSequence(z)
    BY <2>3, <2>4, ConcatSequences
  <2>6. /\ IsSequence(m \o z) /\ Len(m \o z) = Len(m) + Len(z) /\ Len(z) \in Nat
        /\ \A i \in 1..Len(m) + Len(z) : (m \o z)[i] = IF i <= Len(m) THEN m[i] ELSE z[i - Len(m)]
    BY <2>3, <2>5, ConcatSequences
  <2>7. (m \o z)[1] = Backslash
    <3>1. 1 \in 1..Len(m) + Len(z) /\ 1 <= Len(m)
      BY <2>3, <2>6
    <3> QED
      BY <2>3, <2>6, <3>1
  <2> QED
    BY <2>3, <2>4, <2>6, <2>7
<1> QED
  BY <1>1, <1>3, <1>4

(* What came with the challenge is no address, cut where it may be.         *)
LEMMA NoAddressInGreeting ==
  ASSUME session \in Sessions, session.kind = "goa", NEW G \in Leftovers, NEW R, IsSequence(R),
         Len(R) >= 3, R[1] = Backslash, NEW p, StartOf(p, G \o R)
  PROVE  ~IsAddrPort(UpToBackslash(p))
<1>1. Leftover(G) /\ IsSequence(G)
  BY LeftoverFacts
<1>2. PICK w : w = G \o R
  OBVIOUS
<1>3. /\ IsSequence(w) /\ Len(G) \in Nat /\ Len(R) \in Nat /\ Len(w) = Len(G) + Len(R)
      /\ \A i \in 1..Len(G) + Len(R) : w[i] = IF i <= Len(G) THEN G[i] ELSE R[i - Len(G)]
  BY <1>1, <1>2, ConcatSequences
<1>4. IsSequence(p) /\ Len(p) \in Nat /\ Len(p) <= Len(w) /\ \A i \in 1..Len(p) : p[i] = w[i]
  BY <1>2, LenProperties DEF StartOf, IsSequence
<1>5. PICK m \in 0..Len(p) : UpToBackslash(p) = SubSeq(p, 1, m)
  BY <1>4, UpToFacts
<1>6. PICK u : u = SubSeq(p, 1, m)
  OBVIOUS
<1>7. Len(u) = m /\ \A i \in 1..m : u[i] = p[i]
  BY <1>4, <1>6, BeginningFacts
<1>8. SUFFICES ASSUME m >= 3, u[1] \in Hosts PROVE FALSE
  BY <1>5, <1>6, <1>7 DEF IsAddrPort
<1>9. 1 \in 1..m /\ 1 \in 1..Len(p) /\ 1 \in 1..Len(G) + Len(R)
  BY <1>3, <1>4, <1>8
<1>10. w[1] \in Hosts
  BY <1>4, <1>7, <1>8, <1>9
<1>11. CASE 1 <= Len(G)
  <2>1. 1 \in 1..Len(G)
    BY <1>3, <1>11
  <2>2. w[1] = G[1]
    BY <1>3, <1>9, <1>11
  <2> QED
    BY <1>1, <1>10, <2>1, <2>2 DEF Leftover
<1>12. CASE ~(1 <= Len(G))
  <2>1. 1 - Len(G) = 1
    BY <1>3, <1>12
  <2>2. w[1] = Backslash
    BY <1>3, <1>9, <1>12, <2>1
  <2> QED
    BY <1>10, <2>2, SeparatorAssumption
<1> QED
  BY <1>11, <1>12

LEMMA ServerTailCut ==
  ASSUME NEW i \in 1..Len(Listing), NEW b, b = Body(Listing[i]), NEW R, IsSequence(R), Len(R) >= 3,
         R[1] = Backslash, NEW p, StartOf(p, b \o R)
  PROVE  \E m \in 0..4 : UpToBackslash(p) = SubSeq(b, 1, m) /\ (Len(p) >= 4 => m = 4)
<1>1. /\ IsSequence(b) /\ Len(b) = 4
      /\ b[1] \in Hosts /\ b[2] = ":" /\ b[3] \in Digits /\ b[4] \in Digits
  BY BodyFacts
<1>2. \A k \in 1..4 : b[k] # Backslash
  <2>1. ":" # Backslash
    BY DEF Backslash
  <2>2. \A k \in 1..4 : k = 1 \/ k = 2 \/ k = 3 \/ k = 4
    OBVIOUS
  <2> QED
    BY <1>1, <2>1, <2>2, SeparatorAssumption
<1>3. PICK w : w = b \o R
  OBVIOUS
<1>4. /\ IsSequence(w) /\ Len(R) \in Nat /\ Len(w) = 4 + Len(R)
      /\ \A k \in 1..4 + Len(R) : w[k] = IF k <= 4 THEN b[k] ELSE R[k - 4]
  <2>1. /\ IsSequence(w) /\ Len(R) \in Nat /\ Len(w) = Len(b) + Len(R)
        /\ \A k \in 1..Len(b) + Len(R) : w[k] = IF k <= Len(b) THEN b[k] ELSE R[k - Len(b)]
    BY <1>1, <1>3, ConcatSequences
  <2> QED
    BY <1>1, <2>1
<1>5. IsSequence(p) /\ Len(p) \in Nat /\ Len(p) <= Len(w) /\ \A k \in 1..Len(p) : p[k] = w[k]
  BY <1>3, LenProperties DEF StartOf, IsSequence
<1>6. PICK m \in 0..4 : (Len(p) >= 4 => m = 4) /\ (Len(p) < 4 => m = Len(p))
  <2>1. CASE Len(p) >= 4
    BY <1>5, <2>1
  <2>2. CASE Len(p) < 4
    <3>1. PICK k : k = Len(p)
      OBVIOUS
    <3>2. k \in 0..4 /\ ~(Len(p) >= 4)
      BY <1>5, <2>2, <3>1
    <3> QED
      BY <3>1, <3>2
  <2> QED
    BY <1>5, <2>1, <2>2
<1>7. m \in 0..Len(p) /\ m \in 0..Len(b) /\ m \in Nat
  BY <1>1, <1>5, <1>6
<1>8. \A k \in 1..m : p[k] = b[k]
  <2> TAKE k \in 1..m
  <2>1. k \in 1..Len(p) /\ k \in 1..4 + Len(R) /\ k <= 4
    BY <1>4, <1>5, <1>7
  <2> QED
    BY <1>4, <1>5, <2>1
<1>9. \A k \in 1..m : p[k] # Backslash
  <2> TAKE k \in 1..m
  <2>1. k \in 1..4
    BY <1>7
  <2> QED
    BY <1>2, <1>8, <2>1
<1>10. m = Len(p) \/ p[m + 1] = Backslash
  <2>1. SUFFICES ASSUME m # Len(p) PROVE p[m + 1] = Backslash
    OBVIOUS
  <2>2. m = 4 /\ 5 \in 1..Len(p) /\ 5 \in 1..4 + Len(R) /\ ~(5 <= 4) /\ 5 - 4 = 1 /\ m + 1 = 5
    BY <1>4, <1>5, <1>6, <2>1
  <2> QED
    BY <1>4, <1>5, <2>2
<1>11. UpToBackslash(p) = SubSeq(p, 1, m)
  BY <1>5, <1>7, <1>9, <1>10, FirstBackslash
<1>12. PICK x, y : x = SubSeq(p, 1, m) /\ y = SubSeq(b, 1, m)
  OBVIOUS
<1>13. IsSequence(x) /\ Len(x) = m /\ \A k \in 1..m : x[k] = p[k]
  BY <1>5, <1>7, <1>12, BeginningFacts
<1>14. IsSequence(y) /\ Len(y) = m /\ \A k \in 1..m : y[k] = b[k]
  BY <1>1, <1>7, <1>12, BeginningFacts
<1>15. x = y
  BY <1>8, <1>13, <1>14, SequencesEqual
<1> QED
  BY <1>6, <1>11, <1>12, <1>15

LEMMA NotEmpty ==
  ASSUME NEW s, Len(s) = 1
  PROVE  s # <<>>
BY EmptySequence

(* The piece that was kept. *)
LEMMA KeptPiece ==
  ASSUME NEW p, IsSequence(p), ipStringAccum = IpMark \o p
  PROVE  TailPiece = UpToBackslash(p) /\ Len(ipStringAccum) >= 4
<1>1. PICK m, v : m = IpMark /\ v = m \o p
  OBVIOUS
<1>2. IsSequence(m) /\ Len(m) = 4
  BY <1>1, IpMarkFacts
<1>3. Len(v) = Len(m) + Len(p) /\ Len(p) \in Nat
  BY <1>1, <1>2, ConcatSequences
<1>4. SubSeq(v, Len(m) + 1, Len(v)) = p
  BY <1>1, <1>2, ConcatCut
<1>5. SubSeq(v, 5, Len(v)) = p /\ Len(v) >= 4
  BY <1>2, <1>3, <1>4
<1>6. ipStringAccum = v
  BY <1>1
<1> QED
  BY <1>5, <1>6 DEF TailPiece

(* A server is handled whole, without the last digit of its port or not at  *)
(* all.                                                                     *)
LEMMA ServerTail ==
  ASSUME InOrder, ~over, over', Len(handled) < Len(Listing), NEW b, b = Body(Listing[Len(handled) + 1]),
         NEW m \in 0..4, handleIPString(SubSeq(b, 1, m))
  PROVE  /\ [Delivery!DeliveryNext]_(Delivery!deliveryVars)
         /\ m = 4 => InOrder' /\ Len(handled') = Len(handled) + 1
<1>1. PICK i : i = Len(handled) + 1
  OBVIOUS
<1>2. Len(handled) \in Nat /\ i \in 1..Len(Listing)
  BY <1>1, ListingFacts, LenProperties DEF InOrder, IsSequence
<1>3. /\ IsSequence(b) /\ Len(b) = 4
      /\ b[1] = Listing[i].host /\ b[2] = ":"
      /\ b[3] = Listing[i].port[1] /\ b[4] = Listing[i].port[2]
      /\ b[1] \in Hosts /\ b[3] \in Digits /\ b[4] \in Digits
  BY <1>1, <1>2, BodyFacts
<1>4. PICK u : u = SubSeq(b, 1, m)
  OBVIOUS
<1>5. m \in 0..Len(b) /\ m \in Nat
  BY <1>3
<1>6. IsSequence(u) /\ Len(u) = m /\ \A k \in 1..m : u[k] = b[k]
  BY <1>3, <1>4, <1>5, BeginningFacts
<1>7. CASE m = 4
  <2>1. u = b
    BY <1>3, <1>4, <1>7, WholeSequence
  <2>2. handleIPString(b)
    BY <1>4, <2>1
  <2>3. handled' = Append(handled, Listing[Len(handled) + 1])
    BY <1>1, <1>2, <2>2, BodyHandled
  <2> QED
    BY <2>3, NextHandled
<1>8. CASE m = 3
  <2>1. u[1] = b[1] /\ u[2] = b[2] /\ u[3] = b[3]
    BY <1>6, <1>8
  <2>2. IsAddrPort(u)
    <3>1. \A k \in 3..3 : k = 3
      OBVIOUS
    <3> QED
      BY <1>3, <1>6, <1>8, <2>1, <3>1 DEF IsAddrPort
  <2>3. PICK q, a, c : q = SubSeq(u, 3, 3) /\ a = Listing[i].port /\ c = SubSeq(Listing[i].port, 1, 1)
    OBVIOUS
  <2>4. IsSequence(q) /\ Len(q) = 1 /\ q[1] = u[3]
    <3>1. PICK k : k = 2
      OBVIOUS
    <3>2. k \in 0..Len(u) /\ k + 1 = 3 /\ Len(u) - k = 1 /\ Len(u) = 3
      BY <1>6, <1>8, <3>1
    <3>3. /\ IsSequence(SubSeq(u, k + 1, Len(u)))
          /\ Len(SubSeq(u, k + 1, Len(u))) = Len(u) - k
          /\ \A j \in 1..Len(u) - k : SubSeq(u, k + 1, Len(u))[j] = u[k + j]
      BY <1>6, <3>2, RemainingSequence
    <3>4. 1 \in 1..Len(u) - k /\ k + 1 = 3
      BY <3>2
    <3> QED
      BY <2>3, <3>2, <3>3, <3>4
  <2>5. IsSequence(a) /\ Len(a) = 2
    BY <1>2, <2>3, ListingFacts, SequenceOf
  <2>6. IsSequence(c) /\ Len(c) = 1 /\ c[1] = a[1]
    <3>1. PICK k : k = 1
      OBVIOUS
    <3>2. k \in 0..Len(a) /\ c = SubSeq(a, 1, k)
      BY <2>3, <2>5, <3>1
    <3>3. IsSequence(c) /\ Len(c) = k /\ \A j \in 1..k : c[j] = a[j]
      BY <2>5, <3>2, BeginningFacts
    <3> QED
      BY <3>1, <3>3
  <2>7. q = c
    <3>1. \A j \in 1..1 : j = 1
      OBVIOUS
    <3>2. \A j \in 1..1 : q[j] = c[j]
      BY <1>3, <2>1, <2>3, <2>4, <2>6, <3>1
    <3> QED
      BY <2>4, <2>6, <3>2, SequencesEqual
  <2>8. handled' = Append(handled, [host |-> Listing[i].host, port |-> c])
    <3>1. handleIPString(u)
      BY <1>4
    <3>2. handled' = Append(handled, [host |-> u[1], port |-> SubSeq(u, 3, Len(u))])
      BY <2>2, <3>1 DEF handleIPString
    <3>3. u[1] = Listing[i].host /\ SubSeq(u, 3, Len(u)) = c
      BY <1>3, <1>6, <1>8, <2>1, <2>3, <2>7
    <3> QED
      BY <3>2, <3>3
  <2>9. PICK s : s = Listing[i]
    OBVIOUS
  <2>10. [s EXCEPT !.port = c] = [host |-> s.host, port |-> c]
    <3>1. s = [host |-> s.host, port |-> s.port]
      BY <1>2, <2>9, ListingFacts
    <3>2. PICK h, x : h = s.host /\ x = s.port
      OBVIOUS
    <3>3. s = [host |-> h, port |-> x]
      BY <3>1, <3>2
    <3>4. [[host |-> h, port |-> x] EXCEPT !.port = c] = [host |-> h, port |-> c]
      OBVIOUS
    <3> QED
      BY <3>2, <3>3, <3>4
  <2>11. c \in Prefixes(s.port) \ {<<>>}
    <3>1. 1 \in 0..Len(s.port)
      BY <2>3, <2>5, <2>9
    <3>2. c \in Prefixes(s.port)
      BY <2>3, <2>9, <3>1 DEF Prefixes
    <3>3. Len(c) = 1
      BY <2>6
    <3>4. c # <<>>
      BY ONLY <3>3, NotEmpty
    <3> QED
      BY <3>2, <3>4
  <2>12. handled' = Append(handled, [s EXCEPT !.port = c])
    BY <2>8, <2>9, <2>10
  <2>13. over' = TRUE
    BY DEF over
  <2>15. \E x \in Prefixes(s.port) \ {<<>>} : handled' = Append(handled, [s EXCEPT !.port = x])
    BY <2>11, <2>12
  <2>16. s = Listing[Len(handled) + 1]
    BY <1>1, <2>9
  <2>17. \E x \in Prefixes(Listing[Len(handled) + 1].port) \ {<<>>} :
           handled' = Append(handled, [Listing[Len(handled) + 1] EXCEPT !.port = x])
    BY <2>15, <2>16, Zenon
  <2>18. \A x : Delivery!Prefixes(x) = Prefixes(x)
    BY DEF Delivery!Prefixes, Prefixes
  <2>14. Delivery!DeliverCut
    BY <2>13, <2>17, <2>18, Zenon DEF Delivery!DeliverCut
  <2> QED
    BY <1>8, <2>14 DEF Delivery!DeliveryNext
<1>9. CASE m < 3
  <2>1. ~IsAddrPort(u)
    BY <1>5, <1>6, <1>9 DEF IsAddrPort
  <2>2. handled' = handled
    BY <1>4, <2>1 DEF handleIPString
  <2> QED
    BY <1>9, <2>2, NothingHandled
<1> QED
  BY <1>5, <1>7, <1>8, <1>9

LEMMA TailHandled ==
  ASSUME TextOn, HandleTail
  PROVE  TextInv' /\ [Delivery!DeliveryNext]_(Delivery!deliveryVars)
<1>1. /\ pc = "tail" /\ pc' = "done" /\ session' = session /\ ipStringAccum' = ipStringAccum
      /\ stream' = stream /\ UNCHANGED histories
      /\ IF Len(ipStringAccum) >= 4
           THEN handleIPString(TailPiece)
           ELSE handled' = handled
  BY DEF HandleTail, networkVars, readerVars, textVars
<1>2. /\ InOrder /\ (shortRead \/ lost \/ validated) /\ NoCompressedList
      /\ lost \/ stream = <<>>
  BY <1>1 DEF TextOn, TextInv
<1>3. PICK G \in Leftovers : TextKept(G)
  BY <1>1 DEF TextOn, TextInv
<1>4. session \in Sessions /\ session.kind = "goa" /\ IsSequence(G) /\ Len(Listing) \in Nat
  BY LeftoverFacts, ListingFacts DEF TextOn
<1>5. ~over /\ over'
  BY <1>1 DEF over
<1>6. ASSUME validated /\ ~lost => handled' = Listing
      PROVE  TextInv'
  <2>1. shortRead' \/ lost' \/ validated'
    BY <1>1, <1>2 DEF histories
  <2>2. validated' /\ ~lost' => handled' = Listing
    BY <1>1, <1>6 DEF histories
  <2> QED
    BY <1>1, <2>1, <2>2 DEF TextInv
<1>7. CASE ipStringAccum = <<>> /\ handled = <<>> /\ Awaits(<<>>, G \o Rest(G, 1))
  <2>1. handled' = handled
    BY <1>1, <1>7, EmptySequence
  <2>2. [Delivery!DeliveryNext]_(Delivery!deliveryVars)
    BY <1>5, <2>1, NothingHandled
  <2>3. ~(validated /\ ~lost)
    <3>1. SUFFICES ASSUME validated, ~lost PROVE FALSE
      OBVIOUS
    <3>2. <<>> \o stream = G \o Rest(G, 1) /\ stream = <<>>
      BY <1>2, <1>7, <3>1 DEF Awaits
    <3>3. PICK R, none : R = Rest(G, 1) /\ none = <<>>
      OBVIOUS
    <3>4. 1 \in 0..Len(Listing) + 1
      BY <1>4
    <3>5. IsSequence(R) /\ Len(R) >= 3 /\ Len(R) \in Nat
      BY <1>4, <3>3, <3>4, RestStart
    <3>6. Len(G \o R) = Len(G) + Len(R) /\ Len(G) \in Nat
      BY <1>4, <3>5, ConcatSequences
    <3>7. none \o none = none /\ Len(none) = 0
      BY <3>3, EmptySequence, EmptyConcat
    <3>8. none = G \o R
      BY <3>2, <3>3, <3>7
    <3> QED
      BY <3>5, <3>6, <3>7, <3>8
  <2> QED
    BY <1>6, <2>2, <2>3
<1>8. ASSUME NEW d \in 0..Len(Listing), NEW p,
             ipStringAccum = IpMark \o p, Len(handled) = Served(d), Kept(p, G, d)
      PROVE  TextInv' /\ [Delivery!DeliveryNext]_(Delivery!deliveryVars)
  <2>1. PICK R, b : R = Rest(G, d + 1) /\ b = Piece(G, d)
    OBVIOUS
  <2>2. d + 1 \in 0..Len(Listing) + 1 /\ d \in Nat
    BY <1>4
  <2>3. /\ IsSequence(R) /\ Len(R) \in Nat /\ Len(R) >= 3 /\ R[1] = Backslash
        /\ d + 1 <= Len(Listing) => Len(R) >= 4
    BY <1>4, <2>1, <2>2, RestStart
  <2>4. IsSequence(b)
    <3>1. PICK n : n = Len(Listing)
      OBVIOUS
    <3>2. \A k \in 0..n : IsSequence(Piece(G, k))
      BY <1>4, <3>1, RestFacts
    <3> QED
      BY <2>1, <3>1, <3>2
  <2>5. /\ d < Len(Listing) => Len(p) < Len(b) + 4
        /\ IsSequence(p) /\ IsSequence(stream) /\ StartOf(p \o stream, b \o R)
        /\ validated /\ ~lost => p \o stream = b \o R
    BY <1>8, <2>1 DEF Kept, Awaits
  <2>6. PICK w : w = b \o R
    OBVIOUS
  <2>7. StartOf(p, b \o R)
    <3>1. StartOf(p \o stream, w)
      BY <2>5, <2>6
    <3>2. StartOf(p, w)
      BY <2>5, <3>1, StartPart
    <3> QED
      BY <2>6, <3>2
  <2>8. /\ Len(w) = Len(b) + Len(R) /\ Len(b) \in Nat
    BY <2>3, <2>4, <2>6, ConcatSequences
  (* All that was awaited has come only if this was the last piece. *)
  <2>9. ASSUME validated, ~lost
        PROVE  d = Len(Listing) /\ Len(p) >= Len(b)
    <3>1. stream = <<>> /\ p \o stream = w
      BY <1>2, <2>5, <2>6, <2>9
    <3>2. p \o <<>> = p
      BY <2>5, EmptyConcat
    <3>3. Len(p) = Len(b) + Len(R)
      BY <2>8, <3>1, <3>2
    <3>4. ~(d < Len(Listing))
      <4>1. d < Len(Listing) => d + 1 <= Len(Listing)
        BY <1>4, <2>2
      <4>2. Len(R) >= 4 => ~(Len(p) < Len(b) + 4)
        BY <2>3, <2>8, <3>3
      <4> QED
        BY <2>3, <2>5, <4>1, <4>2
    <3> QED
      BY <1>4, <2>2, <2>3, <2>8, <3>3, <3>4
  <2>10. handleIPString(UpToBackslash(p))
    BY <1>1, <1>8, <2>5, KeptPiece
  <2>11. CASE d = 0
    <3>1. b = G /\ Len(handled) = 0
      BY <1>8, <2>1, <2>11 DEF Piece, Served
    <3>2. StartOf(p, G \o R)
      BY <2>7, <3>1
    <3>3. ~IsAddrPort(UpToBackslash(p))
      BY <1>4, <2>3, <3>2, NoAddressInGreeting
    <3>4. handled' = handled
      BY <2>10, <3>3 DEF handleIPString
    <3>5. [Delivery!DeliveryNext]_(Delivery!deliveryVars)
      BY <1>5, <3>4, NothingHandled
    <3>6. ASSUME validated /\ ~lost
          PROVE  handled' = Listing
      <4>1. Len(handled) = Len(Listing)
        BY <2>9, <2>11, <3>1, <3>6
      <4> QED
        BY <1>2, <3>4, <4>1, WholeInOrder
    <3> QED
      BY <1>6, <3>5, <3>6
  <2>12. CASE d # 0
    <3>1. b = Body(Listing[d]) /\ Len(handled) = d - 1 /\ d \in 1..Len(Listing) /\ Len(handled) + 1 = d
      BY <1>4, <1>8, <2>1, <2>2, <2>12 DEF Piece, Served
    <3>2. PICK m \in 0..4 : UpToBackslash(p) = SubSeq(b, 1, m) /\ (Len(p) >= 4 => m = 4)
      BY <2>3, <2>7, <3>1, ServerTailCut
    <3>3. handleIPString(SubSeq(b, 1, m))
      BY <2>10, <3>2
    <3>4. Len(handled) < Len(Listing) /\ b = Body(Listing[Len(handled) + 1])
      BY <1>4, <3>1
    <3>5. /\ [Delivery!DeliveryNext]_(Delivery!deliveryVars)
          /\ m = 4 => InOrder' /\ Len(handled') = Len(handled) + 1
      BY <1>2, <1>5, <3>3, <3>4, ServerTail
    <3>6. ASSUME validated /\ ~lost
          PROVE  handled' = Listing
      <4>1. d = Len(Listing) /\ Len(p) >= Len(b)
        BY <2>9, <3>6
      <4>2. Len(b) = 4
        BY <3>1, BodyFacts
      <4>3. m = 4
        BY <3>2, <4>1, <4>2
      <4>4. PICK hs : hs = handled'
        OBVIOUS
      <4>5. IsSequence(hs) /\ Len(hs) = Len(Listing) /\ \A i \in 1..Len(hs) : hs[i] = Listing[i]
        BY <3>1, <3>5, <4>1, <4>3, <4>4 DEF InOrder
      <4>6. hs = Listing
        BY <4>5, ListingFacts, SequencesEqual
      <4> QED
        BY <4>4, <4>6
    <3> QED
      BY <1>6, <3>5, <3>6
  <2> QED
    BY <2>11, <2>12
<1> QED
  BY <1>3, <1>7, <1>8 DEF TextKept

(* A panic at an entry of the text: it is the next server of the list.     *)
LEMMA EntryPanicsAtNext ==
  ASSUME TextOn, EntryPanics
  PROVE  ReaderMayPanic
<1>1. /\ pc \in {"split", "tail"}
      /\ \/ pc = "split" /\ Len(splitData) > 1 /\ IsIPv6Entry(Head(splitData))
         \/ pc = "tail" /\ Len(ipStringAccum) >= 4 /\ IsIPv6Entry(TailPiece)
  BY DEF EntryPanics
<1>2. InOrder /\ NoCompressedList /\ session \in Sessions /\ session.kind = "goa"
  BY <1>1 DEF TextOn, TextInv
<1>3. PICK k : k = Len(handled)
  OBVIOUS
<1>4. k \in Nat /\ Len(Listing) \in Nat
  BY <1>2, <1>3, ListingFacts, LenProperties DEF InOrder, IsSequence
<1>5. SUFFICES k < Len(Listing) /\ Listing[k + 1].host \in IPv6Hosts
  BY <1>2, <1>3 DEF ReaderMayPanic
<1>6. CASE pc = "split"
  <2>1. Len(splitData) > 1 /\ IsAddrPort(Head(splitData)) /\ Head(splitData)[1] \in IPv6Hosts
    BY <1>1, <1>6 DEF IsIPv6Entry
  <2>2. PICK G \in Leftovers : TextPass(G)
    BY <1>6 DEF TextOn, TextInv
  <2>3. PICK ps, l : ps = splitData /\ l = Len(splitData)
    OBVIOUS
  <2>4. IsSequence(ps) /\ l = Len(ps) /\ l \in Nat /\ l > 1
    BY <2>1, <2>2, <2>3, LenProperties DEF TextPass, IsSequence
  <2>5. PICK d \in 0..Len(Listing), z \in 0..l - 1 :
          /\ k + (l - 1 - z) = Served(d)
          /\ \A i \in 1..z : ~IsAddrPort(ps[i])
          /\ \A i \in z + 1..l - 1 : ps[i] = Body(Listing[k + i - z])
    BY <1>3, <2>2, <2>3 DEF TextPass
  <2>6. Head(ps) = ps[1]
    BY <2>4, TailSequence
  <2>7. z = 0
    <3>1. SUFFICES ASSUME z > 0 PROVE FALSE
      BY <2>4
    <3>2. 1 \in 1..z
      BY <3>1
    <3> QED
      BY <2>1, <2>3, <2>5, <2>6, <3>2
  <2>8. 1 \in z + 1..l - 1 /\ k + 1 - z = k + 1
    BY <1>4, <2>4, <2>7
  <2>9. ps[1] = Body(Listing[k + 1])
    BY <2>5, <2>8
  <2>10. k < Len(Listing) /\ k + 1 \in 1..Len(Listing)
    <3>1. k + (l - 1) = IF d = 0 THEN 0 ELSE d - 1
      BY <2>4, <2>5, <2>7 DEF Served
    <3> QED
      BY <1>4, <2>4, <3>1
  <2>11. PICK b, i : b = ps[1] /\ i = k + 1
    OBVIOUS
  <2>12. b[1] = Listing[i].host
    BY <2>9, <2>10, <2>11, BodyFacts
  <2> QED
    BY <2>1, <2>3, <2>6, <2>10, <2>11, <2>12
<1>7. CASE pc = "tail"
  <2>1. /\ Len(ipStringAccum) >= 4 /\ IsAddrPort(TailPiece) /\ TailPiece[1] \in IPv6Hosts
    BY <1>1, <1>7 DEF IsIPv6Entry
  <2>2. PICK G \in Leftovers : TextKept(G)
    BY <1>7 DEF TextOn, TextInv
  <2>3. IsSequence(G)
    BY <1>2, LeftoverFacts
  <2>4. ~(ipStringAccum = <<>>)
    BY <2>1, EmptySequence
  <2>5. PICK d, p : /\ d \in 0..Len(Listing)
                    /\ ipStringAccum = IpMark \o p /\ Len(handled) = Served(d) /\ Kept(p, G, d)
    BY <2>2, <2>4 DEF TextKept
  <2>6. PICK R, b : R = Rest(G, d + 1) /\ b = Piece(G, d)
    OBVIOUS
  <2>7. IsSequence(p) /\ IsSequence(stream) /\ StartOf(p \o stream, b \o R)
    BY <2>5, <2>6 DEF Kept, Awaits
  <2>8. d + 1 \in 0..Len(Listing) + 1 /\ d \in Nat
    BY <1>4, <2>5
  <2>9. IsSequence(R) /\ Len(R) >= 3 /\ R[1] = Backslash
    BY <2>3, <2>6, <2>8, RestStart
  <2>10. StartOf(p, b \o R)
    <3>1. PICK w : w = b \o R
      OBVIOUS
    <3>2. StartOf(p \o stream, w)
      BY <2>7, <3>1
    <3>3. StartOf(p, w)
      BY <2>7, <3>2, StartPart
    <3> QED
      BY <3>1, <3>3
  <2>11. TailPiece = UpToBackslash(p)
    BY <2>5, <2>7, KeptPiece
  <2>12. d # 0
    <3>1. SUFFICES ASSUME d = 0 PROVE FALSE
      OBVIOUS
    <3>2. StartOf(p, G \o R)
      BY <2>6, <2>10, <3>1 DEF Piece
    <3>3. ~IsAddrPort(UpToBackslash(p))
      BY <1>2, <2>9, <3>2, NoAddressInGreeting
    <3> QED
      BY <2>1, <2>11, <3>3
  <2>13. b = Body(Listing[d]) /\ k = d - 1 /\ d \in 1..Len(Listing)
    BY <1>3, <1>4, <2>5, <2>6, <2>8, <2>12 DEF Piece, Served
  <2>14. PICK m \in 0..4 : UpToBackslash(p) = SubSeq(b, 1, m)
    BY <2>9, <2>10, <2>13, ServerTailCut
  <2>15. IsSequence(b) /\ Len(b) = 4 /\ b[1] = Listing[d].host
    BY <2>13, BodyFacts
  <2>16. PICK u : u = SubSeq(b, 1, m)
    OBVIOUS
  <2>17. Len(u) = m /\ \A i \in 1..m : u[i] = b[i]
    <3>1. m \in 0..Len(b)
      BY <2>15
    <3> QED
      BY <2>15, <2>16, <3>1, BeginningFacts
  <2>18. TailPiece = u
    BY <2>11, <2>14, <2>16
  <2>19. m >= 3
    BY <2>1, <2>17, <2>18 DEF IsAddrPort
  <2>20. 1 \in 1..m
    BY <2>19
  <2>21. Listing[d].host \in IPv6Hosts
    BY <2>1, <2>15, <2>17, <2>18, <2>20
  <2>22. k < Len(Listing) /\ k + 1 = d
    BY <1>4, <2>8, <2>13
  <2> QED
    BY <2>21, <2>22
<1> QED
  BY <1>1, <1>6, <1>7

LEMMA TextPanics ==
  ASSUME TextOn, EntryPanics \/ \E n : ChallengePanics(n)
  PROVE  TextInv' /\ [Delivery!DeliveryNext]_(Delivery!deliveryVars)
<1>1. /\ pc \in {"auth", "split", "tail"} /\ pc' = "panic" /\ handled' = handled
      /\ session' = session
  BY DEF EntryPanics, ChallengePanics
<1>2. InOrder
  <2>1. CASE pc = "auth"
    BY <2>1, NothingInOrder DEF TextOn, TextInv
  <2>2. CASE pc # "auth"
    BY <1>1, <2>2 DEF TextOn, TextInv
  <2> QED
    BY <2>1, <2>2
<1>3. InOrder' /\ [Delivery!DeliveryNext]_(Delivery!deliveryVars)
  <2>1. ~over
    BY <1>1 DEF over
  <2> QED
    BY <1>1, <1>2, <2>1, NothingHandled
<1> QED
  BY <1>1, <1>3 DEF TextInv

(* However the text is cut into Reads, and the greeting with it, it is      *)
(* delivered.                                                               *)
LEMMA TextDelivers ==
  ASSUME TextInv, session.kind = "goa", session \in Sessions, NoCompressedList,
         (MasterCloses /\ UNCHANGED readerVars) \/ ReaderNext \/ UNCHANGED vars
  PROVE  TextInv' /\ [Delivery!DeliveryNext]_(Delivery!deliveryVars)
<1>1. TextOn
  BY DEF TextOn
<1>2. CASE MasterCloses /\ UNCHANGED readerVars
  <2>1. UNCHANGED <<ipStringAccum, splitData>>
    BY <1>2 DEF readerVars, textVars
  <2> QED
    BY <1>1, <1>2, <2>1, TextCloses
<1>3. CASE UNCHANGED vars
  <2>1. UNCHANGED <<session, pc, stream, closed, handled, ipStringAccum, splitData, histories>>
    BY <1>3 DEF vars, sessionVars, networkVars, readerVars, textVars
  <2> QED
    BY <1>1, <2>1, TextStays
<1>4. CASE CloseConnection /\ UNCHANGED readerVars
  <2>1. UNCHANGED <<session, pc, stream, closed, handled, ipStringAccum, splitData, histories>>
    BY <1>4 DEF CloseConnection, readerVars, textVars
  <2> QED
    BY <1>1, <2>1, TextStays
<1>5. CASE \E n \in 1..(Len(Greeting) + Len(ListText)) :
             Authenticate(n) \/ ChallengePanics(n) \/ ReadText(n) \/ ReadRecord(n)
  <2>1. PICK n : Authenticate(n) \/ ChallengePanics(n) \/ ReadText(n) \/ ReadRecord(n)
    BY <1>5
  <2>2. ~ReadRecord(n)
    BY DEF ReadRecord
  <2> QED
    BY <1>1, <2>1, <2>2, TextAuthenticate, TextPanics, TextRead
<1>6. CASE Handles
  BY <1>1, <1>6, PieceHandled, TextPanics, PieceKept, TailHandled DEF Handles
<1>7. CASE TextEnds
  BY <1>1, <1>7, TextOver
<1>8. ~RecordsEnd
  BY DEF RecordsEnd
<1>9. CASE Fails
  BY <1>1, <1>9, TextFails DEF Fails
<1> QED
  BY <1>2, <1>3, <1>4, <1>5, <1>6, <1>7, <1>8, <1>9 DEF ReaderNext
=============================================================================
