----------------------------- MODULE ListLemmas -----------------------------
(***************************************************************************)
(* Facts about the container/list operations the status monitor is built   *)
(* from: finding the first element, removing an element, pushing one to    *)
(* the front; about FlattenSeq, which puts the messages of a list on the   *)
(* stream of a session one after the other; and about sequences of any     *)
(* symbols, that are put together, cut and compared.                       *)
(***************************************************************************)
EXTENDS Naturals, SequencesExt, SequenceTheorems, WellFoundedInduction, TLAPS

(* A non-empty set of natural numbers has a least element: the search of   *)
(* BeginQuery and CompleteQuery ends at a first match.                     *)
LEMMA LeastElement ==
  ASSUME NEW T \in SUBSET Nat, T # {}
  PROVE  Min(T) \in T /\ \A y \in T : Min(T) <= y
<1> DEFINE R == {ss \in Nat \X Nat : ss[1] < ss[2]}
<1>1. IsWellFoundedOn(R, Nat)
  BY NatLessThanWellFounded DEF OpToRel
<1>2. PICK x \in T : \A y \in T : ~(<<y, x>> \in R)
  BY <1>1, WFMin
<1>3. ASSUME NEW y \in T
      PROVE  x <= y
  <2>1. x \in Nat /\ y \in Nat
    OBVIOUS
  <2>2. SUFFICES ASSUME y < x PROVE FALSE
    BY <2>1
  <2>3. <<y, x>> \in R
    BY <2>1, <2>2
  <2> QED
    BY <2>3, <1>2
<1> QED
  BY <1>3 DEF Min

(* RemoveAt takes out the element at position i and moves the later ones   *)
(* one place forward (container/list Remove).                              *)
LEMMA RemoveAtProperties ==
  ASSUME NEW S, NEW s \in Seq(S), NEW i \in 1..Len(s)
  PROVE  /\ RemoveAt(s, i) \in Seq(S)
         /\ Len(RemoveAt(s, i)) = Len(s) - 1
         /\ \A j \in 1..Len(s) - 1 :
              RemoveAt(s, i)[j] = IF j < i THEN s[j] ELSE s[j + 1]
<1> DEFINE front == SubSeq(s, 1, i - 1)
           back  == SubSeq(s, i + 1, Len(s))
<1>1. /\ Len(s) \in Nat
      /\ \A j \in 1..Len(s) : s[j] \in S
  BY LenProperties, ElementOfSeq
<1>2. /\ front \in Seq(S)
      /\ Len(front) = i - 1
      /\ \A j \in 1..i - 1 : front[j] = s[j]
  <2>1. 1 \in Int /\ i - 1 \in Int /\ \A j \in 1..i - 1 : s[j] \in S
    BY <1>1
  <2> QED
    BY <2>1, <1>1, SubSeqProperties
<1>3. /\ back \in Seq(S)
      /\ Len(back) = Len(s) - i
      /\ \A j \in 1..Len(s) - i : back[j] = s[i + j]
  <2>1. i + 1 \in Int /\ Len(s) \in Int /\ \A j \in i + 1..Len(s) : s[j] \in S
    BY <1>1
  <2> QED
    BY <2>1, <1>1, SubSeqProperties
<1>4. /\ front \o back \in Seq(S)
      /\ Len(front \o back) = Len(front) + Len(back)
      /\ \A j \in 1..Len(front) + Len(back) :
           (front \o back)[j] = IF j <= Len(front) THEN front[j]
                                                   ELSE back[j - Len(front)]
  BY <1>2, <1>3, ConcatProperties
<1>5. RemoveAt(s, i) = front \o back
  BY DEF RemoveAt
<1> HIDE DEF front, back
<1>6. ASSUME NEW j \in 1..Len(s) - 1
      PROVE  (front \o back)[j] = IF j < i THEN s[j] ELSE s[j + 1]
  <2>1. CASE j < i
    BY <2>1, <1>1, <1>2, <1>3, <1>4
  <2>2. CASE ~(j < i)
    <3>1. /\ j \in 1..Len(front) + Len(back)
          /\ ~(j <= Len(front))
          /\ j - Len(front) \in 1..Len(s) - i
          /\ i + (j - Len(front)) = j + 1
      BY <2>2, <1>1, <1>2, <1>3
    <3>2. (front \o back)[j] = back[j - Len(front)]
      BY <3>1, <1>4
    <3>3. back[j - Len(front)] = s[i + (j - Len(front))]
      BY <3>1, <1>3
    <3> QED
      BY <3>1, <3>2, <3>3, <2>2
  <2> QED
    BY <2>1, <2>2
<1>7. Len(front \o back) = Len(s) - 1
  BY <1>1, <1>2, <1>3, <1>4
<1> QED
  BY <1>4, <1>5, <1>6, <1>7

(* Removing the first occurrence of an element leaves a list of elements   *)
(* of the same set (EndServerListEngine).                                  *)
LEMMA RemoveFirstType ==
  ASSUME NEW S, NEW s \in Seq(S), NEW e
  PROVE  RemoveFirst(s, e) \in Seq(S)
<1> DEFINE I == {i \in 1..Len(s) : s[i] = e}
<1>1. CASE \E i \in 1..Len(s) : s[i] = e
  <2>1. I \in SUBSET Nat /\ I # {}
    BY <1>1
  <2>2. Min(I) \in 1..Len(s)
    BY <2>1, LeastElement
  <2>3. RemoveFirst(s, e) = RemoveAt(s, Min(I))
    BY <1>1, <2>1 DEF RemoveFirst, SelectInSeq
  <2> QED
    BY <2>2, <2>3, RemoveAtProperties
<1>2. CASE ~\E i \in 1..Len(s) : s[i] = e
  BY <1>2 DEF RemoveFirst
<1> QED
  BY <1>1, <1>2

(* Pushing an element to the front moves every other one place back        *)
(* (container/list PushFront).                                             *)
LEMMA PushFrontProperties ==
  ASSUME NEW S, NEW s \in Seq(S), NEW e \in S
  PROVE  /\ <<e>> \o s \in Seq(S)
         /\ Len(<<e>> \o s) = Len(s) + 1
         /\ \A j \in 1..Len(s) + 1 :
              (<<e>> \o s)[j] = IF j = 1 THEN e ELSE s[j - 1]
<1>1. <<e>> \in Seq(S) /\ Len(<<e>>) = 1 /\ <<e>>[1] = e
  OBVIOUS
<1>2. Len(s) \in Nat
  BY LenProperties
<1> QED
  BY <1>1, <1>2, ConcatProperties

(* Removing the first occurrence of e takes nothing else out of the list.  *)
LEMMA RemoveFirstElements ==
  ASSUME NEW S, NEW s \in Seq(S), NEW e
  PROVE  /\ \A j \in 1..Len(RemoveFirst(s, e)) :
              \E i \in 1..Len(s) : RemoveFirst(s, e)[j] = s[i]
         /\ \A i \in 1..Len(s) : s[i] # e =>
              \E j \in 1..Len(RemoveFirst(s, e)) : RemoveFirst(s, e)[j] = s[i]
<1> DEFINE I == {i \in 1..Len(s) : s[i] = e}
<1>1. CASE \E i \in 1..Len(s) : s[i] = e
  <2>1. I \in SUBSET Nat /\ I # {} /\ Len(s) \in Nat
    BY <1>1, LenProperties
  <2>2. PICK m \in 1..Len(s) : m = Min(I) /\ s[m] = e
    BY <2>1, LeastElement
  <2>3. RemoveFirst(s, e) = RemoveAt(s, m)
    BY <1>1, <2>1, <2>2 DEF RemoveFirst, SelectInSeq
  <2> DEFINE r == RemoveAt(s, m)
  <2>4. /\ Len(r) = Len(s) - 1
        /\ \A j \in 1..Len(s) - 1 : r[j] = IF j < m THEN s[j] ELSE s[j + 1]
    BY RemoveAtProperties
  <2> HIDE DEF r
  <2>5. ASSUME NEW j \in 1..Len(r)
        PROVE  \E i \in 1..Len(s) : r[j] = s[i]
    <3>1. j \in 1..Len(s) /\ j + 1 \in 1..Len(s)
      BY <2>1, <2>4
    <3> QED
      BY <2>4, <3>1
  <2>6. ASSUME NEW i \in 1..Len(s), s[i] # e
        PROVE  \E j \in 1..Len(r) : r[j] = s[i]
    <3>1. CASE i < m
      <4>1. i \in 1..Len(r) /\ r[i] = s[i]
        BY <2>1, <2>4, <3>1
      <4> QED
        BY <4>1
    <3>2. CASE ~(i < m)
      <4>1. /\ i - 1 \in 1..Len(r) /\ ~(i - 1 < m) /\ (i - 1) + 1 = i
        BY <2>1, <2>2, <2>4, <2>6, <3>2
      <4>2. r[i - 1] = s[(i - 1) + 1]
        BY <2>4, <4>1
      <4> QED
        BY <4>1, <4>2
    <3> QED
      BY <3>1, <3>2
  <2> QED
    BY <2>3, <2>5, <2>6 DEF r
<1>2. CASE ~\E i \in 1..Len(s) : s[i] = e
  BY <1>2 DEF RemoveFirst
<1> QED
  BY <1>1, <1>2

-----------------------------------------------------------------------------
(* Sequences put together from pieces, as the messages of a list are. *)

(* Induction over the numbers up to a bound, for a set of them. *)
LEMMA InductionTo ==
  ASSUME NEW n \in Nat, NEW T, 1 \in T \/ n = 0,
         \A i \in 1..n - 1 : i \in T => i + 1 \in T
  PROVE  \A i \in 1..n : i \in T
<1> DEFINE Bad == {i \in 1..n : i \notin T}
<1>1. SUFFICES ASSUME Bad # {} PROVE FALSE
  OBVIOUS
<1>2. Bad \in SUBSET Nat
  OBVIOUS
<1>3. PICK m \in Bad : \A i \in Bad : m <= i
  BY <1>1, <1>2, LeastElement
<1>4. m \in 1..n /\ m \notin T
  OBVIOUS
<1>5. m # 1
  BY <1>4
<1>6. m - 1 \in 1..n - 1 /\ m - 1 \in 1..n /\ (m - 1) + 1 = m /\ ~(m <= m - 1)
  BY <1>4, <1>5
<1>7. m - 1 \in T
  BY <1>3, <1>6
<1> QED
  BY <1>4, <1>6, <1>7

(* What FlattenSeq has put together after each piece. *)
Flattened(s, g) ==
  /\ DOMAIN g = 1..Len(s)
  /\ g = [i \in 1..Len(s) |-> IF i = 1 THEN s[i] ELSE g[i - 1] \o s[i]]

LEMMA FlattenedExists ==
  ASSUME NEW S, NEW s \in Seq(Seq(S))
  PROVE  \E g \in [1..Len(s) -> Seq(S)] : Flattened(s, g)
<1> DEFINE n == Len(s)
           Upto(m, g) == \A i \in 1..m : g[i] = IF i = 1 THEN s[i] ELSE g[i - 1] \o s[i]
           T == {m \in 1..n : \E g \in [1..n -> Seq(S)] : Upto(m, g)}
<1>1. n \in Nat /\ \A i \in 1..n : s[i] \in Seq(S)
  BY LenProperties
<1>2. CASE n = 0
  <2>1. <<>> \in [1..n -> Seq(S)] /\ Flattened(s, <<>>)
    BY <1>2 DEF Flattened
  <2> QED
    BY <2>1
<1>3. CASE n # 0
  <2>1. 1 \in T
    <3> DEFINE g == [i \in 1..n |-> s[i]]
    <3>1. g \in [1..n -> Seq(S)] /\ Upto(1, g)
      BY <1>1, <1>3
    <3> QED
      BY <1>1, <1>3, <3>1
  <2>2. ASSUME NEW m \in 1..n - 1, m \in T
        PROVE  m + 1 \in T
    <3>1. PICK g \in [1..n -> Seq(S)] : Upto(m, g)
      BY <2>2
    <3> DEFINE x == g[m] \o s[m + 1]
               h == [g EXCEPT ![m + 1] = x]
    <3>2. m \in 1..n /\ m + 1 \in 1..n /\ m + 1 # 1
      BY <1>1
    <3>3. x \in Seq(S)
      <4>1. g[m] \in Seq(S) /\ s[m + 1] \in Seq(S)
        BY <1>1, <3>2
      <4> QED
        BY <4>1, ConcatProperties
    <3> HIDE DEF x
    <3>4. h \in [1..n -> Seq(S)] /\ h[m + 1] = x /\ \A i \in 1..m : h[i] = g[i]
      BY <1>1, <3>2, <3>3
    <3> HIDE DEF h
    <3>5. ASSUME NEW i \in 1..m + 1
          PROVE  h[i] = IF i = 1 THEN s[i] ELSE h[i - 1] \o s[i]
      <4>1. CASE i = m + 1
        <5>1. i - 1 = m /\ m \in 1..m /\ i # 1
          BY <4>1
        <5> QED
          BY <3>4, <4>1, <5>1 DEF x
      <4>2. CASE i # m + 1
        <5>1. i \in 1..m /\ (i # 1 => i - 1 \in 1..m)
          BY <4>2
        <5> QED
          BY <3>1, <3>4, <5>1
      <4> QED
        BY <4>1, <4>2
    <3> QED
      BY <3>2, <3>4, <3>5
  <2>3. n \in T
    <3> HIDE DEF T
    <3>1. \A i \in 1..n : i \in T
      BY <1>1, <2>1, <2>2, InductionTo
    <3> QED
      BY <1>1, <1>3, <3>1
  <2>4. PICK g \in [1..n -> Seq(S)] : Upto(n, g)
    BY <2>3
  <2>5. g = [i \in 1..n |-> IF i = 1 THEN s[i] ELSE g[i - 1] \o s[i]]
    BY <2>4
  <2> QED
    BY <2>4, <2>5 DEF Flattened
<1> QED
  BY <1>2, <1>3

LEMMA FlattenedType ==
  ASSUME NEW S, NEW s \in Seq(Seq(S)), NEW g, Flattened(s, g)
  PROVE  g \in [1..Len(s) -> Seq(S)]
<1> DEFINE n == Len(s)
           T == {i \in 1..n : g[i] \in Seq(S)}
<1>1. n \in Nat /\ \A i \in 1..n : s[i] \in Seq(S)
  BY LenProperties
<1>2. \A i \in 1..n : g[i] = IF i = 1 THEN s[i] ELSE g[i - 1] \o s[i]
  BY DEF Flattened
<1>3. 1 \in T \/ n = 0
  <2>1. CASE n # 0
    <3>1. 1 \in 1..n
      BY <1>1, <2>1
    <3>2. g[1] = s[1]
      BY <1>2, <3>1
    <3> QED
      BY <1>1, <3>1, <3>2
  <2> QED
    BY <2>1
<1>4. ASSUME NEW i \in 1..n - 1, i \in T
      PROVE  i + 1 \in T
  <2>1. i + 1 \in 1..n /\ i + 1 # 1 /\ (i + 1) - 1 = i
    BY <1>1
  <2>2. g[i + 1] = g[i] \o s[i + 1]
    BY <1>2, <2>1
  <2>3. g[i] \in Seq(S) /\ s[i + 1] \in Seq(S)
    BY <1>1, <1>4, <2>1
  <2>4. g[i] \o s[i + 1] \in Seq(S)
    BY <2>3, ConcatProperties
  <2> QED
    BY <2>1, <2>2, <2>4
<1>5. \A i \in 1..n : i \in T
  <2> HIDE DEF T
  <2> QED
    BY <1>1, <1>3, <1>4, InductionTo
<1>6. g = [i \in 1..n |-> g[i]]
  BY DEF Flattened
<1> QED
  BY <1>5, <1>6

LEMMA FlattenSeqValue ==
  ASSUME NEW S, NEW s \in Seq(Seq(S)), s # <<>>
  PROVE  \E g : Flattened(s, g) /\ FlattenSeq(s) = g[Len(s)]
<1> DEFINE Def(g) == g = [i \in 1..Len(s) |-> IF i = 1 THEN s[i] ELSE g[i - 1] \o s[i]]
           f == CHOOSE g : Def(g)
<1>1. Len(s) # 0
  BY EmptySeq
<1>2. FlattenSeq(s) = f[Len(s)]
  BY <1>1 DEF FlattenSeq
<1>3. PICK g : Def(g)
  <2>1. PICK g \in [1..Len(s) -> Seq(S)] : Flattened(s, g)
    BY FlattenedExists
  <2>2. Def(g)
    BY <2>1 DEF Flattened
  <2> QED
    BY <2>2
<1>4. Def(f)
  <2> HIDE DEF Def
  <2> QED
    BY <1>3, Zenon
<1>5. Flattened(s, f)
  <2>1. DOMAIN f = 1..Len(s)
    BY <1>4
  <2> QED
    BY <1>4, <2>1 DEF Flattened
<1> QED
  BY <1>2, <1>5

(* FlattenSeq yields a sequence over the same elements. *)
LEMMA FlattenSeqType ==
  ASSUME NEW S, NEW s \in Seq(Seq(S))
  PROVE  FlattenSeq(s) \in Seq(S)
<1>1. CASE s = <<>>
  BY <1>1, EmptySeq DEF FlattenSeq
<1>2. CASE s # <<>>
  <2>1. PICK g : Flattened(s, g) /\ FlattenSeq(s) = g[Len(s)]
    BY <1>2, FlattenSeqValue
  <2>2. Len(s) \in 1..Len(s)
    BY <1>2, EmptySeq
  <2> QED
    BY <2>1, <2>2, FlattenedType
<1> QED
  BY <1>1, <1>2

(* The first piece comes first, the others as without it. *)
LEMMA FlattenSeqCons ==
  ASSUME NEW S, NEW s \in Seq(Seq(S)), s # <<>>
  PROVE  FlattenSeq(s) = Head(s) \o FlattenSeq(Tail(s))
<1>0. \A a, b, c \in Seq(S) : (a \o b) \o c = a \o (b \o c)
  <2> TAKE a, b, c \in Seq(S)
  <2> QED
    BY ConcatAssociative
<1> DEFINE t == Tail(s)
           n == Len(t)
<1>1. /\ t \in Seq(Seq(S))
      /\ n \in Nat /\ Len(s) = n + 1
      /\ \A i \in 1..n : t[i] = s[i + 1]
      /\ Head(s) = s[1]
      /\ s[1] \in Seq(S)
      /\ \A i \in 1..n : t[i] \in Seq(S)
  BY HeadTailProperties, LenProperties
<1> HIDE DEF t
<1>2. PICK g : Flattened(s, g) /\ FlattenSeq(s) = g[Len(s)]
  BY FlattenSeqValue
<1>3. \A i \in 1..n + 1 : g[i] = IF i = 1 THEN s[i] ELSE g[i - 1] \o s[i]
  BY <1>1, <1>2 DEF Flattened
<1>4. CASE n = 0
  <2>1. t = <<>>
    BY <1>1, <1>4, EmptySeq
  <2>2. FlattenSeq(t) = <<>>
    BY <2>1 DEF FlattenSeq
  <2>3. FlattenSeq(s) = s[1]
    BY <1>1, <1>2, <1>3, <1>4
  <2> QED
    BY <1>1, <2>2, <2>3, ConcatEmptySeq DEF t
<1>5. CASE n # 0
  <2>1. t # <<>>
    BY <1>5
  <2>2. PICK h : Flattened(t, h) /\ FlattenSeq(t) = h[n]
    BY <1>1, <2>1, FlattenSeqValue
  <2>3. h \in [1..n -> Seq(S)]
    BY <1>1, <2>2, FlattenedType
  <2>4. \A i \in 1..n : h[i] = IF i = 1 THEN t[i] ELSE h[i - 1] \o t[i]
    BY <2>2 DEF Flattened
  <2> DEFINE T == {i \in 1..n : g[i + 1] = s[1] \o h[i]}
  <2>5. 1 \in T
    <3>1. 1 \in 1..n + 1 /\ 1 + 1 \in 1..n + 1 /\ 1 \in 1..n /\ (1 + 1) - 1 = 1 /\ 1 + 1 # 1
      BY <1>1, <1>5
    <3>2. h[1] = s[1 + 1]
      BY <1>1, <2>4, <3>1
    <3>3. g[1] = s[1]
      BY <1>3, <3>1
    <3>4. g[1 + 1] = g[1] \o s[1 + 1]
      BY <1>3, <3>1
    <3> QED
      BY <3>1, <3>2, <3>3, <3>4
  <2>6. ASSUME NEW i \in 1..n - 1, i \in T
        PROVE  i + 1 \in T
    <3>1. /\ i \in 1..n /\ i + 1 \in 1..n /\ i + 1 # 1 /\ (i + 1) - 1 = i
          /\ (i + 1) + 1 \in 1..n + 1 /\ (i + 1) + 1 # 1 /\ ((i + 1) + 1) - 1 = i + 1
      BY <1>1
    <3>2. g[(i + 1) + 1] = g[i + 1] \o s[(i + 1) + 1]
      BY <1>3, <3>1
    <3>3. h[i + 1] = h[i] \o t[i + 1] /\ t[i + 1] = s[(i + 1) + 1]
      BY <1>1, <2>4, <3>1
    <3>4. (s[1] \o h[i]) \o t[i + 1] = s[1] \o (h[i] \o t[i + 1])
      <4>1. s[1] \in Seq(S) /\ h[i] \in Seq(S) /\ t[i + 1] \in Seq(S)
        BY <1>1, <2>3, <3>1
      <4> DEFINE x == s[1]
                 y == h[i]
                 z == t[i + 1]
      <4>2. x \in Seq(S) /\ y \in Seq(S) /\ z \in Seq(S)
        BY <4>1
      <4> HIDE DEF x, y, z
      <4>3. (x \o y) \o z = x \o (y \o z)
        BY <1>0, <4>2, Zenon
      <4> QED
        BY <4>3 DEF x, y, z
    <3> QED
      BY <2>6, <3>1, <3>2, <3>3, <3>4
  <2>7. n \in T
    <3> HIDE DEF T
    <3>1. \A i \in 1..n : i \in T
      BY <1>1, <2>5, <2>6, InductionTo
    <3> QED
      BY <1>1, <1>5, <3>1
  <2> QED
    BY <1>1, <1>2, <2>2, <2>7 DEF t
<1> QED
  BY <1>1, <1>4, <1>5

-----------------------------------------------------------------------------
(* Sequences, whatever their elements are: a symbol, a byte, a message.    *)

IsSequence(s) == s \in Seq(ToSet(s))

LEMMA SequenceOf ==
  ASSUME NEW S, NEW s \in Seq(S)
  PROVE  IsSequence(s)
<1>1. s \in [1..Len(s) -> S] /\ Len(s) \in Nat /\ DOMAIN s = 1..Len(s)
  BY LenProperties
<1>2. s = [i \in 1..Len(s) |-> s[i]]
  BY <1>1
<1>3. \A i \in 1..Len(s) : s[i] \in ToSet(s)
  BY <1>1 DEF ToSet
<1> QED
  BY <1>1, <1>2, <1>3 DEF IsSequence

LEMMA ConcatSequences ==
  ASSUME NEW s, NEW t, IsSequence(s), IsSequence(t)
  PROVE  /\ IsSequence(s \o t)
         /\ Len(s) \in Nat /\ Len(t) \in Nat
         /\ Len(s \o t) = Len(s) + Len(t)
         /\ \A i \in 1..Len(s) + Len(t) :
              (s \o t)[i] = IF i <= Len(s) THEN s[i] ELSE t[i - Len(s)]
<1> DEFINE S == ToSet(s) \cup ToSet(t)
<1>1. s \in Seq(ToSet(s)) /\ t \in Seq(ToSet(t))
  BY DEF IsSequence
<1>2. s \in Seq(S) /\ t \in Seq(S)
  <2>1. ToSet(s) \subseteq S /\ ToSet(t) \subseteq S
    OBVIOUS
  <2> HIDE DEF S
  <2> QED
    BY <1>1, <2>1, SeqMonotonic
<1> HIDE DEF S
<1>3. /\ s \o t \in Seq(S) /\ Len(s \o t) = Len(s) + Len(t)
      /\ \A i \in 1..Len(s) + Len(t) :
           (s \o t)[i] = IF i <= Len(s) THEN s[i] ELSE t[i - Len(s)]
  BY <1>2, ConcatProperties
<1>4. Len(s) \in Nat /\ Len(t) \in Nat
  BY <1>2, LenProperties
<1> QED
  BY <1>3, <1>4, SequenceOf

LEMMA AppendSequence ==
  ASSUME NEW s, NEW e, IsSequence(s)
  PROVE  IsSequence(Append(s, e)) /\ Len(Append(s, e)) = Len(s) + 1
<1> DEFINE S == ToSet(s) \cup {e}
<1>1. s \in Seq(S) /\ e \in S
  <2>1. s \in Seq(ToSet(s)) /\ ToSet(s) \subseteq S
    BY DEF IsSequence
  <2> QED
    BY <2>1, SeqMonotonic
<1> HIDE DEF S
<1>2. Append(s, e) \in Seq(S) /\ Len(Append(s, e)) = Len(s) + 1
  BY <1>1, AppendProperties
<1> QED
  BY <1>2, SequenceOf

(* One Read returns as many symbols as it says. *)
LEMMA ChunkSequence ==
  ASSUME NEW s, NEW n \in Nat
  PROVE  IsSequence(SubSeq(s, 1, n)) /\ Len(SubSeq(s, 1, n)) = n
<1> DEFINE S == {s[i] : i \in 1..n}
<1>1. \A i \in 1..n : s[i] \in S
  OBVIOUS
<1> HIDE DEF S
<1>2. SubSeq(s, 1, n) \in Seq(S)
  BY <1>1, SubSeqProperties
<1> DEFINE c == SubSeq(s, 1, n)
<1>3. Len(c) = IF 1 <= n THEN n - 1 + 1 ELSE 0
  BY <1>1, SubSeqProperties
<1>4. c \in Seq(S)
  BY <1>2
<1> HIDE DEF c
<1>5. Len(c) = n
  BY <1>3
<1>6. IsSequence(c)
  BY <1>4, SequenceOf
<1> QED
  BY <1>5, <1>6 DEF c

(* Two sequences with the same elements are the same. *)
LEMMA SequencesEqual ==
  ASSUME NEW s, NEW t, IsSequence(s), IsSequence(t), Len(s) = Len(t),
         \A i \in 1..Len(s) : s[i] = t[i]
  PROVE  s = t
<1> DEFINE S == ToSet(s) \cup ToSet(t)
<1>1. s \in Seq(S) /\ t \in Seq(S)
  <2>1. ToSet(s) \subseteq S /\ ToSet(t) \subseteq S /\ s \in Seq(ToSet(s)) /\ t \in Seq(ToSet(t))
    BY DEF IsSequence
  <2> HIDE DEF S
  <2> QED
    BY <2>1, SeqMonotonic
<1> HIDE DEF S
<1> QED
  BY <1>1, SeqEqual

(* What is left after a Read. *)
LEMMA RemainingSequence ==
  ASSUME NEW s, IsSequence(s), NEW n \in 0..Len(s)
  PROVE  /\ IsSequence(SubSeq(s, n + 1, Len(s)))
         /\ Len(SubSeq(s, n + 1, Len(s))) = Len(s) - n
         /\ \A i \in 1..Len(s) - n : SubSeq(s, n + 1, Len(s))[i] = s[n + i]
<1> DEFINE S == ToSet(s)
           l == Len(s)
           r == SubSeq(s, n + 1, l)
<1>1. s \in Seq(S) /\ l \in Nat /\ n \in Nat /\ n <= l
  BY LenProperties DEF IsSequence
<1>2. \A i \in n + 1..l : s[i] \in S
  BY <1>1, ElementOfSeq
<1> HIDE DEF S, l
<1>3. /\ r \in Seq(S)
      /\ Len(r) = IF n + 1 <= l THEN l - (n + 1) + 1 ELSE 0
      /\ \A i \in 1..l - (n + 1) + 1 : r[i] = s[n + 1 + i - 1]
  BY <1>1, <1>2, SubSeqProperties
<1>4. IsSequence(r)
  BY <1>3, SequenceOf
<1> HIDE DEF r
<1>5. Len(r) = l - n
  BY <1>1, <1>3
<1>6. \A i \in 1..l - n : r[i] = s[n + i]
  <2> TAKE i \in 1..l - n
  <2>1. i \in 1..l - (n + 1) + 1 /\ n + 1 + i - 1 = n + i
    BY <1>1
  <2> QED
    BY <1>3, <2>1
<1> QED
  BY <1>4, <1>5, <1>6 DEF r, l

(* A sequence of n symbols all alike. *)
LEMMA ConstantSequence ==
  ASSUME NEW e, NEW n \in Nat
  PROVE  IsSequence([i \in 1..n |-> e]) /\ Len([i \in 1..n |-> e]) = n
<1> DEFINE s == [i \in 1..n |-> e]
<1>1. s \in [1..n -> {e}]
  OBVIOUS
<1>2. s \in Seq({e})
  BY <1>1
<1>3. DOMAIN s = 1..n
  OBVIOUS
<1>4. Len(s) = n
  <2> HIDE DEF s
  <2> QED
    BY <1>2, <1>3, LenProperties
<1> QED
  BY <1>2, <1>4, SequenceOf

LEMMA EmptySequence ==
  IsSequence(<<>>) /\ Len(<<>>) = 0
<1>1. <<>> \in Seq({}) /\ Len(<<>>) = 0
  BY EmptySeq
<1> QED
  BY <1>1, SequenceOf

LEMMA ConcatRegroups ==
  ASSUME NEW s, NEW q, NEW r, IsSequence(s), IsSequence(q), IsSequence(r)
  PROVE  (s \o q) \o r = s \o (q \o r)
<1> DEFINE S == ToSet(s) \cup ToSet(q) \cup ToSet(r)
<1>1. s \in Seq(S) /\ q \in Seq(S) /\ r \in Seq(S)
  <2>1. /\ ToSet(s) \subseteq S /\ ToSet(q) \subseteq S /\ ToSet(r) \subseteq S
        /\ s \in Seq(ToSet(s)) /\ q \in Seq(ToSet(q)) /\ r \in Seq(ToSet(r))
    BY DEF IsSequence
  <2> HIDE DEF S
  <2> QED
    BY <2>1, SeqMonotonic
<1> HIDE DEF S
<1> QED
  BY <1>1, ConcatAssociative

LEMMA EmptyConcat ==
  ASSUME NEW s, IsSequence(s)
  PROVE  <<>> \o s = s /\ s \o <<>> = s
BY ConcatEmptySeq DEF IsSequence

LEMMA AppendElements ==
  ASSUME NEW s, NEW e, IsSequence(s)
  PROVE  /\ Len(s) \in Nat
         /\ \A i \in 1..Len(s) + 1 : Append(s, e)[i] = IF i <= Len(s) THEN s[i] ELSE e
<1> DEFINE S == ToSet(s) \cup {e}
<1>1. s \in Seq(S) /\ e \in S
  <2>1. s \in Seq(ToSet(s)) /\ ToSet(s) \subseteq S
    BY DEF IsSequence
  <2> QED
    BY <2>1, SeqMonotonic
<1> HIDE DEF S
<1>2. /\ \A i \in 1..Len(s) : Append(s, e)[i] = s[i]
      /\ Append(s, e)[Len(s) + 1] = e
  BY <1>1, AppendProperties
<1>3. Len(s) \in Nat
  BY <1>1, LenProperties
<1> QED
  BY <1>2, <1>3

(* A list that is sent piece by piece: what is left of it behind the first *)
(* k pieces.                                                               *)
Behind(M, k) == FlattenSeq([i \in 1..(Len(M) - k) |-> M[k + i]])

LEMMA BehindFacts ==
  ASSUME NEW n \in Nat, NEW M, M = [i \in 1..n |-> M[i]], \A i \in 1..n : IsSequence(M[i])
  PROVE  /\ Len(M) = n
         /\ \A k \in 0..n : IsSequence(Behind(M, k))
         /\ \A k \in 0..n : k < n => Behind(M, k) = M[k + 1] \o Behind(M, k + 1)
         /\ Behind(M, n) = <<>>
         /\ Behind(M, 0) = FlattenSeq(M)
<1> DEFINE S == UNION {ToSet(M[i]) : i \in 1..n}
           Part(k) == [i \in 1..(n - k) |-> M[k + i]]
<1>1. \A i \in 1..n : M[i] \in Seq(S)
  <2> TAKE i \in 1..n
  <2>1. M[i] \in Seq(ToSet(M[i])) /\ ToSet(M[i]) \subseteq S
    BY DEF IsSequence
  <2> HIDE DEF S
  <2> QED
    BY <2>1, SeqMonotonic
<1> HIDE DEF S
<1>2. PICK V : V = Seq(S)
  OBVIOUS
<1>3. M \in [1..n -> V]
  BY <1>1, <1>2
<1>4. M \in Seq(V) /\ Len(M) = n
  BY <1>3
<1>5. \A k \in 0..n : Part(k) \in Seq(V) /\ Len(Part(k)) = n - k
  <2> TAKE k \in 0..n
  <2>1. \A i \in 1..(n - k) : M[k + i] \in V
    <3> TAKE i \in 1..(n - k)
    <3>1. k + i \in 1..n
      OBVIOUS
    <3> QED
      BY <1>1, <1>2, <3>1
  <2>2. PICK m \in Nat : m = n - k
    OBVIOUS
  <2>5. \A i \in 1..m : M[k + i] \in V
    BY <2>1, <2>2
  <2>6. Part(k) = [i \in 1..m |-> M[k + i]]
    BY <2>2
  <2>7. PICK q : q = [i \in 1..m |-> M[k + i]]
    OBVIOUS
  <2>3. q \in [1..m -> V]
    BY <2>5, <2>7
  <2>4. q \in Seq(V) /\ Len(q) = m
    BY <2>3
  <2> QED
    BY <2>2, <2>4, <2>6, <2>7
<1>6. \A k \in 0..n : Behind(M, k) = FlattenSeq(Part(k))
  BY <1>4 DEF Behind
<1>7. \A k \in 0..n : IsSequence(Behind(M, k))
  <2> TAKE k \in 0..n
  <2>1. Part(k) \in Seq(Seq(S))
    BY <1>2, <1>5
  <2> HIDE DEF Part
  <2>2. FlattenSeq(Part(k)) \in Seq(S)
    BY <2>1, FlattenSeqType
  <2> QED
    BY <1>6, <2>2, SequenceOf
<1>8. ASSUME NEW k \in 0..n, k < n
      PROVE  Behind(M, k) = M[k + 1] \o Behind(M, k + 1)
  <2>1. PICK e, f : e = Part(k) /\ f = Part(k + 1)
    OBVIOUS
  <2>2. k + 1 \in 0..n
    BY <1>8
  <2>3. /\ e \in Seq(V) /\ Len(e) = n - k /\ f \in Seq(V) /\ Len(f) = n - (k + 1)
    BY <1>5, <2>1, <2>2
  <2>4. /\ \A i \in 1..(n - k) : e[i] = M[k + i]
        /\ \A i \in 1..(n - (k + 1)) : f[i] = M[(k + 1) + i]
    BY <2>1
  <2> HIDE DEF Part
  <2>5. e # <<>>
    BY <1>8, <2>3, EmptySeq
  <2>6. /\ Tail(e) \in Seq(V) /\ Len(Tail(e)) = Len(e) - 1
        /\ \A i \in 1..Len(Tail(e)) : Tail(e)[i] = e[i + 1]
        /\ Head(e) = e[1]
    BY <2>3, <2>5, HeadTailProperties
  <2>7. Head(e) = M[k + 1]
    <3>1. 1 \in 1..(n - k)
      BY <1>8
    <3> QED
      BY <2>4, <2>6, <3>1
  <2>8. Tail(e) = f
    <3>1. Len(Tail(e)) = Len(f)
      BY <1>8, <2>3, <2>6
    <3>2. ASSUME NEW i \in 1..Len(Tail(e))
          PROVE  Tail(e)[i] = f[i]
      <4>1. i \in 1..(n - (k + 1)) /\ i + 1 \in 1..(n - k) /\ k + (i + 1) = (k + 1) + i
        <5>1. i \in 1..((n - k) - 1)
          BY <2>3, <2>6
        <5> QED
          BY <1>8, <5>1
      <4> QED
        BY <2>4, <2>6, <4>1
    <3> QED
      BY <2>3, <2>6, <3>1, <3>2, SeqEqual
  <2>9. FlattenSeq(e) = Head(e) \o FlattenSeq(Tail(e))
    BY <1>2, <2>3, <2>5, FlattenSeqCons
  <2> QED
    BY <1>6, <2>1, <2>2, <2>7, <2>8, <2>9
<1>9. Behind(M, n) = <<>>
  <2>1. Part(n) = <<>>
    <3>1. 1..(n - n) = {}
      OBVIOUS
    <3>2. Part(n) \in [{} -> {}]
      BY <3>1
    <3> QED
      BY <3>2
  <2>2. FlattenSeq(Part(n)) = <<>>
    BY <2>1 DEF FlattenSeq
  <2> QED
    BY <1>6, <2>2
<1>10. Behind(M, 0) = FlattenSeq(M)
  <2>1. Part(0) = M
    <3>1. \A i \in 1..n : 0 + i = i
      OBVIOUS
    <3>2. n - 0 = n
      OBVIOUS
    <3>3. Part(0) = [i \in 1..n |-> M[i]]
      BY <3>1, <3>2
    <3> QED
      BY <3>3
  <2> QED
    BY <1>6, <2>1
<1> QED
  BY <1>4, <1>7, <1>8, <1>9, <1>10

LEMMA ConcatType ==
  ASSUME NEW s, NEW t, IsSequence(s), IsSequence(t)
  PROVE  IsSequence(s \o t)
BY ConcatSequences

LEMMA OneSymbol ==
  ASSUME NEW c
  PROVE  IsSequence(<<c>>) /\ Len(<<c>>) = 1 /\ <<c>>[1] = c /\ <<c>> # <<>>
<1>1. <<c>> \in Seq({c}) /\ Len(<<c>>) = 1 /\ <<c>>[1] = c /\ <<c>> # <<>>
  OBVIOUS
<1> QED
  BY <1>1, SequenceOf

LEMMA TwoSymbols ==
  ASSUME NEW c, NEW d
  PROVE  /\ IsSequence(<<c, d>>) /\ Len(<<c, d>>) = 2 /\ <<c, d>>[1] = c
         /\ <<c>> \o <<d>> = <<c, d>>
<1>1. <<c, d>> \in Seq({c, d}) /\ Len(<<c, d>>) = 2 /\ <<c, d>>[1] = c /\ <<c, d>>[2] = d
  OBVIOUS
<1>2. IsSequence(<<c, d>>)
  BY <1>1, SequenceOf
<1>3. PICK a, b : a = <<c>> /\ b = <<d>>
  OBVIOUS
<1>4. IsSequence(a) /\ Len(a) = 1 /\ a[1] = c /\ IsSequence(b) /\ Len(b) = 1 /\ b[1] = d
  BY <1>3, OneSymbol
<1>5. /\ IsSequence(a \o b) /\ Len(a \o b) = Len(a) + Len(b)
      /\ \A i \in 1..Len(a) + Len(b) : (a \o b)[i] = IF i <= Len(a) THEN a[i] ELSE b[i - Len(a)]
  BY <1>4, ConcatSequences
<1>6. Len(a \o b) = 2 /\ (a \o b)[1] = c /\ (a \o b)[2] = d
  BY <1>4, <1>5
<1>7. \A i \in 1..Len(a \o b) : (a \o b)[i] = <<c, d>>[i]
  BY <1>1, <1>6
<1>8. a \o b = <<c, d>>
  BY <1>1, <1>2, <1>5, <1>6, <1>7, SequencesEqual
<1> QED
  BY <1>1, <1>2, <1>3, <1>8
=============================================================================
