---------------------------- MODULE SessionProofs ---------------------------
(***************************************************************************)
(* Theorems about ListSessions, for every list and any number of sessions: *)
(* the cipher state of SBV2 is freed once and its loss spoils one field.   *)
(* First the waits and the Shutdown of SBV2; then what is due on the       *)
(* stream of UTMS, and what is read on a closed connection; last, that a   *)
(* UTMS session and one that reads the compressed list deliver the list in *)
(* its order.                                                              *)
(***************************************************************************)
EXTENDS ListSessions, ListLemmas, TLAPS

LEMMA ValueType ==
  \A c : Value(c) \in Nat
<1> TAKE c
<1> DEFINE N(n) == Numerals[n + 1] = c
<1>1. CASE c \in ToSet(Numerals)
  <2>1. \E n \in 0..9 : N(n)
    <3>1. DOMAIN Numerals = 1..10
      BY DEF Numerals
    <3>2. PICK i \in 1..10 : Numerals[i] = c
      BY <1>1, <3>1, Zenon DEF ToSet
    <3>3. i - 1 \in 0..9 /\ (i - 1) + 1 = i
      OBVIOUS
    <3> QED
      BY <3>2, <3>3, Zenon
  <2> DEFINE v == CHOOSE n \in 0..9 : N(n)
  <2>2. Value(c) = v
    BY <1>1 DEF Value
  <2>3. v \in 0..9
    <3> HIDE DEF N
    <3> QED
      BY <2>1, Zenon
  <2> HIDE DEF v
  <2> QED
    BY <2>2, <2>3
<1>2. CASE c \notin ToSet(Numerals)
  BY <1>2 DEF Value, Big
<1> QED
  BY <1>1, <1>2

-----------------------------------------------------------------------------
(* SBV2: what there is to wait for. *)

EarlyNames == {"random length", "random", "key length", "key"}
LateNames == {"public ip", "default port", "num fields", "field type", "field name",
              "num popular", "flags", "ip", "port", "private ip", "private port", "icmp ip",
              "string index", "string", "key byte", "key short",
              "rules", "rule", "value", "next rule"}
LateField == [name : LateNames, len : {1, 2}]

LEMMA LateWait ==
  ASSUME NEW name \in LateNames, NEW n \in {1, 2}
  PROVE  Wait(name, n) \in Seq(LateField) /\ Wait(name, n) # <<>>
BY DEF Wait, LateField

LEMMA LateConcat ==
  \A a, b \in Seq(LateField) : a \o b \in Seq(LateField)
<1> TAKE a, b \in Seq(LateField)
<1> QED
  BY ConcatProperties

LEMMA LateOptional ==
  ASSUME NEW flag, NEW byte, NEW s \in Seq(LateField)
  PROVE  Optional(flag, byte, s) \in Seq(LateField)
BY EmptySeq DEF Optional

LEMMA LateParts ==
  ASSUME NEW byte, IsSequence(fields)
  PROVE  Parts(byte) \in Seq(LateField)
<1> USE LateConcat, LateOptional
<1>1. /\ Wait("port", 2) \in Seq(LateField)
      /\ Wait("private ip", 1) \in Seq(LateField)
      /\ Wait("private port", 2) \in Seq(LateField)
      /\ Wait("icmp ip", 1) \in Seq(LateField)
      /\ Wait("rules", 1) \in Seq(LateField)
      /\ Wait("string index", 1) \in Seq(LateField)
      /\ Wait("key byte", 1) \in Seq(LateField)
      /\ Wait("key short", 2) \in Seq(LateField)
  BY LateWait DEF LateNames
<1>2. \A type : KeyOf(type) \in Seq(LateField)
  <2> TAKE type
  <2>1. CASE type = "string"
    BY <1>1, <2>1 DEF KeyOf
  <2>2. CASE type = "byte"
    BY <1>1, <2>2 DEF KeyOf
  <2>3. CASE type = "short"
    BY <1>1, <2>3 DEF KeyOf
  <2>4. CASE type \notin {"string", "byte", "short"}
    BY <2>4, EmptySeq DEF KeyOf
  <2> QED
    BY <2>1, <2>2, <2>3, <2>4
<1> DEFINE keys == [i \in 1..Len(fields) |-> KeyOf(fields[i])]
<1>3. keys \in Seq(Seq(LateField))
  <2>1. Len(fields) \in Nat
    BY LenProperties DEF IsSequence
  <2>2. \A i \in 1..Len(fields) : KeyOf(fields[i]) \in Seq(LateField)
    BY <1>2
  <2> QED
    BY <2>1, <2>2
<1>4. FlattenSeq(keys) \in Seq(LateField)
  <2> HIDE DEF keys
  <2> QED
    BY <1>3, FlattenSeqType
<1> DEFINE p1 == Optional("NONSTANDARD_PORT", byte, Wait("port", 2))
           p2 == Optional("PRIVATE_IP", byte, Wait("private ip", 1))
           p3 == Optional("NONSTANDARD_PRIVATE_PORT", byte, Wait("private port", 2))
           p4 == Optional("ICMP_IP", byte, Wait("icmp ip", 1))
           p5 == Optional("HAS_KEYS", byte, FlattenSeq(keys))
           p6 == Optional("HAS_FULL_RULES", byte, Wait("rules", 1))
<1>5. /\ p1 \in Seq(LateField) /\ p2 \in Seq(LateField) /\ p3 \in Seq(LateField)
      /\ p4 \in Seq(LateField) /\ p5 \in Seq(LateField) /\ p6 \in Seq(LateField)
  <2> HIDE DEF keys
  <2> QED
    BY <1>1, <1>4
<1>6. Parts(byte) = p1 \o p2 \o p3 \o p4 \o p5 \o p6
  BY DEF Parts
<1> HIDE DEF p1, p2, p3, p4, p5, p6
<1> QED
  BY <1>5, <1>6

LEMMA CountType ==
  \A c : Count(c) \in Nat
BY ValueType DEF Count

(* What there is to do after a field, case by case. *)
LEMMA AfterCases ==
  ASSUME NEW f, NEW data, NEW rest
  PROVE  /\ f = "random length" =>
              After(f, data, rest) = Wait("random", Count(data[1])) \o Wait("key length", 1)
         /\ f = "key length" => After(f, data, rest) = Wait("key", Count(data[1]))
         /\ f = "key" =>
              After(f, data, rest) =
                Wait("public ip", 1) \o Wait("default port", 2) \o Wait("num fields", 1)
         /\ f = "num fields" =>
              After(f, data, rest) =
                Repeat(Count(data[1]), Wait("field type", 1) \o Wait("field name", 1))
                  \o Wait("num popular", 1) \o EntryStart
         /\ f = "ip" => After(f, data, rest) = Parts(entry.byte)
         /\ f = "string index" => After(f, data, rest) = Wait("string", 1) \o rest
         /\ f \in {"rules", "next rule"} =>
              After(f, data, rest) \in
                {rest, Wait("rule", 1) \o Wait("value", 1) \o Wait("next rule", 1)}
         /\ f \in Strings => After(f, data, rest) \in {rest, todo}
         /\ f \notin {"random length", "key length", "key", "num fields", "ip", "string index",
                      "rules", "next rule"} \cup Strings => After(f, data, rest) = rest
<1>1. CASE f = "random length"
  BY <1>1, Zenon DEF After, Strings
<1>2. CASE f = "key length"
  BY <1>2, Zenon DEF After, Strings
<1>3. CASE f = "key"
  BY <1>3, Zenon DEF After, Strings
<1>4. CASE f = "num fields"
  BY <1>4, Zenon DEF After, Strings
<1>5. CASE f = "ip"
  BY <1>5, Zenon DEF After, Strings
<1>6. CASE f = "string index"
  BY <1>6, Zenon DEF After, Strings
<1>7. CASE f \in {"rules", "next rule"}
  BY <1>7, Zenon DEF After, Strings
<1>8. CASE f \in Strings
  BY <1>8, Zenon DEF After, Strings
<1>9. CASE f \notin {"random length", "key length", "key", "num fields", "ip", "string index",
                     "rules", "next rule"} \cup Strings
  BY <1>9, Zenon DEF After, Strings
<1> QED
  BY <1>1, <1>2, <1>3, <1>4, <1>5, <1>6, <1>7, <1>8, <1>9, Zenon

LEMMA HeadOfWait ==
  ASSUME NEW name, NEW n
  PROVE  /\ Wait(name, n) # <<>>
         /\ Head(Wait(name, n)).name = name
         /\ Head(Wait(name, n)).len = n
<1> DEFINE e == [name |-> name, len |-> n]
<1>1. <<e>> # <<>> /\ Head(<<e>>) = e
  OBVIOUS
<1>2. e.name = name /\ e.len = n
  OBVIOUS
<1> QED
  BY <1>1, <1>2, Zenon DEF Wait

LEMMA HeadOfTwoWaits ==
  ASSUME NEW name, NEW n, NEW m, NEW k
  PROVE  /\ Wait(name, n) \o Wait(m, k) # <<>>
         /\ Head(Wait(name, n) \o Wait(m, k)).name = name
         /\ Head(Wait(name, n) \o Wait(m, k)).len = n
         /\ Tail(Wait(name, n) \o Wait(m, k)) = Wait(m, k)
<1> DEFINE e == [name |-> name, len |-> n]
           d == [name |-> m, len |-> k]
<1>1. e.name = name /\ e.len = n
  OBVIOUS
<1>2. Wait(name, n) = <<e>> /\ Wait(m, k) = <<d>>
  BY Zenon DEF Wait
<1> HIDE DEF e, d
<1> DEFINE S == {e, d}
           s == <<e>> \o <<d>>
<1>3. <<e>> \in Seq(S) /\ <<d>> \in Seq(S) /\ Len(<<e>>) = 1 /\ Len(<<d>>) = 1
      /\ <<e>>[1] = e /\ <<d>>[1] = d
  OBVIOUS
<1> HIDE DEF S
<1>4. s \in Seq(S) /\ Len(s) = 2 /\ s[1] = e /\ s[2] = d
  BY <1>3, ConcatProperties
<1> HIDE DEF s
<1>5. s # <<>> /\ Head(s) = e
  BY <1>4, EmptySeq
<1>6. Tail(s) \in Seq(S) /\ Len(Tail(s)) = 1 /\ Tail(s)[1] = d
  BY <1>4, <1>5, HeadTailProperties
<1>7. Tail(s) = <<d>>
  <2>1. \A i \in 1..Len(Tail(s)) : Tail(s)[i] = <<d>>[i]
    BY <1>3, <1>6
  <2> QED
    BY <1>3, <1>6, <2>1, SeqEqual
<1> QED
  BY <1>1, <1>2, <1>5, <1>7 DEF s

(* Behind the crypt header nothing of it is waited for again. *)
LEMMA LateAfter ==
  ASSUME NEW data, todo \in Seq(LateField), todo # <<>>, IsSequence(fields)
  PROVE  /\ Head(todo).name \in LateNames
         /\ After(Head(todo).name, data, Tail(todo)) \in Seq(LateField)
<1> DEFINE f == Head(todo).name
           rest == Tail(todo)
           next == After(f, data, rest)
<1>1. Head(todo) \in LateField /\ rest \in Seq(LateField)
  BY HeadTailProperties
<1>2. f \in LateNames
  BY <1>1 DEF LateField
<1>9. SUFFICES next \in Seq(LateField)
  BY <1>2
<1> HIDE DEF f, rest
<1> USE LateConcat
<1>3. CASE f = "num fields"
  <2> DEFINE fs == Wait("field type", 1) \o Wait("field name", 1)
             n == Count(data[1])
             all == [i \in 1..n |-> fs]
  <2>1. fs \in Seq(LateField)
    BY LateWait DEF LateNames
  <2>2. n \in Nat
    BY CountType
  <2>3. all \in Seq(Seq(LateField))
    <3> HIDE DEF fs, n
    <3> QED
      BY <2>1, <2>2
  <2>4. FlattenSeq(all) \in Seq(LateField)
    <3> HIDE DEF all
    <3> QED
      BY <2>3, FlattenSeqType
  <2>5. EntryStart \in Seq(LateField) /\ Wait("num popular", 1) \in Seq(LateField)
    BY LateWait DEF LateNames, EntryStart
  <2>6. next = FlattenSeq(all) \o Wait("num popular", 1) \o EntryStart
    BY <1>3, AfterCases, Zenon DEF Repeat
  <2> HIDE DEF all, next
  <2>7. next \in Seq(LateField)
    BY <2>4, <2>5, <2>6
  <2> QED
    BY <2>7 DEF next
<1>4. CASE f = "ip"
  <2>1. next = Parts(entry.byte)
    BY <1>4, AfterCases, Zenon
  <2> QED
    BY <2>1, LateParts
<1>5. CASE f = "string index"
  <2>1. next = Wait("string", 1) \o rest
    BY <1>5, AfterCases, Zenon
  <2>2. Wait("string", 1) \in Seq(LateField)
    BY LateWait DEF LateNames
  <2> QED
    BY <1>1, <2>1, <2>2
<1>6. CASE f \in {"rules", "next rule"}
  <2> DEFINE rule == Wait("rule", 1) \o Wait("value", 1) \o Wait("next rule", 1)
  <2>1. next = rest \/ next = rule
    BY <1>6, AfterCases, Zenon
  <2>2. rule \in Seq(LateField)
    BY LateWait DEF LateNames
  <2> QED
    BY <1>1, <2>1, <2>2
<1>7. CASE f \in Strings
  <2>1. next = rest \/ next = todo
    BY <1>7, AfterCases, Zenon
  <2> QED
    BY <1>1, <2>1
<1>8. CASE f \notin {"num fields", "ip", "string index", "rules", "next rule"} \cup Strings
  <2>1. next = rest
    BY <1>2, <1>8, AfterCases DEF LateNames
  <2> QED
    BY <1>1, <2>1
<1> QED
  BY <1>3, <1>4, <1>5, <1>6, <1>7, <1>8

(* In the crypt header the reader is at one of four places. *)
EarlyForm(t) ==
  \/ t = Wait("random length", 1)
  \/ \E n \in Nat : t = Wait("random", n) \o Wait("key length", 1)
  \/ t = Wait("key length", 1)
  \/ \E n \in Nat : t = Wait("key", n)

TodoForm(t, cipher) ==
  IF cipher = "none" THEN EarlyForm(t) ELSE t \in Seq(LateField) /\ t # <<>>

EarlyTodo == EarlyForm(todo)
TodoInv == TodoForm(todo, enctypeXData)

LEMMA EarlyHead ==
  ASSUME NEW t, EarlyForm(t)
  PROVE  /\ t # <<>>
         /\ Head(t).name \in EarlyNames
         /\ Head(t).len \in Nat
         /\ Head(t).name = "random" => Tail(t) = Wait("key length", 1)
<1> USE DEF EarlyNames
<1>1. CASE t = Wait("random length", 1)
  <2>1. t # <<>> /\ Head(t).name = "random length" /\ Head(t).len = 1
    BY <1>1, HeadOfWait, Zenon
  <2>2. 1 \in Nat
    OBVIOUS
  <2> QED
    BY <2>1, <2>2, Zenon
<1>2. CASE \E n \in Nat : t = Wait("random", n) \o Wait("key length", 1)
  <2>1. PICK n \in Nat : t = Wait("random", n) \o Wait("key length", 1)
    BY <1>2
  <2>2. /\ t # <<>> /\ Head(t).name = "random" /\ Head(t).len = n
        /\ Tail(t) = Wait("key length", 1)
    <3> DEFINE a == "random"
               b == "key length"
               one == 1
    <3>1. t = Wait(a, n) \o Wait(b, one)
      BY <2>1
    <3> HIDE DEF a, b, one
    <3>2. /\ t # <<>> /\ Head(t).name = a /\ Head(t).len = n
          /\ Tail(t) = Wait(b, one)
      BY <3>1, HeadOfTwoWaits
    <3> QED
      BY <3>2, Zenon DEF a, b, one
  <2> QED
    BY <2>2
<1>3. CASE t = Wait("key length", 1)
  <2>1. t # <<>> /\ Head(t).name = "key length" /\ Head(t).len = 1
    BY <1>3, HeadOfWait, Zenon
  <2>2. 1 \in Nat
    OBVIOUS
  <2> QED
    BY <2>1, <2>2, Zenon
<1>4. CASE \E n \in Nat : t = Wait("key", n)
  <2>1. PICK n \in Nat : t = Wait("key", n)
    BY <1>4
  <2>2. t # <<>> /\ Head(t).name = "key" /\ Head(t).len = n
    BY <2>1, HeadOfWait, Zenon
  <2> QED
    BY <2>2
<1> QED
  BY <1>1, <1>2, <1>3, <1>4 DEF EarlyForm

LEMMA NeedType ==
  ASSUME NEW t, NEW cipher, TodoForm(t, cipher)
  PROVE  /\ Head(t).len \in Nat
         /\ cipher # "none" => Head(t).len >= 1
<1>1. CASE cipher = "none"
  BY <1>1, EarlyHead DEF TodoForm
<1>2. CASE cipher # "none"
  <2>1. Head(t) \in LateField
    BY <1>2, HeadTailProperties DEF TodoForm
  <2> QED
    BY <1>2, <2>1 DEF LateField
<1> QED
  BY <1>1, <1>2

LEMMA ConcatHead ==
  ASSUME NEW S, NEW s \in Seq(S), NEW t \in Seq(S), s # <<>>
  PROVE  s \o t \in Seq(S) /\ s \o t # <<>> /\ Head(s \o t) = Head(s)
<1> DEFINE c == s \o t
<1>1. Len(s) \in Nat \ {0} /\ Len(t) \in Nat
  BY EmptySeq, LenProperties
<1>2. c \in Seq(S) /\ Len(c) = Len(s) + Len(t) /\ c[1] = s[1]
  BY <1>1, ConcatProperties
<1> HIDE DEF c
<1>3. c # <<>> /\ Head(c) = c[1] /\ Head(s) = s[1]
  BY <1>1, <1>2, EmptySeq
<1> QED
  BY <1>2, <1>3 DEF c

(* What is waited for behind the crypt header. *)
LEMMA HeaderEnd ==
  ASSUME NEW data
  PROVE  LET next == After("key", data, Tail(todo)) IN
           /\ next \in Seq(LateField) /\ next # <<>> /\ Head(next).name # "rules"
<1> DEFINE p == Wait("public ip", 1)
           q == Wait("default port", 2)
           r == Wait("num fields", 1)
<1>1. p \in Seq(LateField) /\ q \in Seq(LateField) /\ r \in Seq(LateField)
  BY LateWait DEF LateNames
<1>2. p # <<>> /\ Head(p).name = "public ip"
  BY HeadOfWait
<1>3. After("key", data, Tail(todo)) = p \o q \o r
  BY AfterCases, Zenon
<1> HIDE DEF p, q, r
<1>4. p \o q \in Seq(LateField) /\ p \o q # <<>> /\ Head(p \o q) = Head(p)
  BY <1>1, <1>2, ConcatHead
<1> DEFINE pq == p \o q
<1> HIDE DEF pq
<1>5. pq \o r \in Seq(LateField) /\ pq \o r # <<>> /\ Head(pq \o r) = Head(pq)
  BY <1>1, <1>4, ConcatHead DEF pq
<1>6. p \o q \o r = pq \o r /\ Head(pq) = Head(p)
  BY <1>4 DEF pq
<1> QED
  BY <1>2, <1>3, <1>5, <1>6

LEMMA AfterHeader ==
  ASSUME NEW data, NEW rest
  PROVE  /\ After("random length", data, rest) =
              Wait("random", Count(data[1])) \o Wait("key length", 1)
         /\ After("random", data, rest) = rest
         /\ After("key length", data, rest) = Wait("key", Count(data[1]))
<1>1. After("random length", data, rest) = Wait("random", Count(data[1])) \o Wait("key length", 1)
  BY Zenon DEF After, Strings
<1>2. After("random", data, rest) = rest
  BY Zenon DEF After, Strings
<1>3. After("key length", data, rest) = Wait("key", Count(data[1]))
  BY Zenon DEF After, Strings
<1> QED
  BY <1>1, <1>2, <1>3, Zenon

LEMMA EarlyAfter ==
  ASSUME EarlyTodo, NEW data, Head(todo).name # "key"
  PROVE  LET next == After(Head(todo).name, data, Tail(todo)) IN
           /\ next # <<>>
           /\ \/ \E n \in Nat : next = Wait("random", n) \o Wait("key length", 1)
              \/ next = Wait("key length", 1)
              \/ \E n \in Nat : next = Wait("key", n)
<1> DEFINE f == Head(todo).name
           rest == Tail(todo)
           next == After(f, data, rest)
           n == Count(data[1])
           random == Wait("random", n) \o Wait("key length", 1)
<1>1. /\ f \in {"random length", "random", "key length"}
      /\ f = "random" => rest = Wait("key length", 1)
  BY EarlyHead DEF EarlyNames, EarlyTodo
<1>2. n \in Nat
  BY CountType
<1> HIDE DEF f, rest
<1>3. /\ f = "random length" => next = random
      /\ f = "random" => next = rest
      /\ f = "key length" => next = Wait("key", n)
  BY AfterHeader, Zenon
<1>4. random # <<>>
  <2> DEFINE a == "random"
             b == "key length"
             one == 1
  <2> HIDE DEF a, b, one, n
  <2>1. Wait(a, n) \o Wait(b, one) # <<>>
    BY HeadOfTwoWaits
  <2> QED
    BY <2>1, Zenon DEF a, b, one
<1>5. Wait("key length", 1) # <<>> /\ Wait("key", n) # <<>>
  BY HeadOfWait, Zenon
<1>6. \/ next = random
      \/ next = Wait("key length", 1)
      \/ next = Wait("key", n)
  <2> HIDE DEF next, random, n
  <2> QED
    BY <1>1, <1>3, Zenon
<1> HIDE DEF next
<1>7. \/ \E k \in Nat : next = Wait("random", k) \o Wait("key length", 1)
      \/ next = Wait("key length", 1)
      \/ \E k \in Nat : next = Wait("key", k)
  <2> HIDE DEF n
  <2> QED
    BY <1>2, <1>6, Zenon
<1> QED
  BY <1>4, <1>5, <1>6, <1>7, Zenon DEF next, f, rest

-----------------------------------------------------------------------------
(* SBV2: what the reader does with a field. *)

LateTodo == todo \in Seq(LateField) /\ todo # <<>>

LEMMA EntryStartLate ==
  EntryStart \in Seq(LateField) /\ EntryStart # <<>>
<1> DEFINE p == Wait("flags", 1)
           q == Wait("ip", 1)
<1>1. p \in Seq(LateField) /\ q \in Seq(LateField) /\ p # <<>>
  BY LateWait DEF LateNames
<1> HIDE DEF p, q
<1>2. p \o q \in Seq(LateField) /\ p \o q # <<>>
  BY <1>1, ConcatHead
<1> QED
  BY <1>2 DEF EntryStart, p, q

(* The key is taken once: it makes the cipher state, and behind it there is *)
(* no other.  A panic needs a field that came back empty.                  *)
LEMMA ArrivesStep ==
  ASSUME NEW data, TodoInv, IsSequence(fields), Arrives(data)
  PROVE  /\ TodoInv'
         /\ IsSequence(fields')
         /\ \/ UNCHANGED cipherVars
            \/ enctypeXData = "none" /\ enctypeXData' = "live" /\ enctypeXReady' = TRUE
         /\ pc' = "panic" => \/ pc = "panic"
                             \/ data = <<>> /\ enctypeXData # "none"
<1> DEFINE f == Head(todo).name
           next == After(f, data, Tail(todo))
<1>1. CASE (f \in Indexed /\ data = <<>>) \/ Quits(f, data)
  <2>1. UNCHANGED <<todo, fields, enctypeXReady, enctypeXData>>
    BY <1>1 DEF Arrives, Stops, parserVars, cipherVars
  <2>2. TodoInv'
    BY <2>1 DEF TodoInv, TodoForm, EarlyTodo, EarlyForm
  <2>3. f \in Indexed => enctypeXData # "none"
    <3>1. CASE enctypeXData = "none"
      <4>1. f \in EarlyNames
        BY <3>1, EarlyHead DEF TodoInv, TodoForm, EarlyTodo
      <4> QED
        BY <4>1 DEF EarlyNames, Indexed, Strings
    <3> QED
      BY <3>1
  <2>4. pc' = "panic" => f \in Indexed /\ data = <<>>
    BY <1>1 DEF Arrives, Stops
  <2> QED
    BY <2>1, <2>2, <2>3, <2>4 DEF cipherVars
<1>2. CASE ~((f \in Indexed /\ data = <<>>) \/ Quits(f, data))
  <2>1. /\ fields' = IF f = "field type" THEN Append(fields, data[1]) ELSE fields
        /\ IF f = "key"
             THEN enctypeXReady' = TRUE /\ enctypeXData' = "live"
             ELSE UNCHANGED cipherVars
        /\ GoOn(next)
    BY <1>2 DEF Arrives
  <2>2. IsSequence(fields')
    BY <2>1, AppendSequence
  <2>3. /\ \/ todo' = todo /\ (next = <<>> \/ Head(next).name = "rules")
           \/ next = <<>> /\ todo' = EntryStart
           \/ next # <<>> /\ todo' = next
        /\ pc' = "done" \/ pc' = pc
    <3> HIDE DEF next
    <3> QED
      BY <2>1 DEF GoOn
  <2>4. CASE enctypeXData = "none" /\ f = "key"
    <3>1. next \in Seq(LateField) /\ next # <<>> /\ Head(next).name # "rules"
      BY <2>4, HeaderEnd
    <3> HIDE DEF next
    <3>2. LateTodo'
      BY <2>3, <3>1 DEF LateTodo
    <3> QED
      BY <2>1, <2>2, <2>3, <2>4, <3>2 DEF TodoInv, TodoForm, LateTodo
  <2>5. CASE enctypeXData = "none" /\ f # "key"
    <3>1. EarlyTodo
      BY <2>5 DEF TodoInv, TodoForm, EarlyTodo
    <3>2. /\ next # <<>>
          /\ \/ \E n \in Nat : next = Wait("random", n) \o Wait("key length", 1)
             \/ next = Wait("key length", 1)
             \/ \E n \in Nat : next = Wait("key", n)
      BY <2>5, <3>1, EarlyAfter
    <3> HIDE DEF next
    <3>3. EarlyTodo'
      <4>1. CASE todo' = todo
        BY <3>1, <4>1 DEF EarlyTodo, EarlyForm
      <4>2. CASE todo' = next
        BY <3>2, <4>2, Zenon DEF EarlyTodo, EarlyForm
      <4> QED
        BY <2>3, <3>2, <4>1, <4>2
    <3>4. UNCHANGED cipherVars
      BY <2>1, <2>5
    <3> QED
      BY <2>2, <2>3, <2>5, <3>3, <3>4 DEF TodoInv, TodoForm, EarlyTodo, cipherVars
  <2>6. CASE enctypeXData # "none"
    <3>1. f \in LateNames /\ next \in Seq(LateField)
      BY <2>6, LateAfter DEF TodoInv, TodoForm
    <3>2. f # "key"
      BY <3>1 DEF LateNames
    <3>3. UNCHANGED cipherVars
      BY <2>1, <3>2
    <3> HIDE DEF next
    <3>4. LateTodo'
      BY <2>3, <2>6, <3>1, EntryStartLate DEF LateTodo, TodoInv, TodoForm
    <3> QED
      BY <2>2, <2>3, <2>6, <3>3, <3>4 DEF TodoInv, TodoForm, LateTodo, cipherVars
  <2> QED
    BY <2>4, <2>5, <2>6
<1> QED
  BY <1>1, <1>2

-----------------------------------------------------------------------------
(* SBV2: the wait for a field, and Shutdown. *)

WaitInv ==
  /\ enctypeXData \in {"none", "live", "freed"}
  /\ enctypeXReady \in BOOLEAN
  /\ gotFatalError \in BOOLEAN
  /\ waiting \in {"read", "check", "decrypt"}
  /\ IsSequence(fields)
  /\ IsSequence(dataBuffer)
  /\ TodoInv
  /\ Len(dataBuffer) <= Need
  /\ enctypeXReady => enctypeXData # "none"
  /\ waiting = "decrypt" => enctypeXData # "none"
  /\ waiting # "read" => gotFatalError \/ Len(dataBuffer) = Need

SBV2Panics ==
  session.kind = "sbv2" /\ pc = "panic" => gotFatalError /\ enctypeXData # "none"

Active(c) == shutdownPc[c] \notin {"idle", "done"}

ShutdownInv ==
  /\ shutdownPc \in [Callers -> {"idle", "test", "clear", "free", "done"}]
  /\ together \in BOOLEAN /\ freedTwice \in BOOLEAN
  /\ \A c \in Callers : shutdownPc[c] \in {"clear", "free"} => enctypeXData # "none"
  /\ ~together =>
       /\ ~freedTwice
       /\ \A c, d \in Callers : Active(c) /\ Active(d) => c = d
       /\ enctypeXReady => enctypeXData = "live"
       /\ \A c \in Callers : shutdownPc[c] = "clear" => enctypeXData = "live"
       /\ \A c \in Callers : shutdownPc[c] = "free" => enctypeXData = "live" /\ ~enctypeXReady

LEMMA WaitInit ==
  ASSUME SBV2Init
  PROVE  WaitInv /\ ShutdownInv
<1>1. TodoInv
  BY DEF SBV2Init, TodoInv, TodoForm, EarlyForm
<1>2. IsSequence(fields) /\ IsSequence(dataBuffer) /\ Len(dataBuffer) = 0
  <2>1. <<>> \in Seq({}) /\ Len(<<>>) = 0
    BY EmptySeq
  <2> QED
    BY <2>1, SequenceOf DEF SBV2Init
<1>3. Need \in Nat
  BY <1>1, NeedType DEF TodoInv, Need
<1>4. WaitInv
  <2>1. /\ enctypeXData = "none" /\ enctypeXReady = FALSE /\ gotFatalError = FALSE
        /\ waiting = "read"
    BY DEF SBV2Init
  <2>2. Len(dataBuffer) <= Need
    BY <1>2, <1>3
  <2> QED
    BY <1>1, <1>2, <2>1, <2>2 DEF WaitInv
<1>5. ShutdownInv
  BY DEF ShutdownInv, Active, SBV2Init
<1> QED
  BY <1>4, <1>5

LEMMA WaitUnchanged ==
  ASSUME WaitInv, UNCHANGED <<enctypeXData, enctypeXReady, gotFatalError, waiting, fields,
                              dataBuffer, todo>>
  PROVE  WaitInv'
<1>1. TodoInv' /\ Need' = Need
  BY DEF WaitInv, TodoInv, TodoForm, EarlyForm, Need
<1> QED
  BY <1>1 DEF WaitInv

(* A wait that returns: what it returns is empty only after a failed Read. *)
LEMMA ReturnsStep ==
  ASSUME WaitInv, NEW data, NEW isGarbage, Returns(data, isGarbage),
         pc = "list",
         data = <<>> /\ enctypeXData # "none" => gotFatalError
  PROVE  /\ WaitInv'
         /\ \/ UNCHANGED cipherVars
            \/ enctypeXData = "none" /\ enctypeXData' = "live" /\ enctypeXReady' = TRUE
         /\ pc' = "panic" => gotFatalError' /\ enctypeXData' # "none"
<1>1. /\ waiting' = "read" /\ dataBuffer' = <<>> /\ gotFatalError' = gotFatalError
      /\ Arrives(data)
  BY DEF Returns
<1>2. /\ TodoInv'
      /\ IsSequence(fields')
      /\ \/ UNCHANGED cipherVars
         \/ enctypeXData = "none" /\ enctypeXData' = "live" /\ enctypeXReady' = TRUE
      /\ pc' = "panic" => data = <<>> /\ enctypeXData # "none"
  BY <1>1, ArrivesStep DEF WaitInv
<1>3. Need' \in Nat
  <2>1. TodoForm(todo', enctypeXData')
    BY <1>2 DEF TodoInv, TodoForm, EarlyForm
  <2>2. Head(todo').len \in Nat
    BY <2>1, NeedType
  <2> QED
    BY <2>2 DEF Need
<1>4. IsSequence(dataBuffer') /\ Len(dataBuffer') = 0
  <2>1. <<>> \in Seq({}) /\ Len(<<>>) = 0
    BY EmptySeq
  <2> QED
    BY <1>1, <2>1, SequenceOf
<1>5. enctypeXData' \in {"none", "live", "freed"} /\ enctypeXReady' \in BOOLEAN
      /\ (enctypeXReady' => enctypeXData' # "none")
  <2>1. CASE UNCHANGED cipherVars
    BY <2>1, Zenon DEF WaitInv, cipherVars
  <2>2. CASE enctypeXData' = "live" /\ enctypeXReady' = TRUE
    BY <2>2
  <2> QED
    BY <1>2, <2>1, <2>2
<1>6. WaitInv'
  <2>1. /\ gotFatalError' \in BOOLEAN
        /\ waiting' = "read"
    BY <1>1 DEF WaitInv
  <2>2. Len(dataBuffer') <= Need'
    BY <1>3, <1>4
  <2> QED
    BY <1>2, <1>4, <1>5, <2>1, <2>2 DEF WaitInv
<1>7. pc' = "panic" => gotFatalError' /\ enctypeXData' # "none"
  BY <1>1, <1>2 DEF cipherVars
<1> QED
  BY <1>2, <1>6, <1>7

LEMMA CheckReadyStep ==
  ASSUME WaitInv, CheckReady
  PROVE  /\ WaitInv'
         /\ \/ UNCHANGED cipherVars
            \/ enctypeXData = "none" /\ enctypeXData' = "live" /\ enctypeXReady' = TRUE
         /\ pc' = "panic" => gotFatalError' /\ enctypeXData' # "none"
<1>0. /\ pc = "list" /\ waiting = "check"
      /\ Need \in Nat /\ (enctypeXData # "none" => Need >= 1)
      /\ Len(dataBuffer) \in Nat /\ Len(dataBuffer) <= Need
      /\ IsSequence(dataBuffer)
  <2>1. Len(dataBuffer) \in Nat
    BY LenProperties DEF WaitInv, IsSequence
  <2> QED
    BY <2>1, NeedType DEF CheckReady, WaitInv, TodoInv, Need
<1>1. CASE enctypeXReady
  <2>1. /\ waiting' = "decrypt"
        /\ UNCHANGED <<pc, todo, fields, enctypeXReady, enctypeXData, dataBuffer, gotFatalError>>
    BY <1>1 DEF CheckReady, sessionVars, parserVars, cipherVars
  <2>2. TodoInv' /\ Need' = Need
    BY <2>1 DEF WaitInv, TodoInv, TodoForm, EarlyForm, Need
  <2>3. WaitInv'
    BY <1>0, <1>1, <2>1, <2>2 DEF WaitInv
  <2> QED
    BY <1>0, <2>1, <2>3 DEF cipherVars
<1>2. IsSequence(Padding) /\ Len(Padding) = Need - Len(dataBuffer)
  <2> DEFINE n == Need - Len(dataBuffer)
  <2>1. n \in Nat
    BY <1>0
  <2> HIDE DEF n
  <2>2. IsSequence([i \in 1..n |-> Zero]) /\ Len([i \in 1..n |-> Zero]) = n
    BY <2>1, ConstantSequence
  <2> QED
    BY <2>2 DEF n, Padding
<1>3. CASE ~enctypeXReady /\ enctypeXData = "none"
  <2>1. Returns(dataBuffer \o Padding, FALSE)
    BY <1>0, <1>3 DEF CheckReady
  <2> QED
    BY <1>0, <1>3, <2>1, ReturnsStep
<1>4. CASE ~enctypeXReady /\ enctypeXData # "none"
  <2>1. Returns(Garbage \o Padding, TRUE)
    BY <1>0, <1>4 DEF CheckReady
  <2>2. IsSequence(Garbage) /\ Len(Garbage) = Len(dataBuffer)
    <3> DEFINE n == Len(dataBuffer)
    <3> HIDE DEF n
    <3>1. IsSequence([i \in 1..n |-> Noise]) /\ Len([i \in 1..n |-> Noise]) = n
      BY <1>0, ConstantSequence DEF n
    <3> QED
      BY <3>1 DEF n, Garbage
  <2> DEFINE data == Garbage \o Padding
  <2>3. Len(data) = Need
    <3>1. Len(data) = Len(Garbage) + Len(Padding)
      BY <1>2, <2>2, ConcatSequences
    <3> QED
      BY <1>0, <1>2, <2>2, <3>1
  <2>4. data # <<>>
    <3> HIDE DEF data
    <3> QED
      BY <1>0, <1>4, <2>3, EmptySeq
  <2> HIDE DEF data
  <2>5. Returns(data, TRUE)
    BY <2>1 DEF data
  <2> QED
    BY <1>0, <2>4, <2>5, ReturnsStep
<1> QED
  BY <1>0, <1>1, <1>3, <1>4

LEMMA DecryptStep ==
  ASSUME WaitInv, Decrypt
  PROVE  /\ WaitInv'
         /\ \/ UNCHANGED cipherVars
            \/ enctypeXData = "none" /\ enctypeXData' = "live" /\ enctypeXReady' = TRUE
         /\ pc' = "panic" => gotFatalError' /\ enctypeXData' # "none"
<1>0. /\ pc = "list" /\ waiting = "decrypt" /\ enctypeXData # "none"
      /\ Need \in Nat /\ Need >= 1
      /\ gotFatalError \/ Len(dataBuffer) = Need
  BY NeedType DEF Decrypt, WaitInv, TodoInv, Need
<1>1. dataBuffer = <<>> => gotFatalError
  BY <1>0, EmptySeq
<1>2. CASE enctypeXData = "live"
  <2>1. Returns(dataBuffer, FALSE)
    BY <1>2 DEF Decrypt
  <2> QED
    BY <1>0, <1>1, <2>1, ReturnsStep
<1>3. CASE enctypeXData # "live"
  <2>1. Returns(Garbage, TRUE)
    BY <1>3 DEF Decrypt
  <2> DEFINE n == Len(dataBuffer)
  <2>2. Garbage = <<>> => gotFatalError
    <3>1. CASE gotFatalError
      BY <3>1
    <3>2. CASE ~gotFatalError
      <4>1. n \in Nat /\ n >= 1
        BY <1>0, <3>2
      <4> HIDE DEF n
      <4>2. Len([i \in 1..n |-> Noise]) = n
        BY <4>1, ConstantSequence
      <4>3. [i \in 1..n |-> Noise] # <<>>
        BY <4>1, <4>2, EmptySeq
      <4> QED
        BY <4>3 DEF n, Garbage
    <3> QED
      BY <3>1, <3>2
  <2> DEFINE data == Garbage
  <2> HIDE DEF data
  <2>3. Returns(data, TRUE) /\ (data = <<>> => gotFatalError)
    BY <2>1, <2>2 DEF data
  <2> QED
    BY <1>0, <2>3, ReturnsStep
<1> QED
  BY <1>2, <1>3

LEMMA ReadFieldStep ==
  ASSUME WaitInv, NEW n, ReadField(n)
  PROVE  WaitInv' /\ UNCHANGED cipherVars /\ pc' = pc
<1>0. /\ Need \in Nat
      /\ Len(dataBuffer) \in Nat
      /\ IsSequence(dataBuffer)
      /\ n \in 1..(Need - Len(dataBuffer))
      /\ dataBuffer' = dataBuffer \o SubSeq(stream, 1, n)
      /\ waiting' = IF Len(dataBuffer') = Need THEN "check" ELSE "read"
      /\ UNCHANGED <<pc, todo, fields, enctypeXReady, enctypeXData, gotFatalError>>
  <2>1. Len(dataBuffer) \in Nat
    BY LenProperties DEF WaitInv, IsSequence
  <2>2. Need \in Nat
    BY NeedType DEF WaitInv, TodoInv, Need
  <2>3. n \in 1..(Need - Len(dataBuffer)) /\ dataBuffer' = dataBuffer \o SubSeq(stream, 1, n)
    BY DEF ReadField, Reads, Chunk
  <2>4. /\ waiting' = IF Len(dataBuffer') = Need THEN "check" ELSE "read"
        /\ UNCHANGED <<pc, todo, fields, enctypeXReady, enctypeXData, gotFatalError>>
    BY DEF ReadField, parserVars, cipherVars
  <2> QED
    BY <2>1, <2>2, <2>3, <2>4 DEF WaitInv
<1>1. n \in Nat /\ n <= Need - Len(dataBuffer)
  BY <1>0
<1> DEFINE chunk == SubSeq(stream, 1, n)
<1>2. IsSequence(chunk) /\ Len(chunk) = n
  BY <1>1, ChunkSequence
<1> HIDE DEF chunk
<1>3. IsSequence(dataBuffer \o chunk) /\ Len(dataBuffer \o chunk) = Len(dataBuffer) + Len(chunk)
  BY <1>0, <1>2, ConcatSequences
<1>4. IsSequence(dataBuffer') /\ Len(dataBuffer') <= Need
  BY <1>0, <1>1, <1>2, <1>3 DEF chunk
<1>5. TodoInv' /\ Need' = Need
  BY <1>0 DEF WaitInv, TodoInv, TodoForm, EarlyForm, Need
<1>6. WaitInv'
  BY <1>0, <1>4, <1>5 DEF WaitInv
<1> QED
  BY <1>0, <1>6 DEF cipherVars

LEMMA ReadFieldFailsStep ==
  ASSUME WaitInv, ReadFieldFails
  PROVE  WaitInv' /\ UNCHANGED cipherVars /\ pc' = pc
<1>1. /\ gotFatalError' = TRUE /\ waiting' = "check"
      /\ UNCHANGED <<pc, todo, fields, enctypeXReady, enctypeXData, dataBuffer>>
  BY DEF ReadFieldFails, parserVars, cipherVars
<1>2. TodoInv' /\ Need' = Need
  BY <1>1 DEF WaitInv, TodoInv, TodoForm, EarlyForm, Need
<1>3. WaitInv'
  BY <1>1, <1>2 DEF WaitInv
<1> QED
  BY <1>1, <1>3 DEF cipherVars

(* The reader makes the cipher state while no caller is past the test. *)
LEMMA ReaderSparesShutdown ==
  ASSUME ShutdownInv, UNCHANGED shutdownVars,
         \/ UNCHANGED cipherVars
         \/ enctypeXData = "none" /\ enctypeXData' = "live" /\ enctypeXReady' = TRUE
  PROVE  ShutdownInv'
<1>1. UNCHANGED <<shutdownPc, together, freedTwice>>
  BY DEF shutdownVars
<1>2. \A c : Active(c)' = Active(c)
  BY <1>1 DEF Active
<1>3. CASE UNCHANGED cipherVars
  BY <1>1, <1>2, <1>3 DEF ShutdownInv, cipherVars
<1>4. CASE enctypeXData = "none" /\ enctypeXData' = "live" /\ enctypeXReady' = TRUE
  <2>1. \A c \in Callers : shutdownPc[c] \notin {"clear", "free"}
    BY <1>4 DEF ShutdownInv
  <2> QED
    BY <1>1, <1>2, <1>4, <2>1 DEF ShutdownInv
<1> QED
  BY <1>3, <1>4

(* A step of one caller of Shutdown.  While calls have not overlapped, it  *)
(* is the only one at work.                                                *)
LEMMA ShutdownStep ==
  ASSUME WaitInv, ShutdownInv, NEW c \in Callers,
         ShutdownCloses(c) \/ ShutdownTests(c) \/ ShutdownClears(c) \/ ShutdownFrees(c)
  PROVE  /\ WaitInv' /\ ShutdownInv'
         /\ UNCHANGED <<session, pc, gotFatalError>>
         /\ enctypeXData # "none" => enctypeXData' # "none"
<1>1. /\ UNCHANGED <<session, pc, gotFatalError, waiting, fields, dataBuffer, todo>>
      /\ shutdownPc' = [shutdownPc EXCEPT ![c] = shutdownPc'[c]]
      /\ c \in DOMAIN shutdownPc
  <2>1. UNCHANGED <<session, pc, gotFatalError, waiting, fields, dataBuffer, todo>>
    BY DEF ShutdownCloses, ShutdownTests, ShutdownClears, ShutdownFrees, notShutdown, parserVars
  <2>2. c \in DOMAIN shutdownPc
    BY DEF ShutdownInv
  <2>3. \E x : shutdownPc' = [shutdownPc EXCEPT ![c] = x]
    BY DEF ShutdownCloses, ShutdownTests, ShutdownClears, ShutdownFrees, Steps
  <2> QED
    BY <2>1, <2>2, <2>3
<1>2. /\ \A d \in Callers : d # c => shutdownPc'[d] = shutdownPc[d] /\ (Active(d)' <=> Active(d))
      /\ Active(c)' <=> shutdownPc'[c] \notin {"idle", "done"}
  BY <1>1 DEF ShutdownInv, Active
<1>3. CASE ShutdownCloses(c)
  <2>1. /\ shutdownPc[c] = "idle" /\ shutdownPc'[c] = "test"
        /\ together' = (together \/ \E d \in Callers \ {c} : Active(d))
        /\ UNCHANGED <<enctypeXReady, enctypeXData, freedTwice>>
    BY <1>1, <1>3 DEF ShutdownCloses, Steps, cipherVars, Active
  <2>2. shutdownPc' \in [Callers -> {"idle", "test", "clear", "free", "done"}]
    BY <1>1, <2>1 DEF ShutdownInv
  <2>3. ShutdownInv'
    BY <1>2, <2>1, <2>2 DEF ShutdownInv
  <2> QED
    BY <1>1, <2>1, <2>3, WaitUnchanged
<1>4. CASE ShutdownTests(c)
  <2>1. /\ shutdownPc[c] = "test"
        /\ shutdownPc'[c] = IF enctypeXReady THEN "clear" ELSE "done"
        /\ UNCHANGED <<enctypeXReady, enctypeXData, together, freedTwice>>
    BY <1>1, <1>4 DEF ShutdownTests, Steps, cipherVars
  <2>2. shutdownPc' \in [Callers -> {"idle", "test", "clear", "free", "done"}]
    BY <1>1, <2>1 DEF ShutdownInv
  <2>3. Active(c)
    BY <2>1 DEF Active
  <2>4. ShutdownInv'
    BY <1>2, <2>1, <2>2, <2>3 DEF ShutdownInv, WaitInv
  <2> QED
    BY <1>1, <2>1, <2>4, WaitUnchanged
<1>5. CASE ShutdownClears(c)
  <2>1. /\ shutdownPc[c] = "clear" /\ shutdownPc'[c] = "free"
        /\ enctypeXReady' = FALSE
        /\ UNCHANGED <<enctypeXData, together, freedTwice>>
    BY <1>1, <1>5 DEF ShutdownClears, Steps
  <2>2. shutdownPc' \in [Callers -> {"idle", "test", "clear", "free", "done"}]
    BY <1>1, <2>1 DEF ShutdownInv
  <2>3. Active(c)
    BY <2>1 DEF Active
  <2>4. ShutdownInv'
    BY <1>2, <2>1, <2>2, <2>3 DEF ShutdownInv
  <2>5. TodoInv' /\ Need' = Need
    BY <1>1, <2>1 DEF WaitInv, TodoInv, TodoForm, EarlyForm, Need
  <2>6. WaitInv'
    BY <1>1, <2>1, <2>5 DEF WaitInv
  <2> QED
    BY <1>1, <2>1, <2>4, <2>6
<1>6. CASE ShutdownFrees(c)
  <2>1. /\ shutdownPc[c] = "free" /\ shutdownPc'[c] = "done"
        /\ enctypeXData' = "freed"
        /\ freedTwice' = (freedTwice \/ enctypeXData = "freed")
        /\ UNCHANGED <<enctypeXReady, together>>
    BY <1>1, <1>6 DEF ShutdownFrees, Steps
  <2>2. shutdownPc' \in [Callers -> {"idle", "test", "clear", "free", "done"}]
    BY <1>1, <2>1 DEF ShutdownInv
  <2>3. Active(c) /\ enctypeXData # "none"
    BY <2>1 DEF Active, ShutdownInv
  <2>4. ~together => \A d \in Callers : d # c => ~Active(d)
    BY <2>3 DEF ShutdownInv
  <2>5. \A d \in Callers : ~Active(d) => shutdownPc[d] \notin {"clear", "free"}
    BY DEF Active
  <2>6. ShutdownInv'
    BY <1>2, <2>1, <2>2, <2>3, <2>4, <2>5 DEF ShutdownInv
  <2>7. TodoInv' /\ Need' = Need
    BY <1>1, <2>1, <2>3 DEF WaitInv, TodoInv, TodoForm, Need
  <2>8. WaitInv'
    BY <1>1, <2>1, <2>3, <2>7 DEF WaitInv
  <2> QED
    BY <1>1, <2>1, <2>6, <2>8
<1> QED
  BY <1>3, <1>4, <1>5, <1>6

(* One step of an SBV2 session. *)
LEMMA SBV2Step ==
  ASSUME WaitInv, ShutdownInv, SBV2Panics, SBV2Next, session.kind = "sbv2"
  PROVE  WaitInv' /\ ShutdownInv' /\ SBV2Panics'
<1>1. CASE WriteListRequest
  <2>1. /\ pc' = "list"
        /\ UNCHANGED <<enctypeXData, enctypeXReady, gotFatalError, waiting, fields, dataBuffer,
                       todo, shutdownVars>>
    BY <1>1 DEF WriteListRequest, sbv2Vars, parserVars, cipherVars
  <2>2. WaitInv'
    BY <2>1, WaitUnchanged
  <2>3. ShutdownInv'
    BY <2>1, ReaderSparesShutdown DEF cipherVars
  <2> QED
    BY <2>1, <2>2, <2>3 DEF SBV2Panics
<1>2. CASE RequestFails
  <2>1. /\ pc' = "done"
        /\ UNCHANGED <<enctypeXData, enctypeXReady, gotFatalError, waiting, fields, dataBuffer,
                       todo, shutdownVars>>
    BY <1>2 DEF RequestFails, sbv2Vars, parserVars, cipherVars
  <2>2. WaitInv'
    BY <2>1, WaitUnchanged
  <2>3. ShutdownInv'
    BY <2>1, ReaderSparesShutdown DEF cipherVars
  <2> QED
    BY <2>1, <2>2, <2>3 DEF SBV2Panics
<1>3. CASE \E n \in 1..Len(stream) : ReadField(n)
  <2>1. PICK n : ReadField(n)
    BY <1>3
  <2>2. pc = "list" /\ UNCHANGED shutdownVars
    BY <2>1 DEF ReadField
  <2>3. WaitInv' /\ UNCHANGED cipherVars /\ pc' = pc
    BY <2>1, ReadFieldStep
  <2>4. ShutdownInv'
    BY <2>2, <2>3, ReaderSparesShutdown
  <2> QED
    BY <2>2, <2>3, <2>4 DEF SBV2Panics
<1>4. CASE ReadFieldFails
  <2>1. pc = "list" /\ UNCHANGED shutdownVars
    BY <1>4 DEF ReadFieldFails
  <2>2. WaitInv' /\ UNCHANGED cipherVars /\ pc' = pc
    BY <1>4, ReadFieldFailsStep
  <2>3. ShutdownInv'
    BY <2>1, <2>2, ReaderSparesShutdown
  <2> QED
    BY <2>1, <2>2, <2>3 DEF SBV2Panics
<1>5. CASE CheckReady
  <2>1. UNCHANGED shutdownVars
    BY <1>5 DEF CheckReady, Returns
  <2>2. /\ WaitInv'
        /\ \/ UNCHANGED cipherVars
           \/ enctypeXData = "none" /\ enctypeXData' = "live" /\ enctypeXReady' = TRUE
        /\ pc' = "panic" => gotFatalError' /\ enctypeXData' # "none"
    BY <1>5, CheckReadyStep
  <2>3. ShutdownInv'
    BY <2>1, <2>2, ReaderSparesShutdown
  <2> QED
    BY <2>2, <2>3 DEF SBV2Panics
<1>6. CASE Decrypt
  <2>1. UNCHANGED shutdownVars
    BY <1>6 DEF Decrypt, Returns
  <2>2. /\ WaitInv'
        /\ \/ UNCHANGED cipherVars
           \/ enctypeXData = "none" /\ enctypeXData' = "live" /\ enctypeXReady' = TRUE
        /\ pc' = "panic" => gotFatalError' /\ enctypeXData' # "none"
    BY <1>6, DecryptStep
  <2>3. ShutdownInv'
    BY <2>1, <2>2, ReaderSparesShutdown
  <2> QED
    BY <2>2, <2>3 DEF SBV2Panics
<1>7. CASE \E c \in Callers :
             ShutdownCloses(c) \/ ShutdownTests(c) \/ ShutdownClears(c) \/ ShutdownFrees(c)
  BY <1>7, ShutdownStep DEF SBV2Panics
<1> QED
  BY <1>1, <1>2, <1>3, <1>4, <1>5, <1>6, <1>7 DEF SBV2Next, SBV2Works, SBV2Fails

LEMMA SBV2Untouched ==
  ASSUME WaitInv, ShutdownInv, UNCHANGED sbv2Vars
  PROVE  WaitInv' /\ ShutdownInv'
<1>1. UNCHANGED <<enctypeXData, enctypeXReady, gotFatalError, waiting, fields, dataBuffer, todo,
                  shutdownVars>>
  BY DEF sbv2Vars, parserVars, cipherVars
<1>2. WaitInv'
  BY <1>1, WaitUnchanged
<1>3. ShutdownInv'
  BY <1>1, ReaderSparesShutdown DEF cipherVars
<1> QED
  BY <1>2, <1>3

(* No session turns into another. *)
LEMMA SessionStays ==
  ASSUME ListSessionsNext \/ UNCHANGED vars
  PROVE  session' = session
<1>1. CASE MasterCloses
  BY <1>1 DEF MasterCloses
<1>2. CASE ReaderNext
  BY <1>2 DEF ReaderNext, Authenticate, ChallengePanics, ReadText, ReadRecord, Handles, HandlePiece,
              EntryPanics, KeepPiece, HandleTail, TextEnds, RecordsEnd, Fails, AuthenticateFails, TextReadFails,
              RecordReadFails, ReadFails, ReadErr, CloseConnection
<1>3. CASE SBV2Next
  BY <1>3 DEF SBV2Next, WriteListRequest, ReadField, SBV2Works, CheckReady, Decrypt, Returns,
              SBV2Fails, RequestFails, ReadFieldFails, ReadErr, ShutdownCloses, ShutdownTests,
              ShutdownClears, ShutdownFrees, notShutdown, sessionVars
<1>4. CASE UTMSNext
  BY <1>4 DEF UTMSNext, ReadLength, ReadData, WaitFails, ReadErr, CloseConnection
<1>5. CASE UNCHANGED vars
  BY <1>5 DEF vars, sessionVars
<1> QED
  BY <1>1, <1>2, <1>3, <1>4, <1>5 DEF ListSessionsNext, Ended

LEMMA CipherStep ==
  ASSUME WaitInv, ShutdownInv, SBV2Panics, ListSessionsNext \/ UNCHANGED vars
  PROVE  WaitInv' /\ ShutdownInv' /\ SBV2Panics'
<1>1. CASE session.kind = "sbv2" /\ SBV2Next
  BY <1>1, SBV2Step
<1>2. CASE session.kind # "sbv2" /\ UNCHANGED sbv2Vars
  BY <1>2, SBV2Untouched, SessionStays DEF SBV2Panics
<1>3. CASE MasterCloses /\ UNCHANGED sbv2Vars
  <2>1. pc' = pc /\ pc # "panic"
    BY <1>3 DEF MasterCloses, over
  <2> QED
    BY <1>3, <2>1, SBV2Untouched DEF SBV2Panics
<1>4. CASE UNCHANGED vars
  <2>1. UNCHANGED <<sbv2Vars, session, pc>>
    BY <1>4 DEF vars, sessionVars
  <2>2. UNCHANGED <<gotFatalError, enctypeXData>>
    BY <2>1 DEF sbv2Vars, cipherVars
  <2> QED
    BY <2>1, <2>2, SBV2Untouched DEF SBV2Panics
<1> QED
  BY <1>1, <1>2, <1>3, <1>4 DEF ListSessionsNext, Ended

(* FreedOnce: the flag keeps Shutdown from freeing the cipher state twice  *)
(* as long as its two calls do not overlap, whatever the reader, the       *)
(* network and the master server do, and whatever the list is.             *)
THEOREM SessionFreedOnce ==
  ListSessionsSpec => []FreedOnce
<1> DEFINE Inv == WaitInv /\ ShutdownInv /\ SBV2Panics
<1>1. ListSessionsInit => Inv
  <2> SUFFICES ASSUME ListSessionsInit PROVE Inv
    OBVIOUS
  <2>1. WaitInv /\ ShutdownInv
    BY WaitInit DEF ListSessionsInit
  <2>2. session.kind = "sbv2" => pc = "request"
    BY DEF ListSessionsInit, SessionInit
  <2> QED
    BY <2>1, <2>2 DEF SBV2Panics
<1>2. Inv /\ [ListSessionsNext]_vars => Inv'
  BY CipherStep
<1>3. Inv => FreedOnce
  BY DEF ShutdownInv, FreedOnce
<1> QED
  BY <1>1, <1>2, <1>3, PTL DEF ListSessionsSpec

-----------------------------------------------------------------------------
(* UTMS: what is on the stream. *)

StartOf(s, q) ==
  /\ IsSequence(s) /\ IsSequence(q)
  /\ Len(s) <= Len(q)
  /\ \A i \in 1..Len(s) : s[i] = q[i]

LEMMA EmptyStart ==
  ASSUME NEW q, IsSequence(q)
  PROVE  StartOf(<<>>, q)
BY EmptySequence, LenProperties DEF StartOf, IsSequence

LEMMA WholeStart ==
  ASSUME NEW q, IsSequence(q)
  PROVE  StartOf(q, q)
BY LenProperties DEF StartOf, IsSequence

LEMMA StartOfEmpty ==
  ASSUME NEW s, StartOf(s, <<>>)
  PROVE  s = <<>>
<1>1. Len(s) = 0 /\ s \in Seq(ToSet(s))
  BY EmptySequence, LenProperties DEF StartOf, IsSequence
<1> QED
  BY <1>1, EmptySeq

(* The master server hangs up: a part of what was to come. *)
LEMMA StartCut ==
  ASSUME NEW s, NEW q, StartOf(s, q), NEW n \in 0..Len(s)
  PROVE  StartOf(SubSeq(s, 1, n), q)
<1> DEFINE c == SubSeq(s, 1, n)
           S == ToSet(s)
<1>1. s \in Seq(S) /\ Len(s) \in Nat /\ n \in Nat /\ n <= Len(s)
  BY LenProperties DEF StartOf, IsSequence
<1>2. IsSequence(c) /\ Len(c) = n
  BY <1>1, ChunkSequence
<1>3. \A i \in 1..n : c[i] = s[i]
  <2>1. \A i \in 1..n : s[i] \in S
    BY <1>1, ElementOfSeq
  <2> HIDE DEF S
  <2>2. \A i \in 1..n - 1 + 1 : c[i] = s[1 + i - 1]
    BY <1>1, <2>1, SubSeqProperties
  <2> HIDE DEF c
  <2> QED
    BY <1>1, <2>2
<1> HIDE DEF c
<1>4. Len(q) \in Nat
  BY LenProperties DEF StartOf, IsSequence
<1> QED
  BY <1>1, <1>2, <1>3, <1>4 DEF StartOf, c

(* One Read of a message p that is followed by a. *)
LEMMA StartRead ==
  ASSUME NEW got, NEW s, NEW p, NEW a,
         IsSequence(got), IsSequence(s), IsSequence(p), IsSequence(a),
         StartOf(got \o s, p \o a),
         NEW n \in Nat, n <= Len(s), Len(got) + n <= Len(p)
  PROVE  /\ IsSequence(got \o SubSeq(s, 1, n))
         /\ IsSequence(SubSeq(s, n + 1, Len(s)))
         /\ Len(got \o SubSeq(s, 1, n)) = Len(got) + n
         /\ StartOf((got \o SubSeq(s, 1, n)) \o SubSeq(s, n + 1, Len(s)), p \o a)
         /\ Len(got \o SubSeq(s, 1, n)) = Len(p) =>
              got \o SubSeq(s, 1, n) = p /\ StartOf(SubSeq(s, n + 1, Len(s)), a)
<1> DEFINE chunk == SubSeq(s, 1, n)
           rest == SubSeq(s, n + 1, Len(s))
           now == got \o chunk
<1>1. /\ Len(got) \in Nat /\ Len(s) \in Nat /\ Len(p) \in Nat /\ Len(a) \in Nat
      /\ n \in 0..Len(s)
  BY LenProperties DEF IsSequence
<1>2. StartOf(chunk, s)
  BY <1>1, StartCut, WholeStart
<1>3. Len(chunk) = n
  BY ChunkSequence
<1>4. /\ IsSequence(rest) /\ Len(rest) = Len(s) - n
      /\ \A i \in 1..Len(s) - n : rest[i] = s[n + i]
  BY <1>1, RemainingSequence
<1>5. IsSequence(chunk) /\ \A i \in 1..n : chunk[i] = s[i]
  BY <1>2, <1>3 DEF StartOf
<1> HIDE DEF chunk, rest
<1>6. /\ IsSequence(now) /\ Len(now) = Len(got) + n
      /\ \A i \in 1..Len(got) + n : now[i] = IF i <= Len(got) THEN got[i] ELSE chunk[i - Len(got)]
  BY <1>3, <1>5, ConcatSequences
<1> HIDE DEF now
<1>7. /\ IsSequence(now \o rest) /\ Len(now \o rest) = Len(got) + Len(s)
      /\ \A i \in 1..Len(got) + Len(s) :
           (now \o rest)[i] = IF i <= Len(got) + n THEN now[i] ELSE rest[i - (Len(got) + n)]
  <2>1. /\ IsSequence(now \o rest) /\ Len(now \o rest) = Len(now) + Len(rest)
        /\ \A i \in 1..Len(now) + Len(rest) :
             (now \o rest)[i] = IF i <= Len(now) THEN now[i] ELSE rest[i - Len(now)]
    BY <1>4, <1>6, ConcatSequences
  <2>2. Len(now) + Len(rest) = Len(got) + Len(s)
    BY <1>1, <1>4, <1>6
  <2> QED
    BY <1>6, <2>1, <2>2
<1>8. /\ IsSequence(got \o s) /\ Len(got \o s) = Len(got) + Len(s)
      /\ \A i \in 1..Len(got) + Len(s) :
           (got \o s)[i] = IF i <= Len(got) THEN got[i] ELSE s[i - Len(got)]
  BY ConcatSequences
<1>9. now \o rest = got \o s
  <2>1. ASSUME NEW i \in 1..Len(got) + Len(s)
        PROVE  (now \o rest)[i] = (got \o s)[i]
    <3>1. CASE i <= Len(got)
      <4>1. i <= Len(got) + n /\ i \in 1..Len(got) + n
        BY <1>1, <3>1
      <4> QED
        BY <1>6, <1>7, <1>8, <3>1, <4>1
    <3>2. CASE i > Len(got) /\ i <= Len(got) + n
      <4>1. i \in 1..Len(got) + n /\ i - Len(got) \in 1..n /\ ~(i <= Len(got))
        BY <1>1, <3>2
      <4> QED
        BY <1>5, <1>6, <1>7, <1>8, <3>2, <4>1
    <3>3. CASE i > Len(got) + n
      <4>1. /\ i - (Len(got) + n) \in 1..Len(s) - n /\ ~(i <= Len(got)) /\ ~(i <= Len(got) + n)
            /\ n + (i - (Len(got) + n)) = i - Len(got)
        BY <1>1, <3>3
      <4> QED
        BY <1>4, <1>7, <1>8, <4>1
    <3>4. i <= Len(got) \/ (i > Len(got) /\ i <= Len(got) + n) \/ i > Len(got) + n
      <4>1. i \in Int
        BY <1>1
      <4> QED
        BY <1>1, <4>1
    <3> QED
      BY <3>1, <3>2, <3>3, <3>4, Zenon
  <2> QED
    BY <1>7, <1>8, <2>1, SequencesEqual
<1>10. /\ IsSequence(p \o a) /\ Len(p \o a) = Len(p) + Len(a)
       /\ \A i \in 1..Len(p) + Len(a) :
            (p \o a)[i] = IF i <= Len(p) THEN p[i] ELSE a[i - Len(p)]
  BY ConcatSequences
<1>11. ASSUME Len(now) = Len(p)
       PROVE  now = p /\ StartOf(rest, a)
  <2>0. /\ Len(p) = Len(got) + n
        /\ Len(got) + Len(s) <= Len(p) + Len(a)
        /\ \A i \in 1..Len(got) + Len(s) : (now \o rest)[i] = (p \o a)[i]
    BY <1>6, <1>8, <1>9, <1>10, <1>11 DEF StartOf
  <2>1. ASSUME NEW i \in 1..Len(p)
        PROVE  now[i] = p[i]
    <3>1. i \in 1..Len(got) + Len(s) /\ i <= Len(got) + n /\ i <= Len(p) /\ i \in 1..Len(p) + Len(a)
      BY <1>1, <2>0
    <3> QED
      BY <1>7, <1>10, <2>0, <3>1
  <2>2. now = p
    BY <1>6, <1>11, <2>1, SequencesEqual
  <2>3. ASSUME NEW i \in 1..Len(rest)
        PROVE  rest[i] = a[i]
    <3> DEFINE j == Len(p) + i
    <3>1. /\ j \in 1..Len(got) + Len(s) /\ ~(j <= Len(got) + n) /\ j - (Len(got) + n) = i
          /\ j \in 1..Len(p) + Len(a) /\ ~(j <= Len(p)) /\ j - Len(p) = i
      BY <1>1, <1>4, <2>0
    <3> HIDE DEF j
    <3>2. (now \o rest)[j] = rest[i]
      BY <1>7, <3>1
    <3>3. (p \o a)[j] = a[i]
      BY <1>10, <3>1
    <3> QED
      BY <2>0, <3>1, <3>2, <3>3
  <2>4. Len(rest) <= Len(a)
    BY <1>1, <1>4, <2>0
  <2> QED
    BY <1>4, <2>2, <2>3, <2>4 DEF StartOf
<1> QED
  BY <1>4, <1>6, <1>9, <1>11 DEF now, rest, chunk

LEMMA NumeralValue ==
  ASSUME NEW n \in 0..9
  PROVE  Value(Numerals[n + 1]) = n
<1> DEFINE c == Numerals[n + 1]
           N(m) == Numerals[m + 1] = c
<1>1. DOMAIN Numerals = 1..10
  BY DEF Numerals
<1>2. \A i, j \in 1..10 : Numerals[i] = Numerals[j] => i = j
  BY DEF Numerals, Zero
<1>3. n + 1 \in 1..10
  OBVIOUS
<1>4. c \in ToSet(Numerals)
  BY <1>1, <1>3 DEF ToSet
<1>5. \A m \in 0..9 : N(m) => m = n
  BY <1>2, <1>3
<1>6. N(n)
  OBVIOUS
<1>7. Value(c) = CHOOSE m \in 0..9 : N(m)
  BY <1>4 DEF Value
<1> HIDE DEF N, c
<1>8. (CHOOSE m \in 0..9 : N(m)) = n
  BY <1>5, <1>6, Zenon
<1> QED
  BY <1>7, <1>8 DEF c

LEMMA NumberFacts ==
  ASSUME NEW n \in 0..9
  PROVE  /\ IsSequence(Number(n)) /\ Len(Number(n)) = 2
         /\ LittleEndian(Number(n)[1], Number(n)[2]) = n
<1> DEFINE c == Numerals[n + 1]
<1>1. Value(c) = n
  BY NumeralValue
<1>2. Value(Zero) = 0
  <2>1. Numerals[0 + 1] = Zero /\ 0 \in 0..9
    BY DEF Numerals
  <2> QED
    BY <2>1, NumeralValue
<1> HIDE DEF c
<1>3. <<c, Zero>> \in Seq({c, Zero}) /\ Len(<<c, Zero>>) = 2 /\ <<c, Zero>>[1] = c
      /\ <<c, Zero>>[2] = Zero
  OBVIOUS
<1>4. Number(n) = <<c, Zero>>
  BY DEF Number, c
<1>5. LittleEndian(c, Zero) = n
  <2>1. LittleEndian(c, Zero) = n + 10 * 0
    BY <1>1, <1>2 DEF LittleEndian
  <2> QED
    BY <2>1
<1>6. IsSequence(<<c, Zero>>)
  BY <1>3, SequenceOf
<1> QED
  BY <1>3, <1>4, <1>5, <1>6

LEMMA MessageSequence ==
  ASSUME NEW p, IsSequence(p), Len(p) \in 0..9
  PROVE  IsSequence(Message(p)) /\ Message(p) = Number(Len(p)) \o p
BY NumberFacts, ConcatSequences DEF Message

LEMMA StartReadWhole ==
  ASSUME NEW s, NEW p, NEW a, IsSequence(p), IsSequence(a), StartOf(s, p \o a),
         NEW n, n = Len(p), n <= Len(s)
  PROVE  SubSeq(s, 1, n) = p /\ StartOf(SubSeq(s, n + 1, Len(s)), a)
<1>1. PICK none : none = <<>>
  OBVIOUS
<1>2. IsSequence(none) /\ Len(none) = 0 /\ IsSequence(s) /\ n \in Nat
  BY <1>1, EmptySequence, LenProperties DEF StartOf, IsSequence
<1>3. none \o s = s
  BY <1>1, <1>2, EmptyConcat
<1>4. IsSequence(SubSeq(s, 1, n)) /\ Len(SubSeq(s, 1, n)) = n
  BY <1>2, ChunkSequence
<1>5. none \o SubSeq(s, 1, n) = SubSeq(s, 1, n)
  BY <1>1, <1>4, EmptyConcat
<1>6. StartOf(none \o s, p \o a) /\ Len(none) + n <= Len(p) /\ Len(none) + n = Len(p)
  BY <1>2, <1>3
<1>7. /\ IsSequence(none) /\ IsSequence(s) /\ IsSequence(p) /\ IsSequence(a)
      /\ StartOf(none \o s, p \o a)
      /\ n \in Nat /\ n <= Len(s) /\ Len(none) + n <= Len(p)
  BY <1>2, <1>6
<1>8. /\ Len(none \o SubSeq(s, 1, n)) = Len(none) + n
      /\ Len(none \o SubSeq(s, 1, n)) = Len(p) =>
           none \o SubSeq(s, 1, n) = p /\ StartOf(SubSeq(s, n + 1, Len(s)), a)
  BY ONLY <1>7, StartRead
<1> QED
  BY <1>5, <1>6, <1>8

(* A length that is read whole is that of the message that follows. *)
LEMMA StartLength ==
  ASSUME NEW s, NEW p, NEW a, IsSequence(p), IsSequence(a), Len(p) \in 0..9,
         StartOf(s, Message(p) \o a), 2 <= Len(s)
  PROVE  /\ LittleEndian(s[1], s[2]) = Len(p)
         /\ StartOf(SubSeq(s, 2 + 1, Len(s)), p \o a)
<1> DEFINE num == Number(Len(p))
           pa == p \o a
<1>1. IsSequence(num) /\ Len(num) = 2 /\ LittleEndian(num[1], num[2]) = Len(p)
  BY NumberFacts
<1>2. IsSequence(pa)
  BY ConcatSequences
<1>3. Message(p) \o a = num \o pa
  <2>1. Message(p) = num \o p
    BY MessageSequence
  <2> HIDE DEF num, pa
  <2>2. (num \o p) \o a = num \o (p \o a)
    BY <1>1, ConcatRegroups
  <2> QED
    BY <2>1, <2>2 DEF pa
<1>4. IsSequence(s)
  BY DEF StartOf
<1> HIDE DEF num, pa
<1> DEFINE two == 2
<1>5. two = Len(num) /\ two <= Len(s)
  BY <1>1
<1> HIDE DEF two
<1>6. StartOf(s, num \o pa)
  BY <1>3
<1>7. StartOf(SubSeq(s, two + 1, Len(s)), pa)
  BY <1>1, <1>2, <1>5, <1>6, StartReadWhole
<1>9. s[1] = num[1] /\ s[2] = num[2]
  <2>1. IsSequence(num \o pa) /\ \A i \in 1..Len(num) + Len(pa) :
          (num \o pa)[i] = IF i <= Len(num) THEN num[i] ELSE pa[i - Len(num)]
    BY <1>1, <1>2, ConcatSequences
  <2>2. s[1] = (num \o pa)[1] /\ s[2] = (num \o pa)[2]
    <3>1. Len(s) \in Nat
      BY <1>4, LenProperties DEF IsSequence
    <3> QED
      BY <1>3, <3>1 DEF StartOf
  <2>3. Len(pa) \in Nat
    BY <1>2, LenProperties DEF IsSequence
  <2>4. 1 \in 1..Len(num) + Len(pa) /\ 2 \in 1..Len(num) + Len(pa) /\ 1 <= Len(num) /\ 2 <= Len(num)
    BY <1>1, <2>3
  <2>5. (num \o pa)[1] = num[1] /\ (num \o pa)[2] = num[2]
    BY <2>1, <2>4
  <2> QED
    BY <2>2, <2>5
<1> QED
  BY <1>1, <1>7, <1>9 DEF two, pa

(* The payloads of the messages, each long enough for its handler. *)
LEMMA CompactFacts ==
  ASSUME NEW c, NEW b, b = CompactString(<<c>>)
  PROVE  IsSequence(b) /\ Len(b) = 3 /\ HasCompactString(b)
<1>1. PICK x : x = Numerals[2 + 1]
  OBVIOUS
<1>2. Value(x) = 2
  BY <1>1, NumeralValue
<1>3. PICK z : z = Zero
  OBVIOUS
<1>4. b = (<<x>> \o <<c>>) \o <<z>>
  <2>1. Len(<<c>>) + 2 = 2 + 1
    OBVIOUS
  <2> QED
    BY <1>1, <1>3, <2>1 DEF CompactString
<1>5. PICK xs, cs, zs : xs = <<x>> /\ cs = <<c>> /\ zs = <<z>>
  OBVIOUS
<1>6. /\ xs \in Seq({x}) /\ Len(xs) = 1 /\ xs[1] = x
      /\ cs \in Seq({c}) /\ Len(cs) = 1
      /\ zs \in Seq({z}) /\ Len(zs) = 1
  BY <1>5
<1>7. IsSequence(xs) /\ IsSequence(cs) /\ IsSequence(zs)
  BY <1>6, SequenceOf
<1>8. IsSequence(b) /\ Len(b) = 3 /\ b[1] = x
  <2>1. PICK xc : xc = xs \o cs
    OBVIOUS
  <2>2. /\ IsSequence(xc) /\ Len(xc) = 2 /\ xc[1] = x
    <3>1. /\ IsSequence(xs \o cs) /\ Len(xs \o cs) = Len(xs) + Len(cs)
          /\ \A i \in 1..Len(xs) + Len(cs) :
               (xs \o cs)[i] = IF i <= Len(xs) THEN xs[i] ELSE cs[i - Len(xs)]
      BY <1>7, ConcatSequences
    <3> QED
      BY <1>6, <2>1, <3>1
  <2>3. /\ IsSequence(xc \o zs) /\ Len(xc \o zs) = Len(xc) + Len(zs)
        /\ \A i \in 1..Len(xc) + Len(zs) :
             (xc \o zs)[i] = IF i <= Len(xc) THEN xc[i] ELSE zs[i - Len(xc)]
    BY <1>7, <2>2, ConcatSequences
  <2>4. b = xc \o zs
    BY <1>4, <1>5, <2>1
  <2>5. Len(xc) + Len(zs) = 3 /\ Len(xc) = 2
    BY <1>6, <2>2
  <2>6. IsSequence(b) /\ Len(b) = 3
    BY <2>3, <2>4, <2>5
  <2>7. b[1] = xc[1]
    <3>1. \A i \in 1..3 : b[i] = IF i <= 2 THEN xc[i] ELSE zs[i - 2]
      BY <2>3, <2>4, <2>5
    <3> QED
      BY <3>1
  <2> QED
    BY <2>2, <2>6, <2>7
<1>9. b # <<>>
  BY <1>8, EmptySequence
<1> QED
  BY <1>2, <1>8, <1>9 DEF HasCompactString

LEMMA ListPayload ==
  ASSUME NEW n
  PROVE  /\ IsSequence(Number(n) \o <<"compressed">>)
         /\ Len(Number(n) \o <<"compressed">>) = 3
<1>1. PICK x, z, q : x = Numerals[n + 1] /\ z = Zero /\ q = "compressed"
  OBVIOUS
<1>2. Number(n) = <<x, z>>
  BY <1>1 DEF Number
<1>3. /\ <<x, z>> \in Seq({x, z}) /\ Len(<<x, z>>) = 2
      /\ <<q>> \in Seq({q}) /\ Len(<<q>>) = 1
  OBVIOUS
<1>4. IsSequence(<<x, z>>) /\ IsSequence(<<q>>)
  BY <1>3, SequenceOf
<1>5. IsSequence(<<x, z>> \o <<q>>) /\ Len(<<x, z>> \o <<q>>) = 2 + 1
  BY <1>3, <1>4, ConcatSequences
<1> QED
  BY <1>1, <1>2, <1>5

LEMMA EntryFacts ==
  ASSUME NEW i \in 1..Len(Listing)
  PROVE  IsSequence(Entry(Listing[i])) /\ Len(Entry(Listing[i])) = 4
<1>1. Listing[i] \in Address /\ Len(Listing[i].port) = 2
  <2>1. Listing \in Seq(Address)
    BY ListingAssumption
  <2> QED
    BY <2>1, ElementOfSeq, ListingAssumption
<1>2. PICK h, p : h = Listing[i].host /\ p = Listing[i].port
  OBVIOUS
<1>3. p \in Seq(Digits) /\ Len(p) = 2
  BY <1>1, <1>2 DEF Address
<1>4. PICK r : r = Reverse(p)
  OBVIOUS
<1>5. r \in Seq(Digits) /\ Len(r) = 2
  <2>1. p[1] \in Digits /\ p[2] \in Digits
    BY <1>3
  <2>2. r = [k \in 1..2 |-> p[(2 - k) + 1]]
    BY <1>3, <1>4 DEF Reverse
  <2>3. \A k \in 1..2 : p[(2 - k) + 1] \in Digits
    <3> TAKE k \in 1..2
    <3>1. (2 - k) + 1 = 1 \/ (2 - k) + 1 = 2
      OBVIOUS
    <3> QED
      BY <2>1, <3>1
  <2>4. PICK m : m = 2
    OBVIOUS
  <2>5. r \in [1..m -> Digits] /\ m \in Nat
    BY <2>2, <2>3, <2>4
  <2>6. r \in Seq(Digits) /\ Len(r) = m
    BY <2>5
  <2> QED
    BY <2>4, <2>6
<1>6. PICK g : g = "game port"
  OBVIOUS
<1>7. PICK hg : hg = <<h, g>>
  OBVIOUS
<1>8. hg \in Seq({h, g}) /\ Len(hg) = 2
  BY <1>7
<1>9. IsSequence(hg) /\ IsSequence(r)
  BY <1>5, <1>8, SequenceOf
<1>10. IsSequence(hg \o r) /\ Len(hg \o r) = Len(hg) + Len(r)
  BY <1>9, ConcatSequences
<1>11. Entry(Listing[i]) = hg \o r
  BY <1>2, <1>4, <1>6, <1>7 DEF Entry
<1> QED
  BY <1>5, <1>8, <1>10, <1>11

(* The entries behind the first k. *)
EntryMessages(k) == [i \in 1..(Len(Listing) - k) |-> Message(Entry(Listing[k + i]))]
EntriesFrom(k) == FlattenSeq(EntryMessages(k))

LEMMA EntriesOver ==
  ASSUME NEW k \in Nat
  PROVE  /\ IsSequence(EntriesFrom(k))
         /\ k < Len(Listing) =>
              EntriesFrom(k) = Message(Entry(Listing[k + 1])) \o EntriesFrom(k + 1)
         /\ k >= Len(Listing) => EntriesFrom(k) = <<>>
<1> DEFINE M(i) == Message(Entry(Listing[i]))
           S == UNION {ToSet(M(i)) : i \in 1..Len(Listing)}
           n == Len(Listing)
           e == EntryMessages(k)
           f == EntryMessages(k + 1)
<1>1. n \in Nat
  BY ListingAssumption, LenProperties
<1>2. \A i \in 1..n : M(i) \in Seq(S)
  <2> TAKE i \in 1..n
  <2>1. IsSequence(M(i))
    BY EntryFacts, MessageSequence
  <2>2. M(i) \in Seq(ToSet(M(i))) /\ ToSet(M(i)) \subseteq S
    BY <2>1 DEF IsSequence
  <2> HIDE DEF S, M
  <2> QED
    BY <2>2, SeqMonotonic
<1>3. e = [i \in 1..(n - k) |-> M(k + i)] /\ f = [i \in 1..(n - (k + 1)) |-> M((k + 1) + i)]
  BY DEF EntryMessages
<1> HIDE DEF M, S, n, e, f
<1>4. CASE k < n
  <2>1. e \in [1..(n - k) -> Seq(S)] /\ n - k \in Nat
    BY <1>1, <1>2, <1>3, <1>4
  <2>2. e \in Seq(Seq(S)) /\ Len(e) = n - k
    BY <2>1
  <2>3. e # <<>>
    BY <1>1, <1>4, <2>2, EmptySeq
  <2>4. /\ Tail(e) \in Seq(Seq(S)) /\ Len(Tail(e)) = Len(e) - 1 /\ Head(e) = e[1]
        /\ \A i \in 1..Len(Tail(e)) : Tail(e)[i] = e[i + 1]
    <3>1. PICK V, es : V = Seq(S) /\ es = e
      OBVIOUS
    <3>2. es \in Seq(V) /\ es # <<>>
      BY <2>2, <2>3, <3>1
    <3>3. /\ Tail(es) \in Seq(V) /\ Len(Tail(es)) = Len(es) - 1
          /\ \A i \in 1..Len(Tail(es)) : Tail(es)[i] = es[i + 1]
      BY <3>2, HeadTailProperties
    <3>4. Head(es) = es[1]
      BY <3>2
    <3> QED
      BY <3>1, <3>3, <3>4
  <2>5. Head(e) = M(k + 1)
    BY <1>1, <1>3, <1>4, <2>4
  <2>6. f \in Seq(Seq(S)) /\ Len(f) = n - (k + 1)
    <3>1. f \in [1..(n - (k + 1)) -> Seq(S)] /\ n - (k + 1) \in Nat
      BY <1>1, <1>2, <1>3, <1>4
    <3> QED
      BY <3>1
  <2>7. Tail(e) = f
    <3>1. ASSUME NEW i \in 1..Len(Tail(e))
          PROVE  Tail(e)[i] = f[i]
      <4>1. /\ i \in 1..(n - (k + 1)) /\ i + 1 \in 1..(n - k) /\ k + (i + 1) = (k + 1) + i
        BY <1>1, <1>4, <2>2, <2>4
      <4> QED
        BY <1>3, <2>4, <4>1
    <3>2. Len(Tail(e)) = Len(f)
      BY <1>1, <2>2, <2>4, <2>6
    <3> HIDE DEF e, f
    <3> QED
      BY <2>4, <2>6, <3>1, <3>2, SeqEqual
  <2>8. FlattenSeq(e) = Head(e) \o FlattenSeq(Tail(e))
    BY <2>2, <2>3, FlattenSeqCons
  <2>9. FlattenSeq(e) \in Seq(S)
    BY <2>2, FlattenSeqType
  <2>10. IsSequence(FlattenSeq(e))
    BY <2>9, SequenceOf
  <2>11. FlattenSeq(e) = M(k + 1) \o FlattenSeq(f)
    BY <2>5, <2>7, <2>8
  <2>12. ~(k >= n)
    BY <1>1, <1>4
  <2> QED
    BY <2>10, <2>11, <2>12, Zenon DEF EntriesFrom, e, f, M, n
<1>5. CASE k >= n
  <2>1. e = <<>>
    <3>1. 1..(n - k) = {}
      BY <1>1, <1>5
    <3>2. e \in [{} -> {}]
      BY <1>3, <3>1
    <3> QED
      BY <3>2
  <2>2. FlattenSeq(e) = <<>>
    BY <2>1 DEF FlattenSeq
  <2> QED
    BY <1>1, <1>5, <2>2, EmptySequence DEF EntriesFrom, e, n
<1> QED
  BY <1>1, <1>4, <1>5

-----------------------------------------------------------------------------
(* UTMS: what is due, and that each message is handled whole. *)

(* The message that comes next, p, and what is due behind it, a. *)
UTMSExpects(p, a) ==
  \/ pc = "challenge" /\ handled = <<>> /\ p = CompactString(ChallengeText) /\ a = <<>>
  \/ pc = "validation" /\ handled = <<>> /\ p = CompactString(Approval) /\ a = <<>>
  \/ pc = "verification" /\ handled = <<>> /\ p = CompactString(<<"VERIFIED">>) /\ a = <<>>
  \/ pc = "list" /\ handled = <<>>
       /\ p = Number(Len(Listing)) \o <<"compressed">> /\ a = EntriesFrom(0)
  \/ pc = "server" /\ Len(handled) < Len(Listing)
       /\ p = Entry(Listing[Len(handled) + 1]) /\ a = EntriesFrom(Len(handled) + 1)

(* What is on the stream, and in the buffer, is the start of that. *)
UTMSHas(p, a) ==
  \/ reading = "length" /\ StartOf(stream, Message(p) \o a)
  \/ /\ reading = "data" /\ length = Len(p)
     /\ IsSequence(incoming) /\ IsSequence(stream) /\ Len(incoming) <= Len(p)
     /\ StartOf(incoming \o stream, p \o a)

UTMSExhausted ==
  pc = "server" /\ Len(handled) >= Len(Listing) /\ reading = "length" /\ stream = <<>>

UTMSAt == UTMSExhausted \/ \E p, a : UTMSExpects(p, a) /\ UTMSHas(p, a)

UTMSInv ==
  session.kind = "utms" /\ ~shortRead =>
    /\ pc # "panic"
    /\ IsSequence(handled)
    /\ over => reading = "length"
    /\ ~over => UTMSAt

LEMMA ExpectedFits ==
  ASSUME NEW p, NEW a, UTMSExpects(p, a), IsSequence(handled)
  PROVE  IsSequence(p) /\ IsSequence(a) /\ Len(p) \in 0..9 /\ Fits(p)
<1>1. \A c : /\ IsSequence(CompactString(<<c>>)) /\ Len(CompactString(<<c>>)) = 3
             /\ HasCompactString(CompactString(<<c>>))
  BY CompactFacts
<1>2. CASE pc \in {"challenge", "validation", "verification"}
  <2>1. a = <<>> /\ \E c : p = CompactString(<<c>>)
    BY <1>2 DEF UTMSExpects, Approval, ChallengeText
  <2>2. IsSequence(p) /\ Len(p) = 3 /\ HasCompactString(p)
    BY <1>1, <2>1
  <2>3. Fits(p)
    BY <1>2, <2>2 DEF Fits
  <2> QED
    BY <2>1, <2>2, <2>3, EmptySequence
<1>3. CASE pc = "list"
  <2>1. a = EntriesFrom(0) /\ p = Number(Len(Listing)) \o <<"compressed">>
    BY <1>3 DEF UTMSExpects
  <2>2. IsSequence(p) /\ Len(p) = 3 /\ IsSequence(a)
    BY <2>1, ListPayload, EntriesOver
  <2>3. Fits(p)
    BY <1>3, <2>2 DEF Fits
  <2> QED
    BY <2>2, <2>3
<1>4. CASE pc = "server"
  <2>1. /\ Len(handled) < Len(Listing) /\ p = Entry(Listing[Len(handled) + 1])
        /\ a = EntriesFrom(Len(handled) + 1)
    BY <1>4 DEF UTMSExpects
  <2>2. Len(handled) \in Nat /\ Len(Listing) \in Nat
    BY ListingAssumption, LenProperties DEF IsSequence
  <2>3. Len(handled) + 1 \in 1..Len(Listing) /\ Len(handled) + 1 \in Nat
    BY <2>1, <2>2
  <2>4. IsSequence(p) /\ Len(p) = 4 /\ IsSequence(a)
    BY <2>1, <2>3, EntryFacts, EntriesOver
  <2>5. Fits(p)
    BY <1>4, <2>4 DEF Fits
  <2> QED
    BY <2>4, <2>5
<1> QED
  BY <1>2, <1>3, <1>4 DEF UTMSExpects

(* The reply of the master server, when nothing was left of the last one. *)
LEMMA Replied ==
  ASSUME NEW q, IsSequence(q), Request(q, <<>>)
  PROVE  StartOf(stream', q)
<1>1. stream' = <<>> \/ stream' = <<>> \o q
  BY DEF Request
<1>2. <<>> \o q = q
  BY EmptyConcat
<1> QED
  BY <1>1, <1>2, EmptyStart, WholeStart

LEMMA ServersDue ==
  ASSUME NEW k \in Nat, pc' = "server", reading' = "length", Len(handled') = k,
         StartOf(stream', EntriesFrom(k))
  PROVE  UTMSAt'
<1>1. Len(Listing) \in Nat
  BY ListingAssumption, LenProperties
<1>2. CASE k >= Len(Listing)
  <2>1. EntriesFrom(k) = <<>>
    BY <1>2, EntriesOver
  <2>2. stream' = <<>>
    BY <2>1, StartOfEmpty
  <2> QED
    BY <1>2, <2>2 DEF UTMSAt, UTMSExhausted
<1>3. CASE k < Len(Listing)
  <2>1. PICK p, a : p = Entry(Listing[k + 1]) /\ a = EntriesFrom(k + 1)
    OBVIOUS
  <2>2. EntriesFrom(k) = Message(p) \o a
    BY <1>3, <2>1, EntriesOver
  <2>3. UTMSExpects(p, a)'
    BY <1>3, <2>1 DEF UTMSExpects
  <2>4. UTMSHas(p, a)'
    BY <2>2 DEF UTMSHas
  <2> QED
    BY <2>3, <2>4 DEF UTMSAt
<1> QED
  BY <1>1, <1>2, <1>3

LEMMA ServerListDue ==
  ServerList = Message(Number(Len(Listing)) \o <<"compressed">>) \o EntriesFrom(0)
<1> DEFINE e == [i \in 1..Len(Listing) |-> Message(Entry(Listing[i]))]
           f == EntryMessages(0)
<1>1. Len(Listing) \in Nat
  BY ListingAssumption, LenProperties
<1>2. Len(Listing) - 0 = Len(Listing) /\ \A i \in 1..Len(Listing) : 0 + i = i
  BY <1>1
<1>3. e = f
  BY <1>2 DEF EntryMessages
<1> QED
  BY <1>3, Zenon DEF ServerList, EntriesFrom

(* The session behind a message that was read whole. *)
LEMMA MessageHandled ==
  ASSUME NEW p, NEW a, NEW rest, UTMSExpects(p, a), IsSequence(handled), StartOf(rest, a),
         OnMessage(p, rest), reading' = "length", session' = session
  PROVE  /\ pc' # "panic" /\ IsSequence(handled')
         /\ ~over' => UTMSAt'
<1>1. IsSequence(p) /\ IsSequence(a) /\ Fits(p)
  BY ExpectedFits
<1>2. ASSUME NEW q, IsSequence(q), Len(q) \in 0..9, rest = <<>>,
             Request(Message(q), rest), UTMSExpects(q, <<>>)'
      PROVE  UTMSAt'
  <2>1. PICK none : none = <<>>
    OBVIOUS
  <2>2. IsSequence(Message(q))
    BY <1>2, MessageSequence
  <2>3. StartOf(stream', Message(q))
    BY <1>2, <2>2, Replied
  <2>4. Message(q) \o none = Message(q)
    BY <2>1, <2>2, EmptyConcat
  <2>5. UTMSHas(q, none)'
    BY <2>3, <2>4 DEF UTMSHas
  <2> QED
    BY <1>2, <2>1, <2>5 DEF UTMSAt
<1>3. ASSUME SendListRequest(rest), handled = <<>>, rest = <<>>
      PROVE  UTMSAt'
  <2>1. PICK q, b : q = Number(Len(Listing)) \o <<"compressed">> /\ b = EntriesFrom(0)
    OBVIOUS
  <2>2. IsSequence(q) /\ Len(q) \in 0..9 /\ IsSequence(b)
    BY <2>1, ListPayload, EntriesOver
  <2>3. IsSequence(Message(q) \o b)
    BY <2>2, MessageSequence, ConcatSequences
  <2>4. ServerList = Message(q) \o b
    BY <2>1, ServerListDue
  <2>5. StartOf(stream', Message(q) \o b)
    BY <1>3, <2>3, <2>4, Replied DEF SendListRequest
  <2>6. UTMSExpects(q, b)' /\ UTMSHas(q, b)'
    BY <1>3, <2>1, <2>5 DEF SendListRequest, UTMSExpects, UTMSHas
  <2> QED
    BY <2>6 DEF UTMSAt
<1>4. pc \in {"challenge", "validation", "verification"} => a = <<>> /\ rest = <<>> /\ handled = <<>>
  BY StartOfEmpty DEF UTMSExpects
<1>5. CASE pc = "challenge" /\ OnChallenge(p, rest)
  <2>1. PICK q : q = CompactString(Approval)
    OBVIOUS
  <2>2. IsSequence(q) /\ Len(q) \in 0..9
    BY <2>1, CompactFacts DEF Approval
  <2>3. pc' = "validation" /\ handled' = handled /\ Request(Message(q), rest)
    BY <1>5, <2>1 DEF OnChallenge
  <2>4. UTMSExpects(q, <<>>)'
    BY <1>4, <1>5, <2>1, <2>3 DEF UTMSExpects, Approval
  <2> QED
    BY <1>2, <1>4, <1>5, <2>2, <2>3, <2>4
<1>6. CASE pc = "validation" /\ OnValidation(p, rest)
  <2>1. CASE Refused(rest)
    BY <2>1 DEF Refused, over
  <2>2. CASE SendListRequest(rest)
    <3>1. pc' = "list" /\ handled' = handled
      BY <2>2 DEF SendListRequest
    <3> QED
      BY <1>3, <1>4, <1>6, <2>2, <3>1
  <2>3. CASE /\ pc' = "verification"
             /\ Request(Message(CompactString(<<"VERIFIED">>)), rest)
             /\ UNCHANGED <<handled, validated, numServers>>
    <3>1. PICK q : q = CompactString(<<"VERIFIED">>)
      OBVIOUS
    <3>2. IsSequence(q) /\ Len(q) \in 0..9
      BY <3>1, CompactFacts
    <3>3. UTMSExpects(q, <<>>)'
      BY <1>4, <1>6, <2>3, <3>1 DEF UTMSExpects
    <3> QED
      BY <1>2, <1>4, <1>6, <2>3, <3>1, <3>2, <3>3
  <2> QED
    BY <1>6, <2>1, <2>2, <2>3 DEF OnValidation
<1>7. CASE pc = "verification" /\ OnVerification(p, rest)
  <2>1. CASE Refused(rest)
    BY <2>1 DEF Refused, over
  <2>2. CASE SendListRequest(rest)
    <3>1. pc' = "list" /\ handled' = handled
      BY <2>2 DEF SendListRequest
    <3> QED
      BY <1>3, <1>4, <1>7, <2>2, <3>1
  <2> QED
    BY <1>7, <2>1, <2>2 DEF OnVerification
<1>8. CASE pc = "list" /\ OnList(p, rest)
  <2>1. /\ a = EntriesFrom(0) /\ handled = <<>> /\ handled' = handled /\ stream' = rest
        /\ pc' \in {"done", "server"}
    BY <1>8 DEF UTMSExpects, OnList
  <2>2. PICK k : k = 0
    OBVIOUS
  <2>3. k \in Nat /\ Len(handled') = k /\ StartOf(stream', EntriesFrom(k))
    BY <2>1, <2>2, EmptySequence
  <2>4. pc' = "server" => UTMSAt'
    BY <2>3, ServersDue
  <2> QED
    BY <2>1, <2>4 DEF over
<1>9. CASE pc = "server" /\ OnServer(p, rest)
  <2>1. PICK k : k = Len(handled) + 1
    OBVIOUS
  <2>2. a = EntriesFrom(k)
    BY <1>9, <2>1 DEF UTMSExpects
  <2>3. stream' = rest /\ pc' \in {"done", "server"} /\ \E h : handled' = Append(handled, h)
    BY <1>9 DEF OnServer, Handle
  <2>4. IsSequence(handled') /\ Len(handled') = k /\ k \in Nat
    <3>1. Len(handled) \in Nat
      BY LenProperties DEF IsSequence
    <3> QED
      BY <2>1, <2>3, <3>1, AppendSequence
  <2>5. pc' = "server" => UTMSAt'
    BY <2>2, <2>3, <2>4, ServersDue
  <2> QED
    BY <2>3, <2>4, <2>5 DEF over
<1> QED
  BY <1>1, <1>5, <1>6, <1>7, <1>8, <1>9 DEF OnMessage

LEMMA StartCutAfter ==
  ASSUME NEW got, NEW s, NEW q, IsSequence(got), IsSequence(s), StartOf(got \o s, q),
         NEW n \in 0..Len(s)
  PROVE  IsSequence(SubSeq(s, 1, n)) /\ StartOf(got \o SubSeq(s, 1, n), q)
<1>1. PICK c : c = SubSeq(s, 1, n)
  OBVIOUS
<1>2. Len(s) \in Nat /\ Len(got) \in Nat /\ Len(q) \in Nat /\ n \in Nat /\ n <= Len(s)
  BY LenProperties DEF StartOf, IsSequence
<1>3. StartOf(c, s) /\ Len(c) = n
  BY <1>1, <1>2, StartCut, WholeStart, ChunkSequence
<1>4. IsSequence(c) /\ \A i \in 1..n : c[i] = s[i]
  BY <1>3 DEF StartOf
<1>5. /\ IsSequence(got \o c) /\ Len(got \o c) = Len(got) + Len(c)
      /\ \A i \in 1..Len(got) + Len(c) :
           (got \o c)[i] = IF i <= Len(got) THEN got[i] ELSE c[i - Len(got)]
  BY <1>4, ConcatSequences
<1>6. /\ Len(got \o s) = Len(got) + Len(s)
      /\ \A i \in 1..Len(got) + Len(s) :
           (got \o s)[i] = IF i <= Len(got) THEN got[i] ELSE s[i - Len(got)]
  BY ConcatSequences
<1>7. IsSequence(q) /\ Len(got \o s) <= Len(q) /\ \A i \in 1..Len(got \o s) : (got \o s)[i] = q[i]
  BY DEF StartOf
<1>8. ASSUME NEW i \in 1..Len(got) + n
      PROVE  (got \o c)[i] = q[i]
  <2>1. i \in 1..Len(got) + Len(s) /\ (~(i <= Len(got)) => i - Len(got) \in 1..n)
    BY <1>2
  <2>2. (got \o c)[i] = (got \o s)[i]
    BY <1>3, <1>4, <1>5, <1>6, <2>1
  <2> QED
    BY <1>6, <1>7, <2>1, <2>2
<1>9. Len(got \o c) <= Len(q) /\ Len(got \o c) = Len(got) + n
  BY <1>2, <1>3, <1>5, <1>6, <1>7
<1>10. StartOf(got \o c, q)
  BY <1>5, <1>7, <1>8, <1>9 DEF StartOf
<1> QED
  BY <1>1, <1>4, <1>10

(* A step that leaves the place in the list alone. *)
LEMMA ExpectsStays ==
  ASSUME NEW p, NEW a, UTMSExpects(p, a), UNCHANGED <<session, pc, handled>>
  PROVE  UTMSExpects(p, a)'
BY DEF UTMSExpects, Approval

LEMMA HangsUp ==
  ASSUME UTMSInv, session.kind = "utms", ~shortRead, MasterCloses, UNCHANGED utmsVars
  PROVE  UTMSInv'
<1>1. /\ UNCHANGED <<session, pc, handled, reading, length, incoming>> /\ ~over
      /\ \E n \in 0..Len(stream) : stream' = SubSeq(stream, 1, n)
  BY DEF MasterCloses, utmsVars
<1>2. IsSequence(handled) /\ pc # "panic"
  BY DEF UTMSInv
<1>3. PICK n \in 0..Len(stream) : stream' = SubSeq(stream, 1, n)
  BY <1>1
<1>4. CASE UTMSExhausted
  <2>1. stream = <<>>
    BY <1>4 DEF UTMSExhausted
  <2>2. n = 0
    BY <2>1, EmptySequence
  <2>3. Len(stream') = 0 /\ IsSequence(stream')
    BY <1>3, <2>2, ChunkSequence
  <2>4. stream' = <<>>
    <3>1. stream' \in Seq(ToSet(stream'))
      BY <2>3 DEF IsSequence
    <3> QED
      BY <2>3, <3>1, EmptySeq
  <2> QED
    BY <1>1, <1>2, <1>4, <2>4 DEF UTMSExhausted, UTMSAt, UTMSInv, over
<1>5. CASE \E p, a : UTMSExpects(p, a) /\ UTMSHas(p, a)
  <2>1. PICK p, a : UTMSExpects(p, a) /\ UTMSHas(p, a)
    BY <1>5
  <2>2. UTMSExpects(p, a)'
    BY <1>1, <2>1, ExpectsStays
  <2>3. UTMSHas(p, a)'
    <3>1. CASE reading = "length"
      <4>1. StartOf(stream, Message(p) \o a)
        BY <2>1, <3>1 DEF UTMSHas
      <4>2. StartOf(stream', Message(p) \o a)
        BY <1>3, <4>1, StartCut
      <4> QED
        BY <1>1, <3>1, <4>2 DEF UTMSHas
    <3>2. CASE reading = "data"
      <4>1. /\ length = Len(p) /\ IsSequence(incoming) /\ IsSequence(stream)
            /\ Len(incoming) <= Len(p) /\ StartOf(incoming \o stream, p \o a)
        BY <2>1, <3>2 DEF UTMSHas
      <4>2. IsSequence(stream') /\ StartOf(incoming \o stream', p \o a)
        BY <1>3, <4>1, StartCutAfter
      <4> QED
        BY <1>1, <3>2, <4>1, <4>2 DEF UTMSHas
    <3> QED
      BY <2>1, <3>1, <3>2 DEF UTMSHas
  <2> QED
    BY <1>1, <1>2, <2>2, <2>3 DEF UTMSAt, UTMSInv, over
<1> QED
  BY <1>1, <1>4, <1>5 DEF UTMSInv, UTMSAt

LEMMA ReadLengthStep ==
  ASSUME UTMSInv, session.kind = "utms", ~shortRead, NEW n, ReadLength(n)
  PROVE  UTMSInv'
<1>1. /\ ~over /\ reading = "length" /\ n \in 1..2 /\ n <= Len(stream)
      /\ stream' = SubSeq(stream, n + 1, Len(stream)) /\ reading' = "data" /\ incoming' = <<>>
      /\ UNCHANGED <<session, pc, handled>>
      /\ shortRead' = (shortRead \/ n = 1)
      /\ length' = LittleEndian(stream[1], IF n = 2 THEN stream[2] ELSE Zero)
  BY DEF ReadLength, Reads, Remaining
<1>2. CASE n = 1
  BY <1>1, <1>2 DEF UTMSInv
<1>3. CASE n = 2
  <2>1. 2 <= Len(stream) /\ length' = LittleEndian(stream[1], stream[2])
        /\ stream' = SubSeq(stream, 2 + 1, Len(stream))
    BY <1>1, <1>3
  <2>2. ~UTMSExhausted
    BY <2>1, EmptySequence DEF UTMSExhausted
  <2>3. PICK p, a : UTMSExpects(p, a) /\ UTMSHas(p, a)
    BY <1>1, <2>2 DEF UTMSInv, UTMSAt
  <2>4. IsSequence(handled) /\ pc # "panic"
    BY DEF UTMSInv
  <2>5. IsSequence(p) /\ IsSequence(a) /\ Len(p) \in 0..9
    BY <2>3, <2>4, ExpectedFits
  <2>6. StartOf(stream, Message(p) \o a)
    BY <1>1, <2>3 DEF UTMSHas
  <2>7. length' = Len(p) /\ StartOf(stream', p \o a)
    BY <2>1, <2>5, <2>6, StartLength
  <2>8. IsSequence(stream') /\ IsSequence(incoming') /\ Len(incoming') = 0
    BY <1>1, <2>7, EmptySequence DEF StartOf
  <2>9. incoming' \o stream' = stream'
    BY <1>1, <2>8, EmptyConcat
  <2>10. UTMSHas(p, a)'
    BY <1>1, <2>5, <2>7, <2>8, <2>9 DEF UTMSHas
  <2>11. UTMSExpects(p, a)'
    BY <1>1, <2>3, ExpectsStays
  <2> QED
    BY <1>1, <2>4, <2>10, <2>11 DEF UTMSInv, UTMSAt, over
<1> QED
  BY <1>1, <1>2, <1>3

LEMMA ReadDataStep ==
  ASSUME UTMSInv, session.kind = "utms", ~shortRead, NEW n \in Nat, n <= Len(stream), ReadData(n)
  PROVE  UTMSInv'
<1>1. /\ reading = "data"
      /\ IF length = 0 THEN n = 0 ELSE n <= length - Len(incoming)
      /\ incoming' = incoming \o SubSeq(stream, 1, n)
      /\ UNCHANGED <<session, shortRead, length>>
  BY DEF ReadData, Reads, Chunk
<1>2. PICK rest : rest = SubSeq(stream, n + 1, Len(stream))
  OBVIOUS
<1>3. IF Len(incoming') >= length
        THEN reading' = "length" /\ OnMessage(incoming', rest)
        ELSE stream' = rest /\ UNCHANGED <<pc, handled, reading>>
  BY <1>2 DEF ReadData, Remaining
<1>4. ~over /\ pc # "panic" /\ IsSequence(handled)
  BY <1>1 DEF UTMSInv
<1>5. PICK p, a : UTMSExpects(p, a) /\ UTMSHas(p, a)
  BY <1>1, <1>4 DEF UTMSInv, UTMSAt, UTMSExhausted
<1>6. IsSequence(p) /\ IsSequence(a) /\ Len(p) \in Nat
  BY <1>4, <1>5, ExpectedFits
<1>7. /\ length = Len(p) /\ IsSequence(incoming) /\ IsSequence(stream)
      /\ Len(incoming) <= Len(p) /\ StartOf(incoming \o stream, p \o a)
  BY <1>1, <1>5 DEF UTMSHas
<1>8. Len(incoming) \in Nat
  BY <1>7, LenProperties DEF IsSequence
<1>9. Len(incoming) + n <= Len(p)
  BY <1>1, <1>6, <1>7, <1>8
<1>10. /\ IsSequence(incoming') /\ IsSequence(rest) /\ Len(incoming') = Len(incoming) + n
       /\ StartOf(incoming' \o rest, p \o a)
       /\ Len(incoming') = Len(p) => incoming' = p /\ StartOf(rest, a)
  <2>1. PICK now : now = incoming \o SubSeq(stream, 1, n)
    OBVIOUS
  <2>2. /\ IsSequence(now) /\ IsSequence(rest) /\ Len(now) = Len(incoming) + n
        /\ StartOf(now \o rest, p \o a)
        /\ Len(now) = Len(p) => now = p /\ StartOf(rest, a)
    BY <1>2, <1>6, <1>7, <1>9, <2>1, StartRead
  <2> QED
    BY <1>1, <2>1, <2>2
<1>11. CASE Len(incoming') >= length
  <2>1. incoming' = p /\ StartOf(rest, a)
    BY <1>6, <1>7, <1>8, <1>9, <1>10, <1>11
  <2>2. reading' = "length" /\ OnMessage(p, rest) /\ session' = session
    BY <1>1, <1>3, <1>11, <2>1
  <2>3. pc' # "panic" /\ IsSequence(handled') /\ (~over' => UTMSAt')
    BY <1>4, <1>5, <2>1, <2>2, MessageHandled
  <2> QED
    BY <2>2, <2>3 DEF UTMSInv
<1>12. CASE ~(Len(incoming') >= length)
  <2>1. stream' = rest /\ UNCHANGED <<pc, handled, reading>>
    BY <1>3, <1>12
  <2>2. UTMSExpects(p, a)'
    BY <1>1, <1>5, <2>1, ExpectsStays
  <2>3. UTMSHas(p, a)'
    BY <1>1, <1>7, <1>9, <1>10, <2>1 DEF UTMSHas
  <2> QED
    BY <1>4, <2>1, <2>2, <2>3 DEF UTMSInv, UTMSAt, over
<1> QED
  BY <1>11, <1>12

LEMMA WaitFailsStep ==
  ASSUME UTMSInv, session.kind = "utms", ~shortRead, WaitFails
  PROVE  UTMSInv'
<1>1. /\ ~over /\ pc' = IF pc = "challenge" THEN "validation" ELSE "done"
      /\ reading' = "length" /\ stream' = <<>>
      /\ UNCHANGED <<session, handled>>
  BY DEF WaitFails, ReadErr
<1>2. IsSequence(handled)
  BY DEF UTMSInv
<1>3. CASE pc = "challenge"
  <2>1. PICK p, a : p = CompactString(Approval) /\ a = <<>>
    OBVIOUS
  <2>2. handled = <<>>
    BY <1>1, <1>3 DEF UTMSInv, UTMSAt, UTMSExhausted, UTMSExpects
  <2>3. UTMSExpects(p, a)'
    BY <1>1, <1>3, <2>1, <2>2 DEF UTMSExpects, Approval
  <2>4. IsSequence(Message(p) \o a)
    <3>1. IsSequence(p) /\ Len(p) \in 0..9
      BY <2>1, CompactFacts DEF Approval
    <3>2. IsSequence(a)
      BY <2>1, EmptySequence
    <3> QED
      BY <3>1, <3>2, MessageSequence, ConcatSequences
  <2>5. UTMSHas(p, a)'
    BY <1>1, <2>4, EmptyStart DEF UTMSHas
  <2> QED
    BY <1>1, <1>2, <1>3, <2>3, <2>5 DEF UTMSInv, UTMSAt
<1>4. CASE pc # "challenge"
  BY <1>1, <1>2, <1>4 DEF UTMSInv, over
<1> QED
  BY <1>3, <1>4

LEMMA UTMSUntouched ==
  ASSUME UTMSInv,
         UNCHANGED <<session, pc, stream, handled, shortRead, reading, length, incoming>>
  PROVE  UTMSInv'
<1>1. \A p, a : UTMSExpects(p, a)' <=> UTMSExpects(p, a)
  BY DEF UTMSExpects, Approval
<1>2. \A p, a : UTMSHas(p, a)' <=> UTMSHas(p, a)
  BY DEF UTMSHas
<1>3. UTMSExhausted' <=> UTMSExhausted
  BY DEF UTMSExhausted
<1> QED
  BY <1>1, <1>2, <1>3 DEF UTMSInv, UTMSAt, over

(* Once a length was read in part, nothing is said any more. *)
LEMMA UTMSStep ==
  ASSUME UTMSInv, session.kind = "utms",
         (MasterCloses /\ UNCHANGED utmsVars) \/ UTMSNext
  PROVE  UTMSInv'
<1>1. CASE shortRead
  <2>1. shortRead'
    BY <1>1 DEF MasterCloses, UTMSNext, ReadLength, ReadData, WaitFails, ReadErr,
                CloseConnection, histories
  <2> QED
    BY <2>1 DEF UTMSInv
<1>2. CASE ~shortRead
  <2>1. ASSUME NEW n \in 0..Len(stream), ReadLength(n) \/ ReadData(n)
        PROVE  UTMSInv'
    <3>1. CASE ReadLength(n)
      BY <1>2, <3>1, ReadLengthStep
    <3>2. CASE ReadData(n)
      <4>1. n \in Nat /\ n <= Len(stream)
        OBVIOUS
      <4> QED
        BY <1>2, <3>2, <4>1, ReadDataStep
    <3> QED
      BY <2>1, <3>1, <3>2
  <2>2. CASE CloseConnection /\ UNCHANGED utmsVars
    BY <2>2, UTMSUntouched DEF CloseConnection, utmsVars, histories
  <2> QED
    BY <1>2, <2>1, <2>2, HangsUp, WaitFailsStep DEF UTMSNext
<1> QED
  BY <1>1, <1>2

(* GOA panics where ReaderMayPanic says, and only text is split into pieces. *)
GOAPanics ==
  session.kind = "goa" =>
    /\ pc = "panic" => ReaderMayPanic
    /\ pc \in {"split", "tail"} => NoCompressedList

LEMMA GOAStep ==
  ASSUME ReaderNext, session.kind = "goa", GOAPanics, EntryPanics => ReaderMayPanic
  PROVE  GOAPanics'
<1>1. /\ pc = "panic" => ReaderMayPanic
      /\ pc \in {"split", "tail"} => NoCompressedList
  BY DEF GOAPanics
<1>2. session' = session
  BY DEF ReaderNext, Authenticate, ChallengePanics, ReadText, ReadRecord, Handles, HandlePiece,
         EntryPanics, KeepPiece, HandleTail, TextEnds, RecordsEnd, Fails, AuthenticateFails,
         TextReadFails, RecordReadFails, ReadFails, ReadErr, CloseConnection
<1>3. /\ NoCompressedList' = NoCompressedList /\ MaxChallengeLen' = MaxChallengeLen
      /\ IPv6Hosts' = IPv6Hosts
  BY <1>2 DEF NoCompressedList, MaxChallengeLen, IPv6Hosts
<1>4. handled' = handled /\ ReaderMayPanic => ReaderMayPanic'
  BY <1>3 DEF ReaderMayPanic
<1>5. CASE \E n \in 1..(Len(Greeting) + Len(ListText)) :
             Authenticate(n) \/ ChallengePanics(n) \/ ReadText(n) \/ ReadRecord(n)
  <2>1. PICK n : Authenticate(n) \/ ChallengePanics(n) \/ ReadText(n) \/ ReadRecord(n)
    BY <1>5
  <2>2. CASE Authenticate(n) \/ ReadRecord(n)
    <3>1. pc' \in {"list", "done"}
      BY <2>2 DEF Authenticate, ReadRecord
    <3> QED
      BY <3>1 DEF GOAPanics
  <2>3. CASE ChallengePanics(n)
    <3>1. pc' = "panic" /\ MaxChallengeLen > ChallengeRoom
      BY <2>3 DEF ChallengePanics
    <3> QED
      BY <1>3, <3>1 DEF GOAPanics, ReaderMayPanic
  <2>4. CASE ReadText(n)
    <3>1. pc' = "split" /\ NoCompressedList
      BY <2>4 DEF ReadText
    <3> QED
      BY <1>3, <3>1 DEF GOAPanics
  <2> QED
    BY <2>1, <2>2, <2>3, <2>4
<1>6. CASE EntryPanics
  <2>1. pc' = "panic" /\ handled' = handled
    BY <1>6 DEF EntryPanics
  <2> QED
    BY <1>4, <1>6, <2>1 DEF GOAPanics
<1>7. CASE HandlePiece \/ KeepPiece \/ HandleTail \/ TextEnds \/ RecordsEnd
  <2>1. /\ pc' \in {"split", "list", "tail", "done"}
        /\ pc' \in {"split", "tail"} => NoCompressedList
    BY <1>1, <1>7 DEF HandlePiece, KeepPiece, HandleTail, TextEnds, RecordsEnd
  <2> QED
    BY <1>3, <2>1 DEF GOAPanics
<1>8. CASE Fails
  <2>1. pc' = "done" \/ (pc' = "tail" /\ NoCompressedList)
    BY <1>8 DEF Fails, AuthenticateFails, TextReadFails, RecordReadFails, ReadFails
  <2> QED
    BY <1>3, <2>1 DEF GOAPanics
<1>9. CASE CloseConnection
  <2>1. pc' = pc /\ handled' = handled
    BY <1>9 DEF CloseConnection
  <2> QED
    BY <1>1, <1>3, <1>4, <2>1 DEF GOAPanics
<1> QED
  BY <1>5, <1>6, <1>7, <1>8, <1>9 DEF ReaderNext, Handles

LEMMA KindStep ==
  ASSUME UTMSInv, GOAPanics, session.kind \in {"goa", "sbv2", "utms"},
         session.kind = "goa" /\ EntryPanics => ReaderMayPanic,
         ListSessionsNext \/ UNCHANGED vars
  PROVE  UTMSInv' /\ GOAPanics' /\ session'.kind \in {"goa", "sbv2", "utms"}
<1>1. session' = session
  BY SessionStays
<1>2. CASE session.kind = "goa"
  <2>1. CASE ReaderNext
    BY <1>1, <1>2, <2>1, GOAStep DEF UTMSInv
  <2>2. CASE MasterCloses \/ UNCHANGED vars
    <3>1. pc' = pc /\ handled' = handled
      BY <2>2 DEF MasterCloses, vars, sessionVars
    <3> QED
      BY <1>1, <1>2, <3>1
      DEF UTMSInv, GOAPanics, ReaderMayPanic, NoCompressedList, MaxChallengeLen, IPv6Hosts
  <2> QED
    BY <1>2, <2>1, <2>2 DEF ListSessionsNext, Ended
<1>3. CASE session.kind = "sbv2"
  BY <1>1, <1>3 DEF UTMSInv, GOAPanics
<1>4. CASE session.kind = "utms"
  <2>1. CASE (MasterCloses /\ UNCHANGED utmsVars) \/ UTMSNext
    BY <1>1, <1>4, <2>1, UTMSStep DEF GOAPanics
  <2>2. CASE UNCHANGED vars
    <3>1. UNCHANGED <<session, pc, stream, handled, shortRead, reading, length, incoming>>
      BY <2>2 DEF vars, sessionVars, networkVars, histories, utmsVars
    <3> QED
      BY <1>1, <1>4, <3>1, UTMSUntouched DEF GOAPanics
  <2> QED
    BY <1>4, <2>1, <2>2 DEF ListSessionsNext, Ended
<1> QED
  BY <1>2, <1>3, <1>4

LEMMA UTMSStarts ==
  ASSUME ListSessionsInit
  PROVE  UTMSInv
<1> SUFFICES ASSUME session.kind = "utms"
             PROVE  UTMSInv
  BY DEF UTMSInv
<1>1. PICK p, a : p = CompactString(ChallengeText) /\ a = <<>>
  OBVIOUS
<1>2. SessionInit("challenge", Message(p)) /\ reading = "length"
  BY <1>1 DEF ListSessionsInit, UTMSInit
<1>3. pc = "challenge" /\ handled = <<>> /\ stream = Message(p)
  BY <1>2 DEF SessionInit
<1>4. IsSequence(p) /\ Len(p) \in 0..9
  BY <1>1, CompactFacts DEF ChallengeText
<1>5. IsSequence(Message(p))
  BY <1>4, MessageSequence
<1>6. Message(p) \o a = Message(p)
  BY <1>1, <1>5, EmptyConcat
<1>7. UTMSExpects(p, a)
  BY <1>1, <1>3 DEF UTMSExpects
<1>8. UTMSHas(p, a)
  BY <1>2, <1>3, <1>5, <1>6, WholeStart DEF UTMSHas
<1>9. UTMSAt
  BY <1>7, <1>8 DEF UTMSAt
<1>10. IsSequence(handled)
  BY <1>3, EmptySequence
<1> QED
  BY <1>2, <1>3, <1>9, <1>10 DEF UTMSInv

-----------------------------------------------------------------------------
(* SBV2: what is read once Shutdown was called. *)

(* Who takes the cipher state away has closed the connection before, and   *)
(* on a closed connection nothing is read that could be garbled again.     *)
CloseInv ==
  session.kind = "sbv2" =>
    /\ garbled \in 0..1
    /\ garbled = 1 => connClosed /\ dataBuffer = <<>>
    /\ \A c \in Callers : shutdownPc[c] # "idle" => connClosed
    /\ enctypeXData # "none" /\ (~enctypeXReady \/ enctypeXData # "live") => connClosed

LEMMA CloseReturns ==
  ASSUME CloseInv, session.kind = "sbv2", NEW data, NEW isGarbage, Returns(data, isGarbage),
         isGarbage => connClosed
  PROVE  CloseInv'
<1>1. /\ dataBuffer' = <<>> /\ UNCHANGED <<session, connClosed, shutdownPc>>
      /\ garbled' = garbled + (IF isGarbage /\ dataBuffer # <<>> THEN 1 ELSE 0)
  BY DEF Returns, networkVars, shutdownVars
<1>2. \/ UNCHANGED <<enctypeXReady, enctypeXData>>
      \/ enctypeXReady' = TRUE /\ enctypeXData' = "live"
  BY DEF Returns, Arrives, Stops, cipherVars
<1>3. garbled' \in 0..1 /\ (garbled' = 1 => connClosed)
  BY <1>1 DEF CloseInv
<1> QED
  BY <1>1, <1>2, <1>3 DEF CloseInv

LEMMA CloseStep ==
  ASSUME CloseInv, WaitInv, ShutdownInv, session.kind = "sbv2", SBV2Next
  PROVE  CloseInv'
<1>1. CASE WriteListRequest \/ RequestFails \/ ReadFieldFails
  <2>1. UNCHANGED <<session, connClosed, shutdownPc, garbled, dataBuffer, enctypeXReady,
                    enctypeXData>>
    BY <1>1 DEF WriteListRequest, RequestFails, ReadFieldFails, ReadErr, sbv2Vars, cipherVars,
                shutdownVars
  <2> QED
    BY <2>1 DEF CloseInv
<1>2. CASE \E n \in 1..Len(stream) : ReadField(n)
  <2>1. /\ ~connClosed
        /\ UNCHANGED <<session, connClosed, shutdownPc, garbled, enctypeXReady, enctypeXData>>
    BY <1>2 DEF ReadField, Reads, cipherVars, shutdownVars
  <2> QED
    BY <2>1 DEF CloseInv
<1>3. CASE CheckReady
  <2>1. CASE enctypeXReady
    <3>1. UNCHANGED <<session, connClosed, shutdownPc, garbled, dataBuffer, enctypeXReady,
                      enctypeXData>>
      BY <1>3, <2>1 DEF CheckReady, sessionVars, networkVars, cipherVars, shutdownVars
    <3> QED
      BY <3>1 DEF CloseInv
  <2>2. CASE ~enctypeXReady
    <3>1. PICK plain, noise : plain = dataBuffer \o Padding /\ noise = Garbage \o Padding
      OBVIOUS
    <3>2. Returns(plain, FALSE) \/ (enctypeXData # "none" /\ Returns(noise, TRUE))
      BY <1>3, <2>2, <3>1 DEF CheckReady
    <3>3. enctypeXData # "none" => connClosed
      BY <2>2 DEF CloseInv
    <3> QED
      BY <3>2, <3>3, CloseReturns
  <2> QED
    BY <2>1, <2>2
<1>4. CASE Decrypt
  <2>1. enctypeXData # "none"
    BY <1>4 DEF Decrypt, WaitInv
  <2>2. PICK noise : noise = Garbage
    OBVIOUS
  <2>3. Returns(dataBuffer, FALSE) \/ (enctypeXData # "live" /\ Returns(noise, TRUE))
    BY <1>4, <2>2 DEF Decrypt
  <2>4. enctypeXData # "live" => connClosed
    BY <2>1 DEF CloseInv
  <2> QED
    BY <2>3, <2>4, CloseReturns
<1>5. ASSUME NEW c \in Callers,
             ShutdownCloses(c) \/ ShutdownTests(c) \/ ShutdownClears(c) \/ ShutdownFrees(c)
      PROVE  CloseInv'
  <2>1. /\ UNCHANGED <<session, garbled, dataBuffer>>
        /\ \E x : shutdownPc' = [shutdownPc EXCEPT ![c] = x]
    BY <1>5 DEF ShutdownCloses, ShutdownTests, ShutdownClears, ShutdownFrees, Steps, notShutdown
  <2>2. connClosed'
    <3>1. CASE ShutdownCloses(c)
      BY <3>1 DEF ShutdownCloses
    <3>2. CASE ShutdownTests(c) \/ ShutdownClears(c) \/ ShutdownFrees(c)
      <4>1. shutdownPc[c] # "idle" /\ connClosed' = connClosed
        BY <3>2 DEF ShutdownTests, ShutdownClears, ShutdownFrees, Steps
      <4> QED
        BY <4>1 DEF CloseInv
    <3> QED
      BY <1>5, <3>1, <3>2
  <2> QED
    BY <2>1, <2>2 DEF CloseInv
<1> QED
  BY <1>1, <1>2, <1>3, <1>4, <1>5 DEF SBV2Next, SBV2Works, SBV2Fails

LEMMA CloseStarts ==
  ASSUME ListSessionsInit
  PROVE  CloseInv
<1>1. /\ garbled = 0 /\ dataBuffer = <<>> /\ enctypeXData = "none"
      /\ \A c \in Callers : shutdownPc[c] = "idle"
  BY DEF ListSessionsInit, SBV2Init
<1> QED
  BY <1>1 DEF CloseInv

LEMMA CloseKept ==
  ASSUME CloseInv, WaitInv, ShutdownInv, ListSessionsNext \/ UNCHANGED vars
  PROVE  CloseInv'
<1>1. session' = session
  BY SessionStays
<1>2. CASE session.kind # "sbv2"
  BY <1>1, <1>2 DEF CloseInv
<1>3. CASE session.kind = "sbv2" /\ SBV2Next
  BY <1>3, CloseStep
<1>4. CASE (MasterCloses /\ UNCHANGED sbv2Vars) \/ UNCHANGED vars
  <2>1. UNCHANGED <<session, connClosed, shutdownPc, garbled, dataBuffer, enctypeXReady,
                    enctypeXData>>
    BY <1>4 DEF MasterCloses, vars, sessionVars, networkVars, sbv2Vars, cipherVars, shutdownVars
  <2> QED
    BY <2>1 DEF CloseInv
<1> QED
  BY <1>2, <1>3, <1>4 DEF ListSessionsNext, Ended

(* GarbledOnce: whatever the list, the master server and the two callers   *)
(* of Shutdown do, the reader is handed at most one field that was not     *)
(* decrypted as it should.                                                 *)
THEOREM SessionGarbledOnce ==
  ListSessionsSpec => []GarbledOnce
<1> DEFINE Inv == WaitInv /\ ShutdownInv /\ SBV2Panics /\ CloseInv
<1>1. ListSessionsInit => Inv
  <2> SUFFICES ASSUME ListSessionsInit PROVE Inv
    OBVIOUS
  <2>1. WaitInv /\ ShutdownInv
    BY WaitInit DEF ListSessionsInit
  <2>2. session.kind = "sbv2" => pc = "request"
    BY DEF ListSessionsInit, SessionInit
  <2> QED
    BY <2>1, <2>2, CloseStarts DEF SBV2Panics
<1>2. Inv /\ [ListSessionsNext]_vars => Inv'
  BY CipherStep, CloseKept
<1>3. Inv => GarbledOnce
  BY DEF CloseInv, GarbledOnce
<1> QED
  BY <1>1, <1>2, <1>3, PTL DEF ListSessionsSpec

-----------------------------------------------------------------------------
(* What a session hands on: the servers handled so far are the first of    *)
(* the list.                                                               *)

(* The servers handled so far are the first of the list. *)
InOrder ==
  /\ IsSequence(handled)
  /\ Len(handled) <= Len(Listing)
  /\ \A i \in 1..Len(handled) : handled[i] = Listing[i]

LEMMA ListingFacts ==
  /\ IsSequence(Listing) /\ Len(Listing) \in Nat
  /\ \A i \in 1..Len(Listing) :
       /\ Listing[i] \in Address
       /\ Listing[i] = [host |-> Listing[i].host, port |-> Listing[i].port]
       /\ Listing[i].host \in Hosts
       /\ Listing[i].port \in Seq(Digits) /\ Len(Listing[i].port) = 2
       /\ Listing[i].port = <<Listing[i].port[1], Listing[i].port[2]>>
<1>1. Listing \in Seq(Address)
  BY ListingAssumption
<1>2. IsSequence(Listing) /\ Len(Listing) \in Nat
  BY <1>1, SequenceOf, LenProperties
<1>3. ASSUME NEW i \in 1..Len(Listing)
      PROVE  /\ Listing[i] \in Address
             /\ Listing[i] = [host |-> Listing[i].host, port |-> Listing[i].port]
             /\ Listing[i].host \in Hosts
             /\ Listing[i].port \in Seq(Digits) /\ Len(Listing[i].port) = 2
             /\ Listing[i].port = <<Listing[i].port[1], Listing[i].port[2]>>
  <2>1. Listing[i] \in Address /\ Len(Listing[i].port) = 2
    BY <1>1, ElementOfSeq, ListingAssumption
  <2>2. PICK a : a = Listing[i]
    OBVIOUS
  <2>3. /\ a = [host |-> a.host, port |-> a.port] /\ a.host \in Hosts /\ a.port \in Seq(Digits)
    BY <2>1, <2>2 DEF Address
  <2>4. PICK p : p = a.port
    OBVIOUS
  <2>5. p \in Seq(Digits) /\ Len(p) = 2
    BY <2>1, <2>2, <2>3, <2>4
  <2>6. p = <<p[1], p[2]>>
    BY <2>5
  <2> QED
    BY <2>1, <2>2, <2>3, <2>4, <2>5, <2>6
<1> QED
  BY <1>2, <1>3

LEMMA NothingInOrder ==
  ASSUME handled = <<>>
  PROVE  InOrder
BY EmptySequence, ListingFacts DEF InOrder

LEMMA WholeInOrder ==
  ASSUME InOrder, Len(handled) = Len(Listing)
  PROVE  handled = Listing
BY ListingFacts, SequencesEqual DEF InOrder

(* The next server of the list is handled. *)
LEMMA NextHandled ==
  ASSUME InOrder, ~over, Len(handled) < Len(Listing),
         handled' = Append(handled, Listing[Len(handled) + 1])
  PROVE  /\ InOrder' /\ Len(handled') = Len(handled) + 1
         /\ Delivery!DeliveryNext
<1>1. PICK e, n : e = Listing[n] /\ n = Len(handled) + 1
  OBVIOUS
<1>2. IsSequence(handled) /\ Len(handled) \in Nat
  BY LenProperties DEF InOrder, IsSequence
<1>3. IsSequence(Append(handled, e)) /\ Len(Append(handled, e)) = Len(handled) + 1
  BY <1>2, AppendSequence
<1>4. \A i \in 1..Len(handled) + 1 :
        Append(handled, e)[i] = IF i <= Len(handled) THEN handled[i] ELSE e
  BY <1>2, AppendElements
<1>5. handled' = Append(handled, e)
  BY <1>1
<1>6. InOrder'
  BY <1>1, <1>2, <1>3, <1>4, <1>5, ListingFacts DEF InOrder
<1>7. over' \in BOOLEAN
  BY DEF over
<1>8. Delivery!Deliver
  BY <1>7 DEF Delivery!Deliver
<1> QED
  BY <1>3, <1>5, <1>6, <1>8 DEF Delivery!DeliveryNext

(* The session goes on or ends, and hands on nothing. *)
LEMMA NothingHandled ==
  ASSUME handled' = handled, over => over'
  PROVE  /\ InOrder => InOrder'
         /\ [Delivery!DeliveryNext]_(Delivery!deliveryVars)
<1>1. over \in BOOLEAN /\ over' \in BOOLEAN
  BY DEF over
<1>2. CASE over = over'
  BY <1>2 DEF InOrder, Delivery!deliveryVars
<1>3. CASE ~over /\ over'
  BY <1>3 DEF InOrder, Delivery!DeliveryNext, Delivery!End
<1> QED
  BY <1>1, <1>2, <1>3

-----------------------------------------------------------------------------
(* UTMS: as long as no length is read in part, a message is one server of  *)
(* the list, and the reader's count says how many are still to come.       *)

LEMMA EntryRead ==
  ASSUME NEW i \in 1..Len(Listing), NEW b, b = Entry(Listing[i])
  PROVE  [host |-> b[1], port |-> <<b[4], b[3]>>] = Listing[i]
<1>1. PICK h, p : h = Listing[i].host /\ p = Listing[i].port
  OBVIOUS
<1>2. /\ p \in Seq(Digits) /\ Len(p) = 2 /\ p = <<p[1], p[2]>>
      /\ Listing[i] = [host |-> h, port |-> p]
  BY <1>1, ListingFacts
<1>3. PICK r, g : r = Reverse(p) /\ g = "game port"
  OBVIOUS
<1>10. PICK hg : hg = <<h, g>>
  OBVIOUS
<1>4. r \in Seq(Digits) /\ Len(r) = 2 /\ r[1] = p[2] /\ r[2] = p[1]
  <2>1. p[1] \in Digits /\ p[2] \in Digits
    <3>1. p \in Seq(Digits) /\ Len(p) = 2
      BY <1>2
    <3> QED
      BY ONLY <3>1, ElementOfSeq
  <2>2. r = [k \in 1..2 |-> p[(2 - k) + 1]]
    BY <1>2, <1>3 DEF Reverse
  <2>3. \A k \in 1..2 : p[(2 - k) + 1] \in Digits
    <3> TAKE k \in 1..2
    <3>1. (2 - k) + 1 = 1 \/ (2 - k) + 1 = 2
      OBVIOUS
    <3> QED
      BY <2>1, <3>1
  <2>4. PICK m : m = 2
    OBVIOUS
  <2>5. r \in [1..m -> Digits] /\ m \in Nat
    BY <2>2, <2>3, <2>4
  <2>6. r \in Seq(Digits) /\ Len(r) = m
    BY <2>5
  <2>7. r[1] = p[2] /\ r[2] = p[1]
    BY <2>2
  <2> QED
    BY <2>4, <2>6, <2>7
<1>5. hg \in Seq({h, g}) /\ Len(hg) = 2 /\ hg[1] = h
  BY <1>10
<1>6. IsSequence(hg) /\ IsSequence(r)
  BY <1>4, <1>5, SequenceOf
<1>7. b = hg \o r
  BY <1>1, <1>3, <1>10 DEF Entry
<1>11. Len(hg) + Len(r) = 4
  BY <1>4, <1>5
<1>12. \A k \in 1..Len(hg) + Len(r) : (hg \o r)[k] = IF k <= Len(hg) THEN hg[k] ELSE r[k - Len(hg)]
  BY <1>6, ConcatSequences
<1>8. \A k \in 1..4 : b[k] = IF k <= 2 THEN hg[k] ELSE r[k - 2]
  BY <1>5, <1>7, <1>11, <1>12
<1>9. b[1] = h /\ b[3] = p[2] /\ b[4] = p[1]
  BY <1>4, <1>5, <1>8
<1> QED
  BY <1>2, <1>9

UTMSOrder ==
  session.kind = "utms" /\ ~shortRead =>
    /\ InOrder
    /\ pc = "server" => numServers = Len(Listing) - Len(handled) /\ numServers > 0
    /\ pc \in {"challenge", "validation", "verification"} => ~validated
    /\ pc = "done" /\ validated /\ ~lost => Len(handled) = Len(Listing)

LEMMA ListCount ==
  ASSUME session.kind = "utms", session \in Sessions,
         NEW p, p = Number(Len(Listing)) \o <<"compressed">>
  PROVE  LittleEndian(p[1], p[2]) = Len(Listing)
<1>10. PICK n : n = Len(Listing)
  OBVIOUS
<1>1. PICK q, t : q = Number(n) /\ t = <<"compressed">>
  OBVIOUS
<1>2. n \in 0..9
  <2>1. \E s \in Sessions : s.kind = "utms"
    OBVIOUS
  <2>2. Len(Listing) <= 9
    BY <2>1, UTMSAssumption
  <2>3. Len(Listing) \in Nat
    BY ListingFacts
  <2>4. n \in Nat /\ n <= 9
    BY <1>10, <2>2, <2>3
  <2> QED
    BY <2>4
<1>3. IsSequence(q) /\ Len(q) = 2 /\ LittleEndian(q[1], q[2]) = n
  BY <1>1, <1>2, NumberFacts
<1>4. PICK c : c = "compressed"
  OBVIOUS
<1>5. <<c>> \in Seq({c}) /\ Len(<<c>>) = 1
  OBVIOUS
<1>6. IsSequence(t) /\ Len(t) = 1
  BY <1>1, <1>4, <1>5, SequenceOf
<1>9. Len(q) + Len(t) = 3
  BY <1>3, <1>6
<1>7. \A i \in 1..Len(q) + Len(t) : (q \o t)[i] = IF i <= Len(q) THEN q[i] ELSE t[i - Len(q)]
  BY <1>3, <1>6, ConcatSequences
<1>8. (q \o t)[1] = q[1] /\ (q \o t)[2] = q[2]
  <2>1. 1 \in 1..Len(q) + Len(t) /\ 2 \in 1..Len(q) + Len(t) /\ 1 <= Len(q) /\ 2 <= Len(q)
    BY <1>3, <1>9
  <2> QED
    BY ONLY <1>7, <2>1
<1> QED
  BY <1>1, <1>3, <1>8, <1>10

LEMMA MessageWhole ==
  ASSUME UTMSInv, session.kind = "utms", ~shortRead, NEW n \in Nat, n <= Len(stream), ReadData(n),
         Len(incoming') >= length, NEW p, NEW a, UTMSExpects(p, a), UTMSHas(p, a)
  PROVE  incoming' = p
<1>1. /\ reading = "data"
      /\ IF length = 0 THEN n = 0 ELSE n <= length - Len(incoming)
      /\ incoming' = incoming \o SubSeq(stream, 1, n)
  BY DEF ReadData, Reads, Chunk
<1>2. ~over /\ IsSequence(handled)
  BY <1>1 DEF UTMSInv
<1>3. IsSequence(p) /\ IsSequence(a) /\ Len(p) \in Nat
  BY <1>2, ExpectedFits
<1>4. /\ length = Len(p) /\ IsSequence(incoming) /\ IsSequence(stream)
      /\ Len(incoming) <= Len(p) /\ StartOf(incoming \o stream, p \o a)
  BY <1>1 DEF UTMSHas
<1>5. Len(incoming) \in Nat
  BY <1>4, LenProperties DEF IsSequence
<1>6. Len(incoming) + n <= Len(p)
  BY <1>1, <1>3, <1>4, <1>5
<1>7. PICK now : now = incoming \o SubSeq(stream, 1, n)
  OBVIOUS
<1>8. Len(now) = Len(incoming) + n /\ (Len(now) = Len(p) => now = p)
  BY <1>3, <1>4, <1>6, <1>7, StartRead
<1> QED
  BY <1>1, <1>3, <1>4, <1>5, <1>6, <1>7, <1>8

(* A message that was read whole. *)
LEMMA MessageDelivers ==
  ASSUME NEW p, NEW a, NEW rest, UTMSExpects(p, a), UTMSOrder, OnMessage(p, rest),
         session.kind = "utms", session \in Sessions, ~shortRead,
         session' = session, lost' = lost, shortRead' = shortRead
  PROVE  UTMSOrder' /\ [Delivery!DeliveryNext]_(Delivery!deliveryVars)
<1>1. Fits(p) /\ InOrder
  BY ExpectedFits DEF UTMSOrder, InOrder
<1>2. Len(handled) \in Nat /\ Len(Listing) \in Nat
  BY <1>1, ListingFacts, LenProperties DEF InOrder, IsSequence
<1>3. ~over
  BY DEF over, UTMSExpects
<1>4. ASSUME handled' = handled
      PROVE  InOrder' /\ [Delivery!DeliveryNext]_(Delivery!deliveryVars)
  BY <1>1, <1>3, <1>4, NothingHandled
<1>5. CASE pc = "challenge" /\ OnChallenge(p, rest)
  <2>1. handled' = handled /\ pc' = "validation" /\ validated' = validated
    BY <1>5 DEF OnChallenge
  <2> QED
    BY <1>4, <1>5, <2>1 DEF UTMSOrder
<1>6. ASSUME SendListRequest(rest)
      PROVE  UTMSOrder' /\ [Delivery!DeliveryNext]_(Delivery!deliveryVars)
  <2>1. handled' = handled /\ pc' = "list"
    BY <1>6 DEF SendListRequest
  <2> QED
    BY <1>4, <2>1 DEF UTMSOrder
<1>7. ASSUME Refused(rest), pc \in {"validation", "verification"}
      PROVE  UTMSOrder' /\ [Delivery!DeliveryNext]_(Delivery!deliveryVars)
  <2>1. handled' = handled /\ pc' = "done" /\ validated' = validated
    BY <1>7 DEF Refused
  <2> QED
    BY <1>4, <1>7, <2>1 DEF UTMSOrder
<1>8. CASE pc = "validation" /\ OnValidation(p, rest)
  <2>1. CASE SendListRequest(rest) \/ Refused(rest)
    BY <1>6, <1>7, <1>8, <2>1
  <2>2. CASE pc' = "verification" /\ UNCHANGED <<handled, validated, numServers>>
    BY <1>4, <1>8, <2>2 DEF UTMSOrder
  <2> QED
    BY <1>8, <2>1, <2>2 DEF OnValidation
<1>9. CASE pc = "verification" /\ OnVerification(p, rest)
  <2>1. SendListRequest(rest) \/ Refused(rest)
    BY <1>9 DEF OnVerification
  <2> QED
    BY <1>6, <1>7, <1>9, <2>1
<1>10. CASE pc = "list" /\ OnList(p, rest)
  <2>1. /\ handled = <<>> /\ handled' = handled /\ numServers' = LittleEndian(p[1], p[2])
        /\ pc' = IF numServers' = 0 THEN "done" ELSE "server"
        /\ p = Number(Len(Listing)) \o <<"compressed">>
    BY <1>10 DEF OnList, UTMSExpects
  <2>2. numServers' = Len(Listing) /\ Len(handled') = 0
    BY <2>1, ListCount, EmptySequence
  <2>3. InOrder' /\ [Delivery!DeliveryNext]_(Delivery!deliveryVars)
    BY <1>4, <2>1
  <2>4. pc' = "server" => numServers' = Len(Listing) - Len(handled') /\ numServers' > 0
    <3>1. numServers' # 0 => numServers' > 0
      BY <1>2, <2>2
    <3>2. numServers' = Len(Listing) - Len(handled')
      BY <1>2, <2>2
    <3> QED
      BY <2>1, <3>1, <3>2, Zenon
  <2>5. pc' = "done" => Len(handled') = Len(Listing)
    BY <2>1, <2>2
  <2>6. pc' \in {"done", "server"}
    BY <2>1
  <2> QED
    BY <2>3, <2>4, <2>5, <2>6 DEF UTMSOrder
<1>11. CASE pc = "server" /\ OnServer(p, rest)
  <2>1. PICK i : i = Len(handled) + 1
    OBVIOUS
  <2>2. Len(handled) < Len(Listing) /\ p = Entry(Listing[i]) /\ i \in 1..Len(Listing)
    BY <1>2, <1>11, <2>1 DEF UTMSExpects
  <2>3. [host |-> p[1], port |-> <<p[4], p[3]>>] = Listing[i]
    BY <2>2, EntryRead
  <2>4. /\ handled' = Append(handled, Listing[i]) /\ numServers' = numServers - 1
        /\ pc' = IF numServers' = 0 THEN "done" ELSE "server"
    BY <1>11, <2>3 DEF OnServer, Handle
  <2>5. InOrder' /\ Len(handled') = Len(handled) + 1 /\ Delivery!DeliveryNext
    BY <1>1, <1>3, <2>1, <2>2, <2>4, NextHandled
  <2>6. numServers = Len(Listing) - Len(handled) /\ numServers > 0
    BY <1>11 DEF UTMSOrder
  <2>7. numServers' = Len(Listing) - Len(handled') /\ numServers' \in Nat
    BY <1>2, <2>2, <2>4, <2>5, <2>6
  <2>8. pc' = "server" => numServers' > 0
    <3>1. numServers' # 0 => numServers' > 0
      BY <2>7
    <3> QED
      BY <2>4, <3>1, Zenon
  <2>9. pc' = "done" => Len(handled') = Len(Listing)
    <3>1. Len(handled') \in Nat
      BY <1>2, <2>5
    <3> QED
      BY <1>2, <2>4, <2>7, <3>1
  <2>10. pc' \in {"done", "server"}
    BY <2>4
  <2> QED
    BY <2>5, <2>7, <2>8, <2>9, <2>10 DEF UTMSOrder
<1> QED
  BY <1>1, <1>5, <1>8, <1>9, <1>10, <1>11 DEF OnMessage

LEMMA UTMSDelivers ==
  ASSUME UTMSInv, UTMSOrder, session.kind = "utms", session \in Sessions,
         (MasterCloses /\ UNCHANGED utmsVars) \/ UTMSNext \/ UNCHANGED vars
  PROVE  /\ UTMSOrder'
         /\ [(~shortRead)' => Delivery!DeliveryNext]_(Delivery!deliveryVars)
<1>1. session' = session
  BY DEF MasterCloses, UTMSNext, ReadLength, ReadData, WaitFails, ReadErr, CloseConnection, vars,
         sessionVars
<1>2. CASE shortRead
  <2>1. shortRead'
    BY <1>2 DEF MasterCloses, UTMSNext, ReadLength, ReadData, WaitFails, ReadErr,
                CloseConnection, histories, vars, sessionVars
  <2> QED
    BY <2>1 DEF UTMSOrder
<1>3. CASE ~shortRead
  <2>1. InOrder
    BY <1>3 DEF UTMSOrder
  <2>2. ASSUME UNCHANGED <<handled, pc, validated, numServers>>, lost => lost'
        PROVE  /\ UTMSOrder'
               /\ [(~shortRead)' => Delivery!DeliveryNext]_(Delivery!deliveryVars)
    <3>1. over' = over /\ handled' = handled
      BY <2>2 DEF over
    <3> QED
      BY <1>1, <1>3, <2>1, <2>2, <3>1, NothingHandled DEF UTMSOrder, Delivery!deliveryVars
  <2>3. CASE MasterCloses /\ UNCHANGED utmsVars
    BY <2>2, <2>3 DEF MasterCloses, utmsVars
  <2>4. CASE UNCHANGED vars
    BY <2>2, <2>4 DEF vars, sessionVars, histories, utmsVars
  <2>5. CASE CloseConnection /\ UNCHANGED utmsVars
    BY <2>2, <2>5 DEF CloseConnection, utmsVars, histories
  <2>6. ASSUME NEW n, ReadLength(n)
        PROVE  /\ UTMSOrder'
               /\ [(~shortRead)' => Delivery!DeliveryNext]_(Delivery!deliveryVars)
    BY <2>2, <2>6 DEF ReadLength
  <2>7. CASE WaitFails
    <3>1. /\ handled' = handled /\ ~over /\ lost' /\ numServers' = numServers
          /\ pc' = IF pc = "challenge" THEN "validation" ELSE "done"
          /\ validated' = validated
      BY <2>7 DEF WaitFails, ReadErr
    <3>2. InOrder' /\ [Delivery!DeliveryNext]_(Delivery!deliveryVars)
      BY <2>1, <3>1, NothingHandled
    <3> QED
      BY <1>3, <3>1, <3>2 DEF UTMSOrder
  <2>8. ASSUME NEW n \in 0..Len(stream), ReadData(n)
        PROVE  /\ UTMSOrder'
               /\ [(~shortRead)' => Delivery!DeliveryNext]_(Delivery!deliveryVars)
    <3>1. n \in Nat /\ n <= Len(stream) /\ reading = "data"
          /\ shortRead' = shortRead /\ lost' = lost
      BY <2>8 DEF ReadData
    <3>2. PICK p, a : UTMSExpects(p, a) /\ UTMSHas(p, a)
      BY <1>3, <3>1 DEF UTMSInv, UTMSAt, UTMSExhausted
    <3>3. CASE Len(incoming') >= length
      <4>1. PICK rest : OnMessage(incoming', rest)
        BY <2>8, <3>3 DEF ReadData
      <4>2. incoming' = p
        BY <1>3, <2>8, <3>1, <3>2, <3>3, MessageWhole
      <4>3. OnMessage(p, rest)
        BY <4>1, <4>2
      <4> QED
        BY <1>1, <1>3, <3>1, <3>2, <4>3, MessageDelivers
    <3>4. CASE ~(Len(incoming') >= length)
      BY <2>2, <2>8, <3>4 DEF ReadData
    <3> QED
      BY <3>3, <3>4
  <2> QED
    BY <2>3, <2>4, <2>5, <2>6, <2>7, <2>8 DEF UTMSNext
<1> QED
  BY <1>2, <1>3

-----------------------------------------------------------------------------
(* The compressed GOA list: as long as each Read returns a record.         *)

LEMMA ReadPart ==
  ASSUME NEW s, NEW p, NEW a, IsSequence(p), IsSequence(a), StartOf(s, p \o a),
         NEW n, n = Len(p), n <= Len(s)
  PROVE  /\ SubSeq(s, 1, n) = p
         /\ StartOf(SubSeq(s, n + 1, Len(s)), a)
         /\ s = p \o a => SubSeq(s, n + 1, Len(s)) = a
<1>1. SubSeq(s, 1, n) = p /\ StartOf(SubSeq(s, n + 1, Len(s)), a)
  BY StartReadWhole
<1>2. ASSUME s = p \o a
      PROVE  SubSeq(s, n + 1, Len(s)) = a
  <2>1. PICK r : r = SubSeq(s, n + 1, Len(s))
    OBVIOUS
  <2>2. Len(s) = Len(p) + Len(a) /\ Len(p) \in Nat /\ Len(a) \in Nat /\ IsSequence(s)
    BY <1>2, ConcatSequences
  <2>3. n \in 0..Len(s)
    BY <2>2
  <2>4. Len(r) = Len(s) - n
    BY <2>1, <2>2, <2>3, RemainingSequence
  <2>5. Len(r) = Len(a)
    BY <2>2, <2>4
  <2>6. IsSequence(r) /\ \A i \in 1..Len(r) : r[i] = a[i]
    BY <1>1, <2>1 DEF StartOf
  <2>7. r = a
    BY <2>5, <2>6, SequencesEqual
  <2> QED
    BY <2>1, <2>7
<1> QED
  BY <1>1, <1>2

LEMMA ConcatCut ==
  ASSUME NEW a, NEW b, IsSequence(a), IsSequence(b)
  PROVE  /\ SubSeq(a \o b, 1, Len(a)) = a
         /\ SubSeq(a \o b, Len(a) + 1, Len(a \o b)) = b
<1>1. PICK s, n : s = a \o b /\ n = Len(a)
  OBVIOUS
<1>2. IsSequence(s) /\ Len(s) = Len(a) + Len(b) /\ Len(a) \in Nat /\ Len(b) \in Nat
  BY <1>1, ConcatSequences
<1>3. StartOf(s, a \o b) /\ n <= Len(s)
  BY <1>1, <1>2, WholeStart
<1>4. SubSeq(s, 1, n) = a /\ (s = a \o b => SubSeq(s, n + 1, Len(s)) = b)
  <2>1. n = Len(a) /\ n <= Len(s) /\ StartOf(s, a \o b)
    BY <1>1, <1>3
  <2> QED
    BY <2>1, ReadPart
<1> QED
  BY <1>1, <1>4

LEMMA ReaderFacts ==
  ASSUME session \in Sessions, session.kind = "goa"
  PROVE  /\ IsSequence(Challenge) /\ Len(Challenge) \in Nat \ {0}
         /\ IsSequence(session.junk) /\ Len(session.junk) \in Nat
         /\ MaxChallengeLen \in Nat /\ ChallengeRoom \in Nat
         /\ MaxChallengeLen <= ChallengeRoom =>
              \/ MaxChallengeLen = Len(Challenge)
              \/ MaxChallengeLen = 0 /\ session.junk = <<>>
         /\ NoCompressedList \in BOOLEAN
<1>1. session \in GOASessions
  BY DEF GOASessions
<1>2. session.junk \in Seq(STRING) /\ Challenge \in Seq(STRING) /\ Challenge # <<>>
  BY <1>1, ReaderAssumption
<1>3. Len(Challenge) \in Nat \ {0} /\ Len(session.junk) \in Nat
  BY <1>2, LenProperties, EmptySeq
<1>4. ChallengeRoom \in Nat
  BY ReaderAssumption
<1>5. \/ MaxChallengeLen = Len(Challenge)
      \/ MaxChallengeLen = 0 /\ session.junk = <<>>
      \/ MaxChallengeLen \in Nat /\ MaxChallengeLen > ChallengeRoom
  BY <1>1, ReaderAssumption DEF MaxChallengeLen
<1>6. /\ MaxChallengeLen \in Nat
      /\ MaxChallengeLen <= ChallengeRoom =>
           \/ MaxChallengeLen = Len(Challenge)
           \/ MaxChallengeLen = 0 /\ session.junk = <<>>
  BY <1>3, <1>4, <1>5
<1> QED
  BY <1>1, <1>2, <1>3, <1>4, <1>6, ReaderAssumption, SequenceOf DEF NoCompressedList

(* The greeting, read as a whole, holds the challenge, and the engine takes *)
(* it out unless MaxChallengeLen does not fit.                              *)
LEMMA GreetingFacts ==
  ASSUME session \in Sessions, session.kind = "goa"
  PROVE  /\ IsSequence(Greeting)
         /\ Len(Greeting) = 2 + Len(Challenge) + Len(session.junk)
         /\ SubSeq(Greeting, 3, Len(Greeting)) = Challenge \o session.junk
         /\ Contains(Greeting, "secure")
         /\ MaxChallengeLen <= ChallengeRoom => ChallengeIn(Greeting) = Challenge
<1>1. PICK b, c, words, junk : b = "basic" /\ c = "secure" /\ words = <<b, c>> /\ junk = session.junk
  OBVIOUS
<1>2. words \in Seq({b, c}) /\ Len(words) = 2 /\ words[2] = c
  BY <1>1
<1>3. IsSequence(words)
  BY <1>2, SequenceOf
<1>4. /\ IsSequence(Challenge) /\ Len(Challenge) \in Nat \ {0} /\ IsSequence(junk) /\ Len(junk) \in Nat
      /\ MaxChallengeLen <= ChallengeRoom =>
           \/ MaxChallengeLen = Len(Challenge)
           \/ MaxChallengeLen = 0 /\ junk = <<>>
  BY <1>1, ReaderFacts
<1>5. PICK rest : rest = Challenge \o junk
  OBVIOUS
<1>6. IsSequence(rest) /\ Len(rest) = Len(Challenge) + Len(junk)
  BY <1>4, <1>5, ConcatSequences
<1>7. PICK g : g = words \o rest
  OBVIOUS
<1>8. Greeting = g
  <2>1. Greeting = (words \o Challenge) \o junk
    BY <1>1, Zenon DEF Greeting
  <2>2. (words \o Challenge) \o junk = words \o rest
    BY <1>3, <1>4, <1>5, ConcatRegroups
  <2> QED
    BY <1>7, <2>1, <2>2
<1>9. /\ IsSequence(g) /\ Len(g) = Len(words) + Len(rest)
      /\ \A i \in 1..Len(words) + Len(rest) : g[i] = IF i <= Len(words) THEN words[i]
                                                                        ELSE rest[i - Len(words)]
  BY <1>3, <1>6, <1>7, ConcatSequences
<1>10. SubSeq(g, Len(words) + 1, Len(g)) = rest
  BY <1>3, <1>6, <1>7, ConcatCut
<1>11. SubSeq(g, 3, Len(g)) = rest
  BY <1>2, <1>10
<1>12. Contains(g, c)
  <2>1. 2 \in 1..Len(words) + Len(rest) /\ 2 <= Len(words)
    BY <1>2, <1>4, <1>6
  <2>2. g[2] = c /\ 2 \in 1..Len(g)
    BY <1>2, <1>9, <2>1
  <2> QED
    BY <2>2 DEF Contains
<1>13. ASSUME MaxChallengeLen <= ChallengeRoom
       PROVE  ChallengeIn(g) = Challenge
  <2>1. ChallengeIn(g) = IF MaxChallengeLen # 0 /\ MaxChallengeLen < Len(rest)
                           THEN SubSeq(rest, 1, MaxChallengeLen) ELSE rest
    BY <1>11 DEF ChallengeIn
  <2>2. CASE junk = <<>>
    <3>1. rest = Challenge
      BY <1>4, <1>5, <2>2, EmptyConcat
    <3>2. ~(MaxChallengeLen # 0 /\ MaxChallengeLen < Len(rest))
      BY <1>4, <1>13, <3>1
    <3> QED
      BY <2>1, <3>1, <3>2
  <2>3. CASE junk # <<>>
    <3>1. Len(junk) > 0
      BY <1>4, <2>3, EmptySeq DEF IsSequence
    <3>2. MaxChallengeLen = Len(Challenge)
      BY <1>4, <1>13, <2>3
    <3>3. MaxChallengeLen # 0 /\ MaxChallengeLen < Len(rest)
      BY <1>4, <1>6, <3>1, <3>2
    <3>4. SubSeq(rest, 1, Len(Challenge)) = Challenge
      BY <1>4, <1>5, ConcatCut
    <3> QED
      BY <2>1, <3>2, <3>3, <3>4
  <2> QED
    BY <2>2, <2>3
<1>14. Len(g) = 2 + Len(Challenge) + Len(junk)
  BY <1>2, <1>4, <1>6, <1>9
<1> QED
  BY <1>1, <1>5, <1>8, <1>9, <1>11, <1>12, <1>13, <1>14

Records == [i \in 1..Len(Listing) |-> Record(Listing[i])]
RecordsDue(k) == Behind(Records, k) \o FinalRecord

LEMMA RecordFacts ==
  ASSUME NEW i \in 1..Len(Listing), NEW r, r = Record(Listing[i])
  PROVE  /\ IsSequence(r) /\ Len(r) = RecordLen
         /\ AddrOf(r) = Listing[i]
         /\ r # FinalRecord
<1>1. PICK h, p : h = Listing[i].host /\ p = Listing[i].port
  OBVIOUS
<1>2. /\ h \in Hosts /\ p \in Seq(Digits) /\ Len(p) = 2 /\ p = <<p[1], p[2]>>
      /\ Listing[i] = [host |-> h, port |-> p]
  BY <1>1, ListingFacts
<1>3. PICK hs : hs = <<h>>
  OBVIOUS
<1>4. hs \in Seq({h}) /\ Len(hs) = 1 /\ hs[1] = h
  BY <1>3
<1>5. IsSequence(hs) /\ IsSequence(p)
  BY <1>2, <1>4, SequenceOf
<1>6. r = hs \o p
  BY <1>1, <1>3 DEF Record
<1>7. Len(hs) + Len(p) = 3
  BY <1>2, <1>4
<1>8. /\ IsSequence(r) /\ Len(r) = Len(hs) + Len(p)
      /\ \A k \in 1..Len(hs) + Len(p) : r[k] = IF k <= Len(hs) THEN hs[k] ELSE p[k - Len(hs)]
  BY <1>5, <1>6, ConcatSequences
<1>9. r[1] = h /\ r[2] = p[1] /\ r[3] = p[2]
  <2>1. \A k \in 1..3 : r[k] = IF k <= 1 THEN hs[k] ELSE p[k - 1]
    BY <1>4, <1>7, <1>8
  <2> QED
    BY <1>4, <2>1
<1>10. AddrOf(r) = Listing[i]
  BY <1>2, <1>9 DEF AddrOf
<1>11. r # FinalRecord
  <2>1. h # Backslash
    BY <1>2, SeparatorAssumption
  <2>2. FinalRecord[1] = Backslash
    BY DEF FinalRecord
  <2> QED
    BY <1>9, <2>1, <2>2
<1> QED
  BY <1>7, <1>8, <1>10, <1>11 DEF RecordLen

LEMMA FinalRecordFacts ==
  IsSequence(FinalRecord) /\ Len(FinalRecord) = RecordLen
<1>1. PICK b, f, n : b = Backslash /\ f = "fi" /\ n = "nal"
  OBVIOUS
<1>2. FinalRecord = <<b, f, n>>
  BY <1>1 DEF FinalRecord
<1>3. <<b, f, n>> \in Seq({b, f, n}) /\ Len(<<b, f, n>>) = 3
  OBVIOUS
<1> QED
  BY <1>2, <1>3, SequenceOf DEF RecordLen

LEMMA RecordsDueFacts ==
  /\ \A k \in 0..Len(Listing) : IsSequence(RecordsDue(k))
  /\ \A k \in 0..Len(Listing) :
       k < Len(Listing) => RecordsDue(k) = Record(Listing[k + 1]) \o RecordsDue(k + 1)
  /\ RecordsDue(Len(Listing)) = FinalRecord
  /\ RecordsDue(0) = FlattenSeq([i \in 1..Len(Listing) |-> Record(Listing[i])]) \o FinalRecord
<1>1. PICK n \in Nat : n = Len(Listing)
  BY ListingFacts
<1>2. Records = [i \in 1..n |-> Records[i]] /\ \A i \in 1..n : Records[i] = Record(Listing[i])
  BY <1>1 DEF Records
<1>3. \A i \in 1..n : IsSequence(Records[i])
  BY <1>1, <1>2, RecordFacts
<1>4. /\ \A k \in 0..n : IsSequence(Behind(Records, k))
      /\ \A k \in 0..n : k < n => Behind(Records, k) = Records[k + 1] \o Behind(Records, k + 1)
      /\ Behind(Records, n) = <<>>
      /\ Behind(Records, 0) = FlattenSeq(Records)
  BY <1>2, <1>3, BehindFacts
<1>5. \A k \in 0..n : IsSequence(RecordsDue(k))
  BY <1>4, FinalRecordFacts, ConcatSequences DEF RecordsDue
<1>6. ASSUME NEW k \in 0..n, k < n
      PROVE  RecordsDue(k) = Record(Listing[k + 1]) \o RecordsDue(k + 1)
  <2>1. k + 1 \in 0..n /\ k + 1 \in 1..n
    BY <1>6
  <2>2. IsSequence(Records[k + 1]) /\ IsSequence(Behind(Records, k + 1))
    BY <1>3, <1>4, <2>1
  <2>4. PICK r, b, f : r = Records[k + 1] /\ b = Behind(Records, k + 1) /\ f = FinalRecord
    OBVIOUS
  <2>5. IsSequence(r) /\ IsSequence(b) /\ IsSequence(f)
    BY <2>2, <2>4, FinalRecordFacts
  <2>6. (r \o b) \o f = r \o (b \o f)
    BY <2>5, ConcatRegroups
  <2>3. (Records[k + 1] \o Behind(Records, k + 1)) \o FinalRecord
          = Records[k + 1] \o (Behind(Records, k + 1) \o FinalRecord)
    BY <2>4, <2>6
  <2> QED
    BY <1>2, <1>4, <1>6, <2>1, <2>3 DEF RecordsDue
<1>7. RecordsDue(n) = FinalRecord
  BY <1>4, FinalRecordFacts, EmptyConcat DEF RecordsDue
<1>8. RecordsDue(0) = FlattenSeq(Records) \o FinalRecord
  BY <1>4 DEF RecordsDue
<1> QED
  BY <1>1, <1>5, <1>6, <1>7, <1>8, Zenon DEF Records

(* While no Read falls short, what is on the stream starts at a record.    *)
CompressedAt ==
  /\ InOrder
  /\ pc \in {"auth", "list", "done", "panic"}
  /\ pc = "auth" => /\ handled = <<>> /\ StartOf(stream, Greeting)
                    /\ ~lost => ~closed /\ stream = Greeting
  /\ pc = "list" => /\ StartOf(stream, RecordsDue(Len(handled)))
                    /\ ~lost => stream = RecordsDue(Len(handled))
  /\ pc = "done" /\ ~lost => Len(handled) = Len(Listing)

CompressedInv ==
  session.kind = "goa" /\ ~NoCompressedList =>
    /\ shortRead => pc # "auth"
    /\ ~shortRead => CompressedAt

CompressedOn ==
  session.kind = "goa" /\ session \in Sessions /\ ~NoCompressedList /\ ~shortRead /\ CompressedAt

LEMMA RecordsAuthenticate ==
  ASSUME CompressedOn, NEW n, Authenticate(n)
  PROVE  /\ CompressedInv'
         /\ [(~shortRead)' => Delivery!DeliveryNext]_(Delivery!deliveryVars)
<1>1. /\ pc = "auth" /\ n \in 1..Len(Greeting) /\ n <= Len(stream)
      /\ shortRead' = (n < Len(Greeting)) /\ handled' = handled /\ session' = session
      /\ lost' = lost
  BY DEF Authenticate, Reads
<1>2. handled = <<>> /\ StartOf(stream, Greeting) /\ (~lost => ~closed /\ stream = Greeting)
  BY <1>1 DEF CompressedOn, CompressedAt
<1>3. pc' \in {"list", "done"}
  BY DEF Authenticate
<1>4. ~over
  BY <1>1 DEF over
<1>5. InOrder' /\ [Delivery!DeliveryNext]_(Delivery!deliveryVars)
  BY <1>1, <1>4, NothingHandled DEF CompressedOn, CompressedAt
<1>6. IsSequence(Greeting) /\ Len(Greeting) \in Nat
  BY GreetingFacts, LenProperties DEF CompressedOn, IsSequence
<1>7. CASE n < Len(Greeting)
  BY <1>1, <1>3, <1>5, <1>7 DEF CompressedInv, CompressedAt
<1>8. CASE n = Len(Greeting)
  <2>1. PICK g, none : g = Greeting /\ none = <<>>
    OBVIOUS
  <2>2. IsSequence(g) /\ IsSequence(none) /\ g \o none = g
    BY <1>6, <2>1, EmptySequence, EmptyConcat
  <2>3. StartOf(stream, g \o none) /\ n = Len(g) /\ n <= Len(stream)
    BY <1>1, <1>2, <1>8, <2>1, <2>2
  <2>4. Chunk(n) = g /\ StartOf(Remaining(n), none)
    <3>1. IsSequence(g) /\ IsSequence(none) /\ StartOf(stream, g \o none) /\ n = Len(g) /\ n <= Len(stream)
      BY <2>2, <2>3
    <3>2. SubSeq(stream, 1, n) = g /\ StartOf(SubSeq(stream, n + 1, Len(stream)), none)
      BY <3>1, StartReadWhole
    <3> QED
      BY <3>2 DEF Chunk, Remaining
  <2>5. Remaining(n) = <<>>
    BY <2>1, <2>4, StartOfEmpty
  <2>6. Contains(Chunk(n), "secure") /\ ChallengeIn(Chunk(n)) = Challenge
    <3>1. Contains(Chunk(n), "secure")
      BY <2>1, <2>4, GreetingFacts DEF CompressedOn
    <3>2. MaxChallengeLen <= ChallengeRoom
      BY <3>1 DEF Authenticate
    <3> QED
      BY <2>1, <2>4, <3>1, <3>2, GreetingFacts DEF CompressedOn
  <2>7. pc' = "list" /\ stream' = IF ~closed THEN <<>> \o ListText ELSE <<>>
    BY <2>5, <2>6 DEF Authenticate
  <2>8. ListText = RecordsDue(0)
    BY RecordsDueFacts DEF CompressedOn, ListText
  <2>9. IsSequence(RecordsDue(0))
    BY RecordsDueFacts, ListingFacts
  <2>10. <<>> \o ListText = RecordsDue(0)
    BY <2>8, <2>9, EmptyConcat
  <2>11. Len(handled') = 0
    BY <1>1, <1>2, EmptySequence
  <2>12. StartOf(stream', RecordsDue(0)) /\ (~lost' => stream' = RecordsDue(0))
    BY <1>1, <1>2, <2>7, <2>9, <2>10, EmptyStart, WholeStart
  <2> QED
    BY <1>1, <1>5, <1>8, <2>7, <2>11, <2>12 DEF CompressedInv, CompressedAt
<1> QED
  BY <1>1, <1>6, <1>7, <1>8

LEMMA RecordRead ==
  ASSUME CompressedOn, NEW n, ReadRecord(n)
  PROVE  /\ CompressedInv'
         /\ [(~shortRead)' => Delivery!DeliveryNext]_(Delivery!deliveryVars)
<1>1. /\ pc = "list" /\ n \in 1..RecordLen /\ n <= Len(stream)
      /\ stream' = SubSeq(stream, n + 1, Len(stream))
      /\ serverListResponse' = Filled(SubSeq(stream, 1, n))
      /\ shortRead' = (shortRead \/ n < RecordLen) /\ session' = session /\ lost' = lost
      /\ IF serverListResponse' = FinalRecord
           THEN pc' = "done" /\ UNCHANGED handled
           ELSE pc' = "list" /\ handled' = Append(handled, AddrOf(serverListResponse'))
  BY DEF ReadRecord, Reads, Chunk, Remaining
<1>2. CASE n < RecordLen
  BY <1>1, <1>2 DEF CompressedInv, CompressedAt
<1>3. CASE n = RecordLen
  <2>1. /\ InOrder /\ StartOf(stream, RecordsDue(Len(handled)))
        /\ ~lost => stream = RecordsDue(Len(handled))
    BY <1>1 DEF CompressedOn, CompressedAt
  <2>2. PICK k : k = Len(handled)
    OBVIOUS
  <2>3. k \in 0..Len(Listing) /\ Len(Listing) \in Nat /\ Len(handled) \in Nat
    BY <2>1, <2>2, ListingFacts, LenProperties DEF InOrder, IsSequence
  <2>4. ~over /\ ~shortRead'
    <3>1. ~over /\ ~shortRead
      BY <1>1 DEF over, CompressedOn
    <3>2. ~(n < RecordLen)
      BY <1>3 DEF RecordLen
    <3> QED
      BY <1>1, <3>1, <3>2
  <2>5. ASSUME NEW chunk, IsSequence(chunk), Len(chunk) = RecordLen
        PROVE  Filled(chunk) = chunk
    <3>1. SubSeq(serverListResponse, RecordLen + 1, RecordLen) = <<>>
      <4>0. PICK m \in Nat : m = RecordLen
        BY DEF RecordLen
      <4>1. PICK q : q = SubSeq(serverListResponse, m + 1, m)
        OBVIOUS
      <4>2. \A i \in m + 1..m : serverListResponse[i] \in {}
        OBVIOUS
      <4>3. q \in Seq({}) /\ Len(q) = IF m + 1 <= m THEN m - (m + 1) + 1 ELSE 0
        BY <4>1, <4>2, SubSeqProperties
      <4>4. q = <<>>
        BY <4>3, EmptySeq
      <4> QED
        BY <4>0, <4>1, <4>4
    <3> QED
      BY <2>5, <3>1, EmptyConcat DEF Filled
  <2>6. CASE k < Len(Listing)
    <3>1. PICK r, a : r = Record(Listing[k + 1]) /\ a = RecordsDue(k + 1)
      OBVIOUS
    <3>2. k + 1 \in 1..Len(Listing) /\ k + 1 \in 0..Len(Listing)
      BY <2>3, <2>6
    <3>3. /\ IsSequence(r) /\ Len(r) = RecordLen /\ AddrOf(r) = Listing[k + 1]
          /\ r # FinalRecord
      BY <3>1, <3>2, RecordFacts
    <3>4. IsSequence(a) /\ RecordsDue(k) = r \o a
      BY <2>3, <2>6, <3>1, <3>2, RecordsDueFacts
    <3>5. StartOf(stream, r \o a) /\ n = Len(r)
      BY <1>3, <2>1, <2>2, <3>3, <3>4
    <3>6. /\ SubSeq(stream, 1, n) = r /\ StartOf(stream', a)
          /\ stream = r \o a => stream' = a
      <4>1. IsSequence(r) /\ IsSequence(a) /\ StartOf(stream, r \o a) /\ n = Len(r) /\ n <= Len(stream)
        BY <1>1, <3>3, <3>4, <3>5
      <4>2. /\ SubSeq(stream, 1, n) = r /\ StartOf(SubSeq(stream, n + 1, Len(stream)), a)
            /\ stream = r \o a => SubSeq(stream, n + 1, Len(stream)) = a
        BY <4>1, ReadPart
      <4> QED
        BY <1>1, <4>2
    <3>7. serverListResponse' = r
      BY <1>1, <2>5, <3>3, <3>6
    <3>8. pc' = "list" /\ handled' = Append(handled, Listing[Len(handled) + 1])
      BY <1>1, <2>2, <3>3, <3>7
    <3>9. InOrder' /\ Len(handled') = Len(handled) + 1 /\ Delivery!DeliveryNext
      BY <2>1, <2>2, <2>4, <2>6, <3>8, NextHandled
    <3>10. Len(handled') = k + 1
      BY <2>2, <3>9
    <3>11. StartOf(stream', RecordsDue(Len(handled')))
      BY <3>1, <3>6, <3>10
    <3>12. ~lost' => stream' = RecordsDue(Len(handled'))
      BY <1>1, <2>1, <2>2, <3>1, <3>4, <3>6, <3>10
    <3> QED
      BY <3>8, <3>9, <3>11, <3>12 DEF CompressedInv, CompressedAt
  <2>7. CASE k = Len(Listing)
    <3>1. PICK none : none = <<>>
      OBVIOUS
    <3>2. IsSequence(FinalRecord) /\ IsSequence(none) /\ FinalRecord \o none = FinalRecord
      BY <3>1, FinalRecordFacts, EmptySequence, EmptyConcat
    <3>3. StartOf(stream, FinalRecord \o none) /\ n = Len(FinalRecord)
      BY <1>3, <2>1, <2>2, <2>7, <3>2, RecordsDueFacts, FinalRecordFacts
    <3>4. SubSeq(stream, 1, n) = FinalRecord
      <4>1. n <= Len(stream)
        BY <1>1
      <4> QED
        BY <3>2, <3>3, <4>1, StartReadWhole
    <3>5. serverListResponse' = FinalRecord
      BY <1>1, <2>5, <3>2, <3>4, FinalRecordFacts
    <3>6. pc' = "done" /\ handled' = handled
      BY <1>1, <3>5
    <3>7. InOrder' /\ [Delivery!DeliveryNext]_(Delivery!deliveryVars)
      BY <2>1, <2>4, <3>6, NothingHandled
    <3> QED
      BY <2>2, <2>7, <3>6, <3>7 DEF CompressedInv, CompressedAt
  <2> QED
    BY <2>3, <2>6, <2>7
<1> QED
  <2>1. n = RecordLen \/ n < RecordLen
    BY <1>1 DEF RecordLen
  <2> QED
    BY <1>2, <1>3, <2>1

LEMMA CompressedCloses ==
  ASSUME CompressedOn, MasterCloses
  PROVE  /\ CompressedInv'
         /\ [(~shortRead)' => Delivery!DeliveryNext]_(Delivery!deliveryVars)
<1>1. /\ UNCHANGED <<session, pc, handled, shortRead>>
      /\ \E n \in 0..Len(stream) :
           /\ stream' = SubSeq(stream, 1, n)
           /\ lost' = (lost \/ Owed \/ n < Len(stream))
  BY DEF MasterCloses
<1>2. PICK n \in 0..Len(stream) :
        /\ stream' = SubSeq(stream, 1, n)
        /\ lost' = (lost \/ Owed \/ n < Len(stream))
  BY <1>1
<1>3. over' = over
  BY <1>1 DEF over
<1>4. InOrder' /\ [Delivery!DeliveryNext]_(Delivery!deliveryVars)
  BY <1>1, <1>3, NothingHandled DEF CompressedOn, CompressedAt
<1>5. CASE pc = "auth"
  <2>1. lost'
    BY <1>2, <1>5 DEF Owed
  <2>2. StartOf(stream', Greeting)
    BY <1>2, <1>5, StartCut DEF CompressedOn, CompressedAt
  <2>3. Greeting' = Greeting
    BY <1>1 DEF Greeting
  <2> QED
    BY <1>1, <1>4, <1>5, <2>1, <2>2, <2>3 DEF CompressedOn, CompressedInv, CompressedAt
<1>6. CASE pc = "list"
  <2>1. PICK d : d = RecordsDue(Len(handled))
    OBVIOUS
  <2>2. StartOf(stream, d) /\ (~lost => stream = d)
    BY <1>6, <2>1 DEF CompressedOn, CompressedAt
  <2>3. StartOf(stream', d)
    BY <1>2, <2>2, StartCut
  <2>4. ~lost' => stream' = d
    <3>1. SUFFICES ASSUME ~lost, n >= Len(stream)
                   PROVE  stream' = d
      <4>1. Len(stream) \in Nat
        BY <2>2, LenProperties DEF StartOf, IsSequence
      <4>2. ~lost' => ~lost /\ ~(n < Len(stream))
        BY <1>2, Zenon
      <4>3. ~(n < Len(stream)) => n >= Len(stream)
        BY <4>1
      <4> QED
        BY <4>2, <4>3
    <3>2. IsSequence(stream) /\ Len(stream) \in Nat
      BY <2>2, LenProperties DEF StartOf, IsSequence
    <3>3. n = Len(stream)
      BY <3>1, <3>2
    <3>4. PICK none : none = <<>>
      OBVIOUS
    <3>5. SubSeq(stream \o none, 1, Len(stream)) = stream /\ stream \o none = stream
      BY <3>2, <3>4, EmptySequence, EmptyConcat, ConcatCut
    <3> QED
      BY <1>2, <2>2, <3>1, <3>3, <3>5
  <2> QED
    BY <1>1, <1>4, <1>6, <2>1, <2>3, <2>4 DEF CompressedOn, CompressedInv, CompressedAt
<1>7. CASE pc \in {"done", "panic"}
  BY <1>1, <1>2, <1>4, <1>7 DEF CompressedOn, CompressedInv, CompressedAt
<1> QED
  BY <1>5, <1>6, <1>7 DEF CompressedOn, CompressedAt

LEMMA CompressedDelivers ==
  ASSUME CompressedInv, session.kind = "goa", session \in Sessions, ~NoCompressedList,
         MasterCloses \/ ReaderNext \/ UNCHANGED vars
  PROVE  /\ CompressedInv'
         /\ [(~shortRead)' => Delivery!DeliveryNext]_(Delivery!deliveryVars)
<1>1. session' = session
  BY DEF MasterCloses, ReaderNext, Authenticate, ChallengePanics, ReadText, ReadRecord, Handles,
         HandlePiece, EntryPanics, KeepPiece, HandleTail, TextEnds, RecordsEnd, Fails, AuthenticateFails, TextReadFails,
         RecordReadFails, ReadFails, ReadErr, CloseConnection, vars, sessionVars
<1>2. CASE shortRead
  <2>1. pc # "auth"
    BY <1>2 DEF CompressedInv
  <2>2. shortRead' /\ pc' # "auth"
    BY <1>2, <2>1 DEF MasterCloses, ReaderNext, Authenticate, ChallengePanics, ReadText, ReadRecord,
         Handles, HandlePiece, EntryPanics, KeepPiece, HandleTail, TextEnds, RecordsEnd, Fails, AuthenticateFails,
         TextReadFails, RecordReadFails, ReadFails, ReadErr, CloseConnection, vars, sessionVars,
         histories
  <2> QED
    BY <2>2 DEF CompressedInv
<1>3. CASE ~shortRead
  <2>1. CompressedOn
    BY <1>3 DEF CompressedInv, CompressedOn
  <2>2. pc \in {"auth", "list", "done", "panic"} /\ InOrder
    BY <2>1 DEF CompressedOn, CompressedAt
  <2>3. ASSUME UNCHANGED <<session, pc, stream, closed, handled, shortRead, lost>>
        PROVE  /\ CompressedInv'
               /\ [(~shortRead)' => Delivery!DeliveryNext]_(Delivery!deliveryVars)
    <3>1. over' = over /\ Greeting' = Greeting
      BY <2>3 DEF over, Greeting
    <3>2. InOrder'
      BY <2>2, <2>3, <3>1, NothingHandled
    <3> QED
      BY <2>1, <2>3, <3>1, <3>2 DEF CompressedOn, CompressedInv, CompressedAt, Delivery!deliveryVars
  <2>4. ASSUME NEW from, NEW to \in {"done", "tail"}, ReadFails(from, to), to = "done"
        PROVE  /\ CompressedInv'
               /\ [(~shortRead)' => Delivery!DeliveryNext]_(Delivery!deliveryVars)
    <3>1. pc' = "done" /\ lost' /\ handled' = handled /\ shortRead' = shortRead
      BY <2>4 DEF ReadFails, ReadErr
    <3>2. InOrder' /\ [Delivery!DeliveryNext]_(Delivery!deliveryVars)
      BY <2>2, <3>1, NothingHandled DEF over
    <3> QED
      BY <1>3, <3>1, <3>2 DEF CompressedInv, CompressedAt
  <2>5. CASE RecordsEnd
    <3>1. /\ pc = "list" /\ stream = <<>> /\ pc' = "done"
          /\ UNCHANGED <<handled, shortRead, lost>>
      BY <2>5 DEF RecordsEnd, histories
    <3>2. lost
      <4>1. PICK k : k = Len(handled)
        OBVIOUS
      <4>2. k \in 0..Len(Listing) /\ Len(Listing) \in Nat
        BY <2>2, <4>1, ListingFacts, LenProperties DEF InOrder, IsSequence
      <4>3. RecordsDue(k) # <<>>
        <5>1. PICK r, a : /\ IsSequence(r) /\ Len(r) = RecordLen /\ IsSequence(a)
                          /\ RecordsDue(k) = r \o a
          <6>1. CASE k < Len(Listing)
            <7>1. k + 1 \in 1..Len(Listing) /\ k + 1 \in 0..Len(Listing)
              BY <4>2, <6>1
            <7>2. PICK r, a : r = Record(Listing[k + 1]) /\ a = RecordsDue(k + 1)
              OBVIOUS
            <7>3. IsSequence(r) /\ Len(r) = RecordLen
              BY <7>1, <7>2, RecordFacts
            <7>4. IsSequence(a) /\ RecordsDue(k) = r \o a
              BY <4>2, <6>1, <7>1, <7>2, RecordsDueFacts
            <7> QED
              BY <7>3, <7>4
          <6>2. CASE k = Len(Listing)
            <7>1. FinalRecord = FinalRecord \o <<>>
              BY FinalRecordFacts, EmptyConcat
            <7> QED
              BY <6>2, <7>1, FinalRecordFacts, RecordsDueFacts, EmptySequence
          <6> QED
            BY <4>2, <6>1, <6>2
        <5>2. Len(r \o a) = Len(r) + Len(a) /\ Len(a) \in Nat
          BY <5>1, ConcatSequences
        <5>3. Len(r \o a) > 0
          BY <5>1, <5>2 DEF RecordLen
        <5> QED
          BY <5>1, <5>3, EmptySequence
      <4> QED
        BY <2>1, <3>1, <4>1, <4>3 DEF CompressedOn, CompressedAt
    <3>3. InOrder' /\ [Delivery!DeliveryNext]_(Delivery!deliveryVars)
      BY <2>2, <3>1, NothingHandled DEF over
    <3> QED
      BY <1>3, <3>1, <3>2, <3>3 DEF CompressedInv, CompressedAt
  <2>6. CASE MasterCloses
    BY <2>1, <2>6, CompressedCloses
  <2>7. CASE UNCHANGED vars
    BY <2>3, <2>7 DEF vars, sessionVars, networkVars, histories
  <2>8. CASE CloseConnection
    BY <2>3, <2>8 DEF CloseConnection, histories
  <2>9. CASE \E n \in 1..(Len(Greeting) + Len(ListText)) :
               Authenticate(n) \/ ChallengePanics(n) \/ ReadText(n) \/ ReadRecord(n)
    <3>1. PICK n : Authenticate(n) \/ ChallengePanics(n) \/ ReadText(n) \/ ReadRecord(n)
      BY <2>9
    <3>2. ~ReadText(n)
      BY DEF ReadText
    <3>3. CASE ChallengePanics(n)
      <4>1. pc' = "panic" /\ handled' = handled
        BY <3>3 DEF ChallengePanics
      <4>2. InOrder' /\ [Delivery!DeliveryNext]_(Delivery!deliveryVars)
        BY <2>2, <4>1, NothingHandled DEF over
      <4> QED
        BY <4>1, <4>2 DEF CompressedInv, CompressedAt
    <3> QED
      BY <2>1, <3>1, <3>2, <3>3, RecordsAuthenticate, RecordRead
  <2>10. ~Handles /\ ~TextEnds
    BY <2>2 DEF Handles, HandlePiece, EntryPanics, KeepPiece, HandleTail, TextEnds
  <2>11. CASE Fails
    BY <2>4, <2>11 DEF Fails, AuthenticateFails, TextReadFails, RecordReadFails
  <2> QED
    BY <2>5, <2>6, <2>7, <2>8, <2>9, <2>10, <2>11 DEF ReaderNext
<1> QED
  BY <1>2, <1>3
=============================================================================
