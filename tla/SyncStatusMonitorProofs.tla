---------------------- MODULE SyncStatusMonitorProofs ----------------------
(***************************************************************************)
(* Proofs about the status monitor, for every set of engines and addresses *)
(* and every MAX_ATTEMPTS; last, that it implements QueryTracker when the  *)
(* addresses are in IPv4 form.                                             *)
(***************************************************************************)
EXTENDS SyncStatusMonitor, ListLemmas

Abandoned == [engine : QueryEngines, address : AddrPort]

(* What the search of BeginQuery and CompleteQuery returns. *)
LEMMA QueryIndexProperties ==
  ASSUME queryList \in Seq(QueryItem), NEW qe, NEW a
  PROVE  /\ QueryIndex(qe, a) \in 0..Len(queryList)
         /\ QueryIndex(qe, a) # 0 => Matches(queryList[QueryIndex(qe, a)], qe, a)
         /\ QueryIndex(qe, a) = 0 =>
              \A i \in 1..Len(queryList) : ~Matches(queryList[i], qe, a)
<1> DEFINE I == {i \in 1..Len(queryList) : Matches(queryList[i], qe, a)}
<1>1. Len(queryList) \in Nat
  BY LenProperties
<1>2. QueryIndex(qe, a) = IF I # {} THEN Min(I) ELSE 0
  BY DEF QueryIndex, SelectInSeq
<1>3. CASE I # {}
  <2>1. I \in SUBSET Nat
    BY <1>1
  <2>2. Min(I) \in I
    BY <2>1, <1>3, LeastElement
  <2> QED
    BY <2>2, <1>1, <1>2, <1>3
<1>4. CASE I = {}
  BY <1>1, <1>2, <1>4
<1> QED
  BY <1>3, <1>4

(* Removing the query at i keeps Think's cursor inside the list, and moves *)
(* it off the element that is gone.                                        *)
LEMMA RemoveQueryType ==
  ASSUME TypeOK, NEW i \in 1..Len(queryList), RemoveQuery(i)
  PROVE  /\ queryList' \in Seq(QueryItem)
         /\ thinkPc' \in {"idle", "scan", "abandon"}
         /\ cursor' \in 0..Len(queryList')
         /\ cursor' # 0 => thinkPc' = "scan"
<1>1. /\ queryList \in Seq(QueryItem)
      /\ Len(queryList) \in Nat
      /\ cursor \in 0..Len(queryList)
  BY LenProperties DEF TypeOK
<1>2. queryList' \in Seq(QueryItem) /\ Len(queryList') = Len(queryList) - 1
  BY <1>1, RemoveAtProperties DEF RemoveQuery
<1>3. CASE i = cursor
  BY <1>1, <1>2, <1>3 DEF RemoveQuery
<1>4. CASE i # cursor
  <2>1. /\ thinkPc' = thinkPc
        /\ cursor' = IF i < cursor THEN cursor - 1 ELSE cursor
    BY <1>4 DEF RemoveQuery
  <2>2. cursor' \in 0..Len(queryList') /\ (cursor' # 0 => cursor # 0)
    BY <2>1, <1>1, <1>2, <1>4
  <2> QED
    BY <2>1, <2>2, <1>2 DEF TypeOK
<1> QED
  BY <1>3, <1>4

(* CompleteQuery keeps the types, whatever becomes of toComplete. *)
LEMMA CompleteQueryType ==
  ASSUME TypeOK, NEW qe, NEW a, CompleteQuery(qe, a),
         toComplete' \in Seq(Abandoned)
  PROVE  TypeOK'
<1> DEFINE i == QueryIndex(qe, a)
<1>1. /\ queryList \in Seq(QueryItem)
      /\ i \in 0..Len(queryList)
      /\ Len(queryList) \in Nat
  BY QueryIndexProperties, LenProperties DEF TypeOK
<1>2. CASE i # 0
  <2>1. i \in 1..Len(queryList) /\ RemoveQuery(i)
    BY <1>1, <1>2 DEF CompleteQuery
  <2>2. serverEngineList' \in Seq(ListEngines)
    <3>1. \/ serverEngineList' = serverEngineList
          \/ serverEngineList' = RemoveFirst(serverEngineList, queryList[i].listEngine)
      BY <1>2 DEF CompleteQuery, EngineEnds
    <3> QED
      BY <3>1, RemoveFirstType DEF TypeOK
  <2> QED
    BY <2>1, <2>2, RemoveQueryType DEF TypeOK, Abandoned
<1>3. CASE i = 0
  BY <1>3 DEF CompleteQuery, TypeOK, Abandoned
<1> QED
  BY <1>2, <1>3

(* A query as BeginQuery stores it. *)
LEMMA NewItemType ==
  ASSUME NEW le \in ListEngines, NEW qe \in QueryEngines, NEW a \in Addresses
  PROVE  NewItem(le, qe, a) \in QueryItem
BY MonitorAssumption DEF NewItem, QueryItem

-----------------------------------------------------------------------------
(* Type correctness. *)

LEMMA InitTypeOK == Init => TypeOK
BY EmptySeq DEF Init, TypeOK

(* Every call keeps the types. *)
LEMMA NextTypeOK == TypeOK /\ [Next]_monitorVars => TypeOK'
<1> SUFFICES ASSUME TypeOK, [Next]_monitorVars
             PROVE  TypeOK'
  OBVIOUS
<1> USE DEF Abandoned
<1>0. /\ queryList \in Seq(QueryItem)
      /\ serverEngineList \in Seq(ListEngines)
      /\ toComplete \in Seq(Abandoned)
      /\ Len(queryList) \in Nat
      /\ cursor \in 0..Len(queryList)
      /\ \A i \in 1..Len(queryList) : queryList[i] \in QueryItem
  BY LenProperties, ElementOfSeq DEF TypeOK
<1>1. CASE UNCHANGED monitorVars
  BY <1>1 DEF monitorVars, TypeOK
<1>2. ASSUME NEW le \in ListEngines, ClientBegins(le)
      PROVE  TypeOK'
  <2>1. serverEngineList' \in Seq(ListEngines)
    BY <1>2, <1>0, PushFrontProperties DEF ClientBegins, BeginServerListEngine
  <2> QED
    BY <2>1, <1>2 DEF ClientBegins, BeginServerListEngine, TypeOK
<1>3. ASSUME NEW le \in ListEngines, EndServerListEngine(le)
      PROVE  TypeOK'
  <2>1. serverEngineList' \in Seq(ListEngines)
    BY <1>3, <1>0, RemoveFirstType DEF EndServerListEngine, EngineEnds
  <2> QED
    BY <2>1, <1>3 DEF EndServerListEngine, TypeOK
<1>4. ASSUME NEW le \in ListEngines, NEW qe \in QueryEngines, NEW a \in Addresses,
             BeginQuery(le, qe, a)
      PROVE  TypeOK'
  <2>1. queryList' \in Seq(QueryItem) /\ Len(queryList') = Len(queryList) + 1
    BY <1>4, <1>0, NewItemType, PushFrontProperties DEF BeginQuery
  <2>2. cursor' \in 0..Len(queryList') /\ (cursor' # 0 => cursor # 0)
    BY <2>1, <1>4, <1>0 DEF BeginQuery
  <2> QED
    BY <2>1, <2>2, <1>4 DEF BeginQuery, TypeOK
<1>5. ASSUME NEW qe \in QueryEngines, NEW a \in Addresses,
             BeginQueryDuplicate(qe, a)
      PROVE  TypeOK'
  BY <1>5 DEF BeginQueryDuplicate, monitorVars, TypeOK
<1>6. ASSUME NEW qe \in QueryEngines, NEW a \in Addresses, ClientCompletes(qe, a)
      PROVE  TypeOK'
  BY <1>6, <1>0, CompleteQueryType DEF ClientCompletes
<1>7. CASE ThinkBegin
  BY <1>7 DEF ThinkBegin, TypeOK
<1>8. ASSUME NEW i \in 1..Len(queryList), ThinkCollect(i)
      PROVE  TypeOK'
  <2>1. [engine |-> queryList[i].engine, address |-> queryList[i].address] \in Abandoned
    BY <1>0 DEF QueryItem
  <2>2. toComplete' \in Seq(Abandoned)
    BY <2>1, <1>0, <1>8, AppendProperties DEF ThinkCollect
  <2> QED
    BY <2>2, <1>0, <1>8 DEF ThinkCollect, ThinkVisits, TypeOK
<1>9. ASSUME NEW i \in 1..Len(queryList), ThinkResend(i)
      PROVE  TypeOK'
  <2> DEFINE c == [queryList[i] EXCEPT !.stale = FALSE, !.numAttempts = @ + 1]
  <2>0. /\ queryList[i] \in QueryItem
        /\ queryList[i].numAttempts + 1 \in Nat
    BY <1>0 DEF QueryItem
  <2>1. c \in QueryItem
    BY <2>0, Zenon DEF QueryItem
  <2>2. queryList' = [queryList EXCEPT ![i] = c]
    BY <1>9 DEF ThinkResend
  <2>3. queryList' \in Seq(QueryItem) /\ Len(queryList') = Len(queryList)
    BY <2>1, <2>2, <1>0, ExceptSeq
  <2> QED
    BY <2>3, <1>0, <1>9 DEF ThinkResend, ThinkVisits, TypeOK
<1>10. ASSUME NEW i \in 1..Len(queryList), ThinkSkip(i)
       PROVE  TypeOK'
  BY <1>10, <1>0 DEF ThinkSkip, ThinkVisits, TypeOK
<1>11. CASE ThinkScanEnds
  BY <1>11, <1>0 DEF ThinkScanEnds, TypeOK
<1>12. CASE ThinkAbandon
  <2>1. toComplete' \in Seq(Abandoned)
    BY <1>12, <1>0, HeadTailProperties DEF ThinkAbandon
  <2> QED
    BY <2>1, <1>12, CompleteQueryType DEF ThinkAbandon
<1>13. CASE ThinkReturns
  BY <1>13 DEF ThinkReturns, TypeOK
<1>14. ASSUME NEW i \in 1..Len(queryList), RetryIntervalElapses(i)
       PROVE  TypeOK'
  <2> DEFINE c == [queryList[i] EXCEPT !.stale = TRUE]
  <2>1. c \in QueryItem
    BY <1>0 DEF QueryItem
  <2>2. queryList' = [queryList EXCEPT ![i] = c]
    BY <1>14 DEF RetryIntervalElapses
  <2>3. queryList' \in Seq(QueryItem) /\ Len(queryList') = Len(queryList)
    BY <2>1, <2>2, <1>0, ExceptSeq
  <2> QED
    BY <2>3, <1>14 DEF RetryIntervalElapses, TypeOK
<1> QED
  BY <1>1, <1>2, <1>3, <1>4, <1>5, <1>6, <1>7, <1>8, <1>9, <1>10, <1>11,
     <1>12, <1>13, <1>14 DEF Next, ThinkNext

(* The monitor's state is well typed, and Think's cursor is inside the     *)
(* list, whatever the other goroutines do to the list meanwhile.           *)
THEOREM MonitorTypeOK == MonitorSpec => []TypeOK
<1> QED
  BY InitTypeOK, NextTypeOK, PTL DEF MonitorSpec

-----------------------------------------------------------------------------
(* What a step does to the list of pending queries. *)

Pushed(le, qe, a) ==
  QueryIndex(qe, a) = 0 /\ queryList' = <<NewItem(le, qe, a)>> \o queryList

Removed(i) == queryList' = RemoveAt(queryList, i)

Resent(i) ==
  /\ ~Exhausted(queryList[i])
  /\ queryList' = [queryList EXCEPT ![i].stale = FALSE, ![i].numAttempts = @ + 1]

Aged(i) == queryList' = [queryList EXCEPT ![i].stale = TRUE]

(* A step leaves the list alone, pushes a query that has no match, removes *)
(* one query, counts one attempt of a query that has attempts left, or     *)
(* lets time pass.                                                         *)
LEMMA ListStep ==
  ASSUME TypeOK, [Next]_monitorVars
  PROVE  \/ queryList' = queryList
         \/ \E le \in ListEngines, qe \in QueryEngines, a \in Addresses :
              Pushed(le, qe, a)
         \/ \E i \in 1..Len(queryList) : Removed(i) \/ Resent(i) \/ Aged(i)
<1>1. CASE UNCHANGED monitorVars
  BY <1>1 DEF monitorVars
<1>2. ASSUME NEW le \in ListEngines, NEW qe \in QueryEngines, NEW a \in Addresses,
             BeginQuery(le, qe, a)
      PROVE  Pushed(le, qe, a)
  BY <1>2 DEF BeginQuery, Pushed
<1>3. ASSUME NEW qe, NEW a, CompleteQuery(qe, a)
      PROVE  \/ queryList' = queryList
             \/ \E i \in 1..Len(queryList) : Removed(i)
  <2>1. QueryIndex(qe, a) \in 0..Len(queryList) /\ Len(queryList) \in Nat
    BY QueryIndexProperties, LenProperties DEF TypeOK
  <2>2. CASE QueryIndex(qe, a) = 0
    BY <1>3, <2>2 DEF CompleteQuery
  <2>3. CASE QueryIndex(qe, a) # 0
    <3>1. QueryIndex(qe, a) \in 1..Len(queryList)
      BY <2>1, <2>3
    <3>2. Removed(QueryIndex(qe, a))
      BY <1>3, <2>3 DEF CompleteQuery, RemoveQuery, Removed
    <3> QED
      BY <3>1, <3>2
  <2> QED
    BY <2>2, <2>3
<1>4. ASSUME NEW i \in 1..Len(queryList), ThinkResend(i)
      PROVE  Resent(i)
  BY <1>4 DEF ThinkResend, Resent
<1>5. ASSUME NEW i \in 1..Len(queryList), RetryIntervalElapses(i)
      PROVE  Aged(i)
  BY <1>5 DEF RetryIntervalElapses, Aged
<1>6. ASSUME \/ \E le \in ListEngines : ClientBegins(le) \/ EndServerListEngine(le)
             \/ \E qe \in QueryEngines, a \in Addresses : BeginQueryDuplicate(qe, a)
             \/ \E i \in 1..Len(queryList) : ThinkCollect(i) \/ ThinkSkip(i)
             \/ ThinkBegin \/ ThinkScanEnds \/ ThinkReturns
      PROVE  queryList' = queryList
  BY <1>6 DEF ClientBegins, BeginServerListEngine, EndServerListEngine,
     BeginQueryDuplicate, monitorVars, ThinkCollect, ThinkSkip, ThinkBegin,
     ThinkScanEnds, ThinkReturns
<1> QED
  BY <1>1, <1>2, <1>3, <1>4, <1>5, <1>6
     DEF Next, ThinkNext, ClientCompletes, ThinkAbandon

(* Two queries for the same server of the same engines, perhaps counted    *)
(* differently.                                                            *)
SameQuery(c, d) ==
  /\ c.engine = d.engine
  /\ c.address = d.address
  /\ c.listEngine = d.listEngine

(* The items of the list with i taken out come from other places than i. *)
LEMMA RemovedItems ==
  ASSUME TypeOK, NEW i \in 1..Len(queryList), Removed(i)
  PROVE  /\ \A j \in 1..Len(queryList') :
              \E k \in 1..Len(queryList) : k # i /\ queryList'[j] = queryList[k]
         /\ \A k \in 1..Len(queryList) : k # i =>
              \E j \in 1..Len(queryList') : queryList'[j] = queryList[k]
<1>1. queryList \in Seq(QueryItem) /\ Len(queryList) \in Nat
  BY LenProperties DEF TypeOK
<1>2. /\ Len(queryList') = Len(queryList) - 1
      /\ \A j \in 1..Len(queryList) - 1 :
           queryList'[j] = IF j < i THEN queryList[j] ELSE queryList[j + 1]
  BY <1>1, RemoveAtProperties DEF Removed
<1>3. ASSUME NEW j \in 1..Len(queryList')
      PROVE  \E k \in 1..Len(queryList) : k # i /\ queryList'[j] = queryList[k]
  <2>1. CASE j < i
    <3>1. j \in 1..Len(queryList) /\ j # i /\ queryList'[j] = queryList[j]
      BY <1>1, <1>2, <2>1
    <3> QED
      BY <3>1
  <2>2. CASE ~(j < i)
    <3>1. j + 1 \in 1..Len(queryList) /\ j + 1 # i /\ queryList'[j] = queryList[j + 1]
      BY <1>1, <1>2, <2>2
    <3> QED
      BY <3>1
  <2> QED
    BY <2>1, <2>2
<1>4. ASSUME NEW k \in 1..Len(queryList), k # i
      PROVE  \E j \in 1..Len(queryList') : queryList'[j] = queryList[k]
  <2>1. CASE k < i
    <3>1. k \in 1..Len(queryList') /\ queryList'[k] = queryList[k]
      BY <1>1, <1>2, <2>1
    <3> QED
      BY <3>1
  <2>2. CASE ~(k < i)
    <3>1. /\ k - 1 \in 1..Len(queryList')
          /\ ~(k - 1 < i)
          /\ (k - 1) + 1 = k
      BY <1>1, <1>2, <2>2, <1>4
    <3>2. queryList'[k - 1] = queryList[(k - 1) + 1]
      BY <1>1, <1>2, <3>1
    <3> QED
      BY <3>1, <3>2
  <2> QED
    BY <2>1, <2>2
<1> QED
  BY <1>3, <1>4

(* The items of the list with a new one pushed to the front. *)
LEMMA PushedItems ==
  ASSUME TypeOK, NEW le \in ListEngines, NEW qe \in QueryEngines, NEW a \in Addresses,
         queryList' = <<NewItem(le, qe, a)>> \o queryList
  PROVE  /\ Len(queryList') = Len(queryList) + 1
         /\ 1 \in 1..Len(queryList')
         /\ queryList'[1] = NewItem(le, qe, a)
         /\ \A j \in 1..Len(queryList') :
              j # 1 => j - 1 \in 1..Len(queryList) /\ queryList'[j] = queryList[j - 1]
         /\ \A k \in 1..Len(queryList) :
              k + 1 \in 1..Len(queryList') /\ queryList'[k + 1] = queryList[k]
<1>1. queryList \in Seq(QueryItem) /\ Len(queryList) \in Nat
  BY LenProperties DEF TypeOK
<1> DEFINE new == NewItem(le, qe, a)
<1>2. new \in QueryItem
  BY NewItemType
<1> HIDE DEF new
<1>3. /\ Len(queryList') = Len(queryList) + 1
      /\ \A j \in 1..Len(queryList) + 1 :
           queryList'[j] = IF j = 1 THEN new ELSE queryList[j - 1]
  BY <1>1, <1>2, PushFrontProperties DEF new
<1>4. queryList'[1] = new
  BY <1>1, <1>3
<1>5. ASSUME NEW k \in 1..Len(queryList)
      PROVE  k + 1 \in 1..Len(queryList') /\ queryList'[k + 1] = queryList[k]
  <2>1. k + 1 \in 1..Len(queryList) + 1 /\ k + 1 # 1 /\ (k + 1) - 1 = k
    BY <1>1
  <2>2. queryList'[k + 1] = queryList[(k + 1) - 1]
    BY <1>3, <2>1
  <2> QED
    BY <1>3, <2>1, <2>2
<1> QED
  BY <1>1, <1>3, <1>4, <1>5 DEF new

(* The items of the list after Think counted an attempt, or time passed. *)
LEMMA UpdatedItems ==
  ASSUME TypeOK, NEW i \in 1..Len(queryList), Resent(i) \/ Aged(i)
  PROVE  /\ Len(queryList') = Len(queryList)
         /\ \A j \in 1..Len(queryList) :
              /\ SameQuery(queryList'[j], queryList[j])
              /\ j # i \/ Aged(i) =>
                   queryList'[j].numAttempts = queryList[j].numAttempts
         /\ Resent(i) => queryList'[i].numAttempts = queryList[i].numAttempts + 1
<1>1. /\ queryList \in Seq(QueryItem)
      /\ Len(queryList) \in Nat
      /\ \A j \in 1..Len(queryList) : queryList[j] \in QueryItem
  BY LenProperties, ElementOfSeq DEF TypeOK
<1>2. CASE Resent(i)
  <2> DEFINE c == [queryList[i] EXCEPT !.stale = FALSE, !.numAttempts = @ + 1]
  <2>1. queryList' = [queryList EXCEPT ![i] = c]
    BY <1>2 DEF Resent
  <2>2. SameQuery(c, queryList[i]) /\ c.numAttempts = queryList[i].numAttempts + 1
    BY <1>1, Zenon DEF QueryItem, SameQuery
  <2> HIDE DEF c
  <2>3. /\ Len(queryList') = Len(queryList)
        /\ queryList'[i] = c
        /\ \A j \in 1..Len(queryList) : j # i => queryList'[j] = queryList[j]
    BY <1>1, <2>1
  <2>4. ~Aged(i) \/ queryList'[i].numAttempts = queryList[i].numAttempts
    <3> DEFINE d == [queryList[i] EXCEPT !.stale = TRUE]
    <3>1. d.numAttempts = queryList[i].numAttempts
      BY <1>1, Zenon DEF QueryItem
    <3>2. Aged(i) => queryList' = [queryList EXCEPT ![i] = d]
      BY DEF Aged
    <3> HIDE DEF d
    <3> QED
      BY <1>1, <3>1, <3>2
  <2> QED
    BY <2>2, <2>3, <2>4 DEF SameQuery
<1>3. CASE Aged(i) /\ ~Resent(i)
  <2> DEFINE c == [queryList[i] EXCEPT !.stale = TRUE]
  <2>1. queryList' = [queryList EXCEPT ![i] = c]
    BY <1>3 DEF Aged
  <2>2. SameQuery(c, queryList[i]) /\ c.numAttempts = queryList[i].numAttempts
    BY <1>1, Zenon DEF QueryItem, SameQuery
  <2> HIDE DEF c
  <2>3. /\ Len(queryList') = Len(queryList)
        /\ queryList'[i] = c
        /\ \A j \in 1..Len(queryList) : j # i => queryList'[j] = queryList[j]
    BY <1>1, <2>1
  <2> QED
    BY <1>3, <2>2, <2>3 DEF SameQuery
<1> QED
  BY <1>2, <1>3

(* Every query of the new list was in the old one, or was just begun. *)
LEMMA ItemOrigin ==
  ASSUME TypeOK, [Next]_monitorVars, NEW j \in 1..Len(queryList')
  PROVE  \/ \E i \in 1..Len(queryList) : SameQuery(queryList'[j], queryList[i])
         \/ \E le \in ListEngines, qe \in QueryEngines, a \in Addresses :
              queryList'[j] = NewItem(le, qe, a)
<1>1. CASE queryList' = queryList
  BY <1>1 DEF SameQuery
<1>2. ASSUME NEW le \in ListEngines, NEW qe \in QueryEngines, NEW a \in Addresses,
             Pushed(le, qe, a)
      PROVE  \/ \E i \in 1..Len(queryList) : SameQuery(queryList'[j], queryList[i])
             \/ queryList'[j] = NewItem(le, qe, a)
  BY <1>2, PushedItems DEF Pushed, SameQuery
<1>3. ASSUME NEW i \in 1..Len(queryList), Removed(i)
      PROVE  \E k \in 1..Len(queryList) : SameQuery(queryList'[j], queryList[k])
  BY <1>3, RemovedItems DEF SameQuery
<1>4. ASSUME NEW i \in 1..Len(queryList), Resent(i) \/ Aged(i)
      PROVE  \E k \in 1..Len(queryList) : SameQuery(queryList'[j], queryList[k])
  BY <1>4, UpdatedItems
<1> QED
  BY <1>1, <1>2, <1>3, <1>4, ListStep

-----------------------------------------------------------------------------
(* The duplicate check. *)

(***************************************************************************)
(* BeginQuery reduces its argument to IPv4, never what it stored.  Its     *)
(* check is complete only while what it stored was IPv4 already: that is   *)
(* the strengthening UniquePending needs.                                  *)
(***************************************************************************)
PlainPending == \A i \in 1..Len(queryList) : ~queryList[i].address.in6

UniqueInv == TypeOK /\ PlainPending /\ UniquePending

(* An address in IPv4 form is what As4 makes of it. *)
LEMMA PlainIsIPv4 ==
  ASSUME NEW a \in AddrPort, ~a.in6
  PROVE  AsIPv4(a) = a
<1>1. a.in6 = FALSE
  BY Zenon DEF AddrPort
<1>2. a = [ip |-> a.ip, port |-> a.port, in6 |-> a.in6]
  BY Zenon DEF AddrPort
<1> QED
  BY <1>1, <1>2, Zenon DEF AsIPv4

(* What UniqueInv says depends only on the engine and the address of each  *)
(* query: a list whose queries come from different places of a list that   *)
(* has it has it too.                                                      *)
LEMMA UniqueFromDifferentPlaces ==
  ASSUME UniqueInv, TypeOK',
         NEW f \in [1..Len(queryList') -> 1..Len(queryList)],
         \A i, j \in 1..Len(queryList') : f[i] = f[j] => i = j,
         \A i \in 1..Len(queryList') :
           /\ queryList'[i].engine = queryList[f[i]].engine
           /\ queryList'[i].address = queryList[f[i]].address
  PROVE  UniqueInv'
<1>1. PlainPending'
  BY DEF UniqueInv, PlainPending
<1>2. ASSUME NEW i \in 1..Len(queryList'), NEW j \in 1..Len(queryList'),
             SameServer(queryList'[i], queryList'[j])
      PROVE  i = j
  <2>1. SameServer(queryList[f[i]], queryList[f[j]])
    BY <1>2 DEF SameServer
  <2>2. f[i] = f[j]
    BY <2>1 DEF UniqueInv, UniquePending
  <2> QED
    BY <2>2
<1> QED
  BY <1>1, <1>2 DEF UniqueInv, UniquePending

LEMMA NextUniqueInv ==
  ASSUME \A a \in Addresses : ~a.in6
  PROVE  UniqueInv /\ [Next]_monitorVars => UniqueInv'
<1> SUFFICES ASSUME UniqueInv, [Next]_monitorVars
             PROVE  UniqueInv'
  OBVIOUS
<1>1. TypeOK /\ TypeOK'
  BY NextTypeOK DEF UniqueInv
<1>2. /\ queryList \in Seq(QueryItem)
      /\ Len(queryList) \in Nat
      /\ \A i \in 1..Len(queryList) : queryList[i] \in QueryItem
  BY <1>1, LenProperties, ElementOfSeq DEF TypeOK
<1>3. CASE queryList' = queryList
  BY <1>1, <1>3 DEF UniqueInv, PlainPending, UniquePending
<1>4. ASSUME NEW le \in ListEngines, NEW qe \in QueryEngines, NEW a \in Addresses,
             Pushed(le, qe, a)
      PROVE  UniqueInv'
  <2> DEFINE new == NewItem(le, qe, a)
  <2>1. /\ Len(queryList') = Len(queryList) + 1
        /\ \A j \in 1..Len(queryList) + 1 :
             queryList'[j] = IF j = 1 THEN new ELSE queryList[j - 1]
    BY <1>2, <1>4, NewItemType, PushFrontProperties DEF Pushed
  <2>2. new.engine = qe /\ new.address = a /\ ~a.in6
    BY DEF NewItem
  <2>3. ASSUME NEW j \in 1..Len(queryList)
        PROVE  ~SameServer(queryList[j], new) /\ ~SameServer(new, queryList[j])
    <3>1. ~Matches(queryList[j], qe, a)
      BY <1>2, <1>4, QueryIndexProperties DEF Pushed
    <3>2. queryList[j].address \in AddrPort /\ ~queryList[j].address.in6
      BY <1>2 DEF UniqueInv, PlainPending, QueryItem
    <3>3. AsIPv4(queryList[j].address) = queryList[j].address
      BY <3>2, PlainIsIPv4
    <3> QED
      BY <3>1, <3>3, <2>2 DEF Matches, SameServer
  <2> HIDE DEF new
  <2>4. PlainPending'
    <3>1. ASSUME NEW j \in 1..Len(queryList')
          PROVE  ~queryList'[j].address.in6
      <4>1. CASE j = 1
        BY <2>1, <2>2, <4>1, <1>2
      <4>2. CASE j # 1
        <5>1. j - 1 \in 1..Len(queryList) /\ queryList'[j] = queryList[j - 1]
          BY <2>1, <4>2, <1>2
        <5> QED
          BY <5>1 DEF UniqueInv, PlainPending
      <4> QED
        BY <4>1, <4>2
    <3> QED
      BY <3>1 DEF PlainPending
  <2>5. ASSUME NEW i \in 1..Len(queryList'), NEW j \in 1..Len(queryList'),
               SameServer(queryList'[i], queryList'[j])
        PROVE  i = j
    <3>1. CASE i # 1 /\ j # 1
      <4>1. /\ i - 1 \in 1..Len(queryList) /\ j - 1 \in 1..Len(queryList)
            /\ queryList'[i] = queryList[i - 1]
            /\ queryList'[j] = queryList[j - 1]
        BY <2>1, <3>1, <1>2
      <4>2. i - 1 = j - 1
        BY <4>1, <2>5 DEF UniqueInv, UniquePending
      <4> QED
        BY <4>2, <2>1, <1>2
    <3>2. CASE i = 1 /\ j # 1
      <4>1. /\ j - 1 \in 1..Len(queryList)
            /\ queryList'[j] = queryList[j - 1]
            /\ queryList'[i] = new
        BY <2>1, <3>2, <1>2
      <4> QED
        BY <4>1, <2>3, <2>5
    <3>3. CASE i # 1 /\ j = 1
      <4>1. /\ i - 1 \in 1..Len(queryList)
            /\ queryList'[i] = queryList[i - 1]
            /\ queryList'[j] = new
        BY <2>1, <3>3, <1>2
      <4> QED
        BY <4>1, <2>3, <2>5
    <3> QED
      BY <3>1, <3>2, <3>3
  <2> QED
    BY <1>1, <2>4, <2>5 DEF UniqueInv, UniquePending
<1>5. ASSUME NEW i \in 1..Len(queryList), Removed(i)
      PROVE  UniqueInv'
  <2> DEFINE f == [j \in 1..Len(queryList') |-> IF j < i THEN j ELSE j + 1]
  <2>1. /\ Len(queryList') = Len(queryList) - 1
        /\ \A j \in 1..Len(queryList) - 1 :
             queryList'[j] = IF j < i THEN queryList[j] ELSE queryList[j + 1]
    BY <1>2, <1>5, RemoveAtProperties DEF Removed
  <2>2. /\ f \in [1..Len(queryList') -> 1..Len(queryList)]
        /\ \A j, k \in 1..Len(queryList') : f[j] = f[k] => j = k
    BY <2>1, <1>2
  <2>3. \A j \in 1..Len(queryList') : queryList'[j] = queryList[f[j]]
    BY <2>1, <1>2
  <2> HIDE DEF f
  <2> QED
    BY <2>2, <2>3, <1>1, UniqueFromDifferentPlaces
<1>6. ASSUME NEW i \in 1..Len(queryList), Resent(i) \/ Aged(i)
      PROVE  UniqueInv'
  <2> DEFINE f == [j \in 1..Len(queryList') |-> j]
  <2>1. \A j \in 1..Len(queryList) :
          /\ queryList'[j].engine = queryList[j].engine
          /\ queryList'[j].address = queryList[j].address
    <3>1. PICK c : /\ queryList' = [queryList EXCEPT ![i] = c]
                   /\ c.engine = queryList[i].engine
                   /\ c.address = queryList[i].address
      <4>1. CASE Resent(i)
        <5> DEFINE c == [queryList[i] EXCEPT !.stale = FALSE, !.numAttempts = @ + 1]
        <5>1. queryList' = [queryList EXCEPT ![i] = c]
          BY <4>1 DEF Resent
        <5>2. c.engine = queryList[i].engine /\ c.address = queryList[i].address
          BY <1>2, Zenon DEF QueryItem
        <5> QED
          BY <5>1, <5>2
      <4>2. CASE Aged(i)
        <5> DEFINE c == [queryList[i] EXCEPT !.stale = TRUE]
        <5>1. queryList' = [queryList EXCEPT ![i] = c]
          BY <4>2 DEF Aged
        <5>2. c.engine = queryList[i].engine /\ c.address = queryList[i].address
          BY <1>2, Zenon DEF QueryItem
        <5> QED
          BY <5>1, <5>2
      <4> QED
        BY <4>1, <4>2, <1>6
    <3> QED
      BY <3>1, <1>2
  <2>2. Len(queryList') = Len(queryList)
    BY <1>6, <1>2 DEF Resent, Aged
  <2>3. /\ f \in [1..Len(queryList') -> 1..Len(queryList)]
        /\ \A j \in 1..Len(queryList') : f[j] = j
    BY <2>2
  <2> HIDE DEF f
  <2> QED
    BY <2>1, <2>2, <2>3, <1>1, UniqueFromDifferentPlaces
<1> QED
  BY <1>1, <1>3, <1>4, <1>5, <1>6, ListStep

(* With addresses in IPv4 form a query engine never has two pending        *)
(* queries for the same server.                                            *)
THEOREM MonitorUniquePending ==
  ASSUME \A a \in Addresses : ~a.in6
  PROVE  MonitorSpec => []UniquePending
<1>1. Init => UniqueInv
  <2>1. Init => queryList = <<>>
    BY DEF Init
  <2> QED
    BY <2>1, InitTypeOK DEF UniqueInv, PlainPending, UniquePending
<1>2. UniqueInv /\ [Next]_monitorVars => UniqueInv'
  BY NextUniqueInv
<1>3. UniqueInv => UniquePending
  BY DEF UniqueInv
<1> QED
  BY <1>1, <1>2, <1>3, PTL DEF MonitorSpec

-----------------------------------------------------------------------------
(* The number of attempts. *)

AttemptsInv == TypeOK /\ AttemptsBounded

LEMMA NextAttemptsInv == AttemptsInv /\ [Next]_monitorVars => AttemptsInv'
<1> SUFFICES ASSUME AttemptsInv, [Next]_monitorVars
             PROVE  AttemptsInv'
  OBVIOUS
<1>1. TypeOK /\ TypeOK'
  BY NextTypeOK DEF AttemptsInv
<1>2. /\ queryList \in Seq(QueryItem)
      /\ Len(queryList) \in Nat
      /\ \A i \in 1..Len(queryList) : queryList[i] \in QueryItem
      /\ \A i \in 1..Len(queryList) :
           queryList[i].numAttempts \in 1..MAX_ATTEMPTS + 1
  BY <1>1, LenProperties, ElementOfSeq DEF TypeOK, AttemptsInv, AttemptsBounded
<1>3. SUFFICES ASSUME NEW j \in 1..Len(queryList')
               PROVE  queryList'[j].numAttempts \in 1..MAX_ATTEMPTS + 1
  BY <1>1 DEF AttemptsInv, AttemptsBounded
<1>4. CASE queryList' = queryList
  BY <1>2, <1>4
<1>5. ASSUME NEW le \in ListEngines, NEW qe \in QueryEngines, NEW a \in Addresses,
             Pushed(le, qe, a)
      PROVE  queryList'[j].numAttempts \in 1..MAX_ATTEMPTS + 1
  <2> DEFINE new == NewItem(le, qe, a)
  <2>1. /\ Len(queryList') = Len(queryList) + 1
        /\ queryList'[j] = IF j = 1 THEN new ELSE queryList[j - 1]
    BY <1>2, <1>5, NewItemType, PushFrontProperties DEF Pushed
  <2>2. new.numAttempts = 1
    BY DEF NewItem
  <2> HIDE DEF new
  <2>3. CASE j = 1
    BY <2>1, <2>2, <2>3, MonitorAssumption
  <2>4. CASE j # 1
    <3>1. j - 1 \in 1..Len(queryList)
      BY <2>1, <2>4, <1>2
    <3> QED
      BY <3>1, <2>1, <2>4, <1>2
  <2> QED
    BY <2>3, <2>4
<1>6. ASSUME NEW i \in 1..Len(queryList), Removed(i)
      PROVE  queryList'[j].numAttempts \in 1..MAX_ATTEMPTS + 1
  <2>1. /\ Len(queryList') = Len(queryList) - 1
        /\ queryList'[j] = IF j < i THEN queryList[j] ELSE queryList[j + 1]
    BY <1>2, <1>6, RemoveAtProperties DEF Removed
  <2>2. j \in 1..Len(queryList) /\ j + 1 \in 1..Len(queryList)
    BY <2>1, <1>2
  <2> QED
    BY <2>1, <2>2, <1>2
<1>7. ASSUME NEW i \in 1..Len(queryList), Resent(i)
      PROVE  queryList'[j].numAttempts \in 1..MAX_ATTEMPTS + 1
  <2> DEFINE c == [queryList[i] EXCEPT !.stale = FALSE, !.numAttempts = @ + 1]
  <2>1. queryList' = [queryList EXCEPT ![i] = c]
    BY <1>7 DEF Resent
  <2>2. c.numAttempts = queryList[i].numAttempts + 1
    BY <1>2, Zenon DEF QueryItem
  <2>3. queryList[i].numAttempts \in 1..MAX_ATTEMPTS
    BY <1>2, <1>7, MonitorAssumption DEF Resent, Exhausted
  <2> HIDE DEF c
  <2>4. c.numAttempts \in 1..MAX_ATTEMPTS + 1
    BY <2>2, <2>3, MonitorAssumption
  <2>5. j \in 1..Len(queryList) /\ queryList'[j] = IF j = i THEN c ELSE queryList[j]
    BY <2>1, <1>2
  <2> QED
    BY <2>4, <2>5, <1>2
<1>8. ASSUME NEW i \in 1..Len(queryList), Aged(i)
      PROVE  queryList'[j].numAttempts \in 1..MAX_ATTEMPTS + 1
  <2> DEFINE c == [queryList[i] EXCEPT !.stale = TRUE]
  <2>1. queryList' = [queryList EXCEPT ![i] = c]
    BY <1>8 DEF Aged
  <2>2. c.numAttempts = queryList[i].numAttempts
    BY <1>2, Zenon DEF QueryItem
  <2> HIDE DEF c
  <2>3. j \in 1..Len(queryList) /\ queryList'[j] = IF j = i THEN c ELSE queryList[j]
    BY <2>1, <1>2
  <2> QED
    BY <2>2, <2>3, <1>2
<1> QED
  BY <1>1, <1>4, <1>5, <1>6, <1>7, <1>8, ListStep

(* A pending query was sent between once and MAX_ATTEMPTS + 1 times.       *)
THEOREM MonitorAttemptsBounded == MonitorSpec => []AttemptsBounded
<1>1. Init => AttemptsInv
  <2>1. Init => queryList = <<>>
    BY DEF Init
  <2> QED
    BY <2>1, InitTypeOK DEF AttemptsInv, AttemptsBounded
<1>2. AttemptsInv => AttemptsBounded
  BY DEF AttemptsInv
<1> QED
  BY <1>1, <1>2, NextAttemptsInv, PTL DEF MonitorSpec
-----------------------------------------------------------------------------
(* Think collects a query once. *)

(* CompleteQuery finds nothing, or removes one query that matches and      *)
(* perhaps ends the list engine it was begun for.                          *)
LEMMA CompleteQueryStep ==
  ASSUME TypeOK, NEW qe, NEW a, CompleteQuery(qe, a)
  PROVE  \/ /\ \A i \in 1..Len(queryList) : ~Matches(queryList[i], qe, a)
            /\ UNCHANGED <<serverEngineList, queryList, thinkPc, cursor>>
         \/ \E i \in 1..Len(queryList) :
              /\ Matches(queryList[i], qe, a)
              /\ RemoveQuery(i)
              /\ \/ UNCHANGED serverEngineList
                 \/ /\ EngineEnds(queryList[i].listEngine)
                    /\ ~engineHasPendingQueries(queryList[i].listEngine, queryList')
<1> DEFINE i == QueryIndex(qe, a)
<1>1. /\ i \in 0..Len(queryList)
      /\ Len(queryList) \in Nat
      /\ i # 0 => Matches(queryList[i], qe, a)
      /\ i = 0 => \A j \in 1..Len(queryList) : ~Matches(queryList[j], qe, a)
  BY QueryIndexProperties, LenProperties DEF TypeOK
<1>2. CASE i # 0
  <2>1. /\ i \in 1..Len(queryList)
        /\ RemoveQuery(i)
        /\ \/ UNCHANGED serverEngineList
           \/ /\ EngineEnds(queryList[i].listEngine)
              /\ ~engineHasPendingQueries(queryList[i].listEngine, queryList')
    BY <1>1, <1>2 DEF CompleteQuery
  <2> QED
    BY <2>1, <1>1, <1>2
<1>3. CASE i = 0
  BY <1>1, <1>3 DEF CompleteQuery
<1> QED
  BY <1>2, <1>3

(* The entry of toComplete that Think made of a query. *)
CollectedAs(c, e) == c.engine = e.engine /\ c.address = e.address

(***************************************************************************)
(* While Think walks the list, every query it collected is gone or behind  *)
(* its cursor: that is why it cannot come to the same query again.         *)
(***************************************************************************)
CollectedBehind ==
  thinkPc = "scan" =>
    /\ toComplete # <<>> => cursor # 0
    /\ \A n \in 1..Len(toComplete), i \in 1..Len(queryList) :
         CollectedAs(queryList[i], toComplete[n]) => i <= cursor

CollectInv ==
  /\ UniqueInv
  /\ thinkPc = "idle" => toComplete = <<>>
  /\ CollectedBehind
  /\ CollectedOnce

LEMMA TailOnce ==
  ASSUME TypeOK, CollectedOnce, toComplete # <<>>, toComplete' = Tail(toComplete)
  PROVE  CollectedOnce'
<1>1. /\ Len(toComplete) \in Nat
      /\ Len(toComplete') = Len(toComplete) - 1
      /\ \A n \in 1..Len(toComplete') : toComplete'[n] = toComplete[n + 1]
  BY LenProperties, HeadTailProperties DEF TypeOK
<1>2. ASSUME NEW m \in 1..Len(toComplete'), NEW n \in 1..Len(toComplete'),
             toComplete'[m] = toComplete'[n]
      PROVE  m = n
  <2>1. /\ m + 1 \in 1..Len(toComplete) /\ n + 1 \in 1..Len(toComplete)
        /\ toComplete[m + 1] = toComplete[n + 1]
    BY <1>1, <1>2
  <2>2. m + 1 = n + 1
    BY <2>1 DEF CollectedOnce
  <2> QED
    BY <2>2, <1>1
<1> QED
  BY <1>2 DEF CollectedOnce

LEMMA NextCollectInv ==
  ASSUME \A a \in Addresses : ~a.in6, CollectInv, [Next]_monitorVars
  PROVE  CollectInv'
<1>1. TypeOK /\ UniqueInv' /\ UniquePending
  BY NextUniqueInv DEF CollectInv, UniqueInv
<1>2. /\ queryList \in Seq(QueryItem)
      /\ Len(queryList) \in Nat
      /\ cursor \in 0..Len(queryList)
      /\ cursor # 0 => thinkPc = "scan"
      /\ toComplete \in Seq(Abandoned)
      /\ Len(toComplete) \in Nat
      /\ thinkPc = "idle" => toComplete = <<>>
      /\ CollectedOnce
      /\ thinkPc = "scan" =>
           /\ toComplete # <<>> => cursor # 0
           /\ \A n \in 1..Len(toComplete), i \in 1..Len(queryList) :
                CollectedAs(queryList[i], toComplete[n]) => i <= cursor
  BY <1>1, LenProperties DEF TypeOK, Abandoned, CollectInv, CollectedBehind
<1>3. CASE UNCHANGED <<queryList, thinkPc, cursor, toComplete>>
  <2>1. CollectedBehind' /\ CollectedOnce' /\ (thinkPc' = "idle" => toComplete' = <<>>)
    BY <1>2, <1>3 DEF CollectedBehind, CollectedOnce
  <2> QED
    BY <1>1, <2>1 DEF CollectInv
<1>4. ASSUME NEW le \in ListEngines, NEW qe \in QueryEngines, NEW a \in Addresses,
             BeginQuery(le, qe, a)
      PROVE  CollectInv'
  <2>1. /\ UNCHANGED <<thinkPc, toComplete>>
        /\ cursor' = IF cursor = 0 THEN 0 ELSE cursor + 1
    BY <1>4 DEF BeginQuery
  <2>2. /\ \A j \in 1..Len(queryList') :
             j # 1 => j - 1 \in 1..Len(queryList) /\ queryList'[j] = queryList[j - 1]
        /\ Len(queryList') = Len(queryList) + 1
    BY <1>1, <1>4, PushedItems DEF BeginQuery
  <2>3. ASSUME thinkPc = "scan", NEW n \in 1..Len(toComplete),
               NEW j \in 1..Len(queryList'), CollectedAs(queryList'[j], toComplete[n])
        PROVE  j <= cursor'
    <3>1. toComplete # <<>> /\ cursor # 0
      BY <1>2, <2>3
    <3>2. CASE j = 1
      BY <3>1, <3>2, <2>1, <1>2
    <3>3. CASE j # 1
      <4>1. j - 1 <= cursor
        BY <3>3, <2>2, <2>3, <1>2
      <4> QED
        BY <4>1, <3>1, <2>1, <2>2, <1>2
    <3> QED
      BY <3>2, <3>3
  <2>4. CollectedBehind'
    BY <2>1, <2>3, <1>2 DEF CollectedBehind
  <2>5. CollectedOnce' /\ (thinkPc' = "idle" => toComplete' = <<>>)
    BY <2>1, <1>2 DEF CollectedOnce
  <2> QED
    BY <1>1, <2>4, <2>5 DEF CollectInv
<1>5. ASSUME NEW i \in 1..Len(queryList), RemoveQuery(i), UNCHANGED toComplete
      PROVE  CollectInv'
  <2>1. CollectedOnce'
    BY <1>2, <1>5 DEF CollectedOnce
  <2>2. CASE i = cursor
    <3>1. thinkPc' = "abandon"
      BY <1>5, <2>2 DEF RemoveQuery
    <3> QED
      BY <1>1, <2>1, <3>1 DEF CollectInv, CollectedBehind
  <2>3. CASE i # cursor
    <3>1. /\ thinkPc' = thinkPc
          /\ cursor' = IF i < cursor THEN cursor - 1 ELSE cursor
          /\ queryList' = RemoveAt(queryList, i)
      BY <1>5, <2>3 DEF RemoveQuery
    <3>2. /\ Len(queryList') = Len(queryList) - 1
          /\ \A j \in 1..Len(queryList) - 1 :
               queryList'[j] = IF j < i THEN queryList[j] ELSE queryList[j + 1]
      BY <1>2, <3>1, RemoveAtProperties
    <3>3. ASSUME thinkPc = "scan", NEW n \in 1..Len(toComplete),
                 NEW j \in 1..Len(queryList'), CollectedAs(queryList'[j], toComplete[n])
          PROVE  j <= cursor'
      <4>1. CASE j < i
        <5>1. j \in 1..Len(queryList) /\ queryList'[j] = queryList[j]
          BY <1>2, <3>2, <4>1
        <5>2. j <= cursor
          BY <5>1, <3>3, <1>2
        <5> QED
          BY <5>2, <4>1, <3>1, <1>2
      <4>2. CASE ~(j < i)
        <5>1. j + 1 \in 1..Len(queryList) /\ queryList'[j] = queryList[j + 1]
          BY <1>2, <3>2, <4>2
        <5>2. j + 1 <= cursor
          BY <5>1, <3>3, <1>2
        <5> QED
          BY <5>2, <4>2, <3>1, <1>2
      <4> QED
        BY <4>1, <4>2
    <3>4. thinkPc = "scan" => (toComplete # <<>> => cursor' # 0)
      BY <1>2, <3>1, <2>3
    <3>5. CollectedBehind'
      BY <3>1, <3>3, <3>4, <1>5 DEF CollectedBehind
    <3> QED
      BY <1>1, <1>2, <1>5, <2>1, <3>1, <3>5 DEF CollectInv
  <2> QED
    BY <2>2, <2>3
<1>6. ASSUME NEW i \in 1..Len(queryList), ThinkCollect(i)
      PROVE  CollectInv'
  <2> DEFINE e == [engine |-> queryList[i].engine, address |-> queryList[i].address]
  <2>1. /\ thinkPc = "scan" /\ i = cursor + 1 /\ cursor' = i
        /\ toComplete' = Append(toComplete, e)
        /\ UNCHANGED <<queryList, thinkPc>>
    BY <1>6 DEF ThinkCollect, ThinkVisits
  <2>2. CollectedAs(queryList[i], e) /\ \A c : CollectedAs(c, e) => SameServer(c, queryList[i])
    BY DEF CollectedAs, SameServer
  <2>3. e \in Abandoned
    <3>1. queryList[i] \in QueryItem
      BY <1>2, ElementOfSeq
    <3> QED
      BY <3>1 DEF Abandoned, QueryItem
  <2> HIDE DEF e
  <2>4. /\ Len(toComplete') = Len(toComplete) + 1
        /\ toComplete'[Len(toComplete) + 1] = e
        /\ \A n \in 1..Len(toComplete) : toComplete'[n] = toComplete[n]
    BY <1>2, <2>1, <2>3, AppendProperties
  <2>5. \A n \in 1..Len(toComplete) : toComplete[n] # e
    <3>1. SUFFICES ASSUME NEW n \in 1..Len(toComplete), toComplete[n] = e
                   PROVE  FALSE
      OBVIOUS
    <3>2. i <= cursor
      BY <3>1, <2>1, <2>2, <1>2
    <3> QED
      BY <3>2, <2>1, <1>2
  <2>6. CollectedOnce'
    <3>1. SUFFICES ASSUME NEW m \in 1..Len(toComplete'), NEW n \in 1..Len(toComplete'),
                          toComplete'[m] = toComplete'[n]
                   PROVE  m = n
      BY DEF CollectedOnce
    <3>2. /\ m \in 1..Len(toComplete) \/ m = Len(toComplete) + 1
          /\ n \in 1..Len(toComplete) \/ n = Len(toComplete) + 1
      BY <1>2, <2>4
    <3> QED
      BY <3>1, <3>2, <2>4, <2>5, <1>2 DEF CollectedOnce
  <2>7. ASSUME NEW n \in 1..Len(toComplete'), NEW j \in 1..Len(queryList),
               CollectedAs(queryList[j], toComplete'[n])
        PROVE  j <= cursor'
    <3>1. CASE n \in 1..Len(toComplete)
      BY <3>1, <2>1, <2>4, <2>7, <1>2
    <3>2. CASE n = Len(toComplete) + 1
      <4>1. SameServer(queryList[j], queryList[i])
        BY <3>2, <2>2, <2>4, <2>7
      <4>2. j = i
        BY <4>1, <1>1 DEF UniquePending
      <4> QED
        BY <4>2, <2>1
    <3> QED
      BY <3>1, <3>2, <2>4, <1>2
  <2>8. CollectedBehind'
    BY <2>1, <2>7 DEF CollectedBehind
  <2> QED
    BY <1>1, <2>1, <2>6, <2>8 DEF CollectInv
<1>7. ASSUME NEW i \in 1..Len(queryList), ThinkResend(i) \/ ThinkSkip(i)
      PROVE  CollectInv'
  <2>1. /\ thinkPc = "scan" /\ i = cursor + 1 /\ cursor' = i
        /\ UNCHANGED <<thinkPc, toComplete>>
    BY <1>7 DEF ThinkResend, ThinkSkip, ThinkVisits
  <2>2. /\ Len(queryList') = Len(queryList)
        /\ \A j \in 1..Len(queryList) : SameQuery(queryList'[j], queryList[j])
    BY <1>1, <1>7, UpdatedItems DEF ThinkResend, ThinkSkip, Resent, SameQuery
  <2>3. ASSUME NEW n \in 1..Len(toComplete), NEW j \in 1..Len(queryList'),
               CollectedAs(queryList'[j], toComplete[n])
        PROVE  j <= cursor'
    BY <2>1, <2>2, <2>3, <1>2 DEF SameQuery, CollectedAs
  <2>4. CollectedBehind' /\ CollectedOnce'
    BY <2>1, <2>3, <1>2 DEF CollectedBehind, CollectedOnce
  <2> QED
    BY <1>1, <2>1, <2>4 DEF CollectInv
<1>8. CASE ThinkBegin
  <2>1. thinkPc = "idle" /\ thinkPc' = "scan" /\ UNCHANGED <<queryList, cursor, toComplete>>
    BY <1>8 DEF ThinkBegin
  <2>2. toComplete' = <<>> /\ Len(toComplete') = 0
    BY <2>1, <1>2
  <2>3. CollectedBehind' /\ CollectedOnce'
    BY <2>1, <2>2 DEF CollectedBehind, CollectedOnce
  <2> QED
    BY <1>1, <2>1, <2>3 DEF CollectInv
<1>9. CASE ThinkScanEnds
  BY <1>1, <1>2, <1>9 DEF ThinkScanEnds, CollectInv, CollectedBehind, CollectedOnce
<1>10. CASE ThinkAbandon
  <2>1. thinkPc = "abandon" /\ cursor = 0 /\ toComplete # <<>> /\ toComplete' = Tail(toComplete)
    BY <1>2, <1>10 DEF ThinkAbandon
  <2>2. thinkPc' = "abandon"
    <3>1. \/ thinkPc' = thinkPc
          \/ \E i \in 1..Len(queryList) : RemoveQuery(i)
      BY <1>1, <1>10, CompleteQueryStep DEF ThinkAbandon
    <3>2. ASSUME NEW i \in 1..Len(queryList), RemoveQuery(i)
          PROVE  thinkPc' = thinkPc
      <4>1. i # cursor
        BY <2>1
      <4> QED
        BY <3>2, <4>1 DEF RemoveQuery
    <3> QED
      BY <2>1, <3>1, <3>2
  <2>3. CollectedOnce'
    BY <1>1, <1>2, <2>1, TailOnce
  <2> QED
    BY <1>1, <2>2, <2>3 DEF CollectInv, CollectedBehind
<1>11. CASE ThinkReturns
  <2>1. thinkPc' = "idle" /\ toComplete = <<>> /\ UNCHANGED toComplete
    BY <1>11 DEF ThinkReturns
  <2> QED
    BY <1>1, <1>2, <2>1 DEF CollectInv, CollectedBehind, CollectedOnce
<1>12. ASSUME NEW i \in 1..Len(queryList), RetryIntervalElapses(i)
       PROVE  CollectInv'
  <2>1. UNCHANGED <<thinkPc, cursor, toComplete>> /\ Aged(i)
    BY <1>12 DEF RetryIntervalElapses, Aged
  <2>2. /\ Len(queryList') = Len(queryList)
        /\ \A j \in 1..Len(queryList) : SameQuery(queryList'[j], queryList[j])
    BY <1>1, <2>1, UpdatedItems
  <2>3. CollectedBehind' /\ CollectedOnce'
    BY <2>1, <2>2, <1>2 DEF CollectedBehind, CollectedOnce, SameQuery, CollectedAs
  <2> QED
    BY <1>1, <1>2, <2>1, <2>3 DEF CollectInv
<1>13. ASSUME NEW le \in ListEngines, ClientBegins(le) \/ EndServerListEngine(le)
       PROVE  CollectInv'
  BY <1>3, <1>13 DEF ClientBegins, BeginServerListEngine, EndServerListEngine
<1>14. ASSUME NEW qe \in QueryEngines, NEW a \in Addresses,
              BeginQueryDuplicate(qe, a) \/ ClientCompletes(qe, a)
       PROVE  CollectInv'
  <2>1. CASE BeginQueryDuplicate(qe, a)
    BY <1>3, <2>1 DEF BeginQueryDuplicate, monitorVars
  <2>2. CASE ClientCompletes(qe, a)
    BY <1>1, <1>3, <1>5, <2>2, CompleteQueryStep DEF ClientCompletes
  <2> QED
    BY <1>14, <2>1, <2>2
<1>15. CASE UNCHANGED monitorVars
  BY <1>3, <1>15 DEF monitorVars
<1> QED
  BY <1>4, <1>6, <1>7, <1>8, <1>9, <1>10, <1>11, <1>12, <1>13, <1>14, <1>15
     DEF Next, ThinkNext

(* With addresses in IPv4 form Think's pass collects a query at most once, *)
(* whatever is pushed to the list, and removed from it, around its cursor. *)
THEOREM MonitorCollectedOnce ==
  ASSUME \A a \in Addresses : ~a.in6
  PROVE  MonitorSpec => []CollectedOnce
<1>1. Init => CollectInv
  <2> SUFFICES ASSUME Init PROVE CollectInv
    OBVIOUS
  <2>1. queryList = <<>> /\ toComplete = <<>> /\ thinkPc = "idle" /\ TypeOK
    BY InitTypeOK DEF Init
  <2> QED
    BY <2>1 DEF CollectInv, UniqueInv, PlainPending, UniquePending, CollectedBehind,
                CollectedOnce
<1>2. CollectInv => CollectedOnce
  BY DEF CollectInv
<1> QED
  BY <1>1, <1>2, NextCollectInv, PTL DEF MonitorSpec

-----------------------------------------------------------------------------
(* Stored addresses are among those the list engines hand over, so that    *)
(* the tracker knows every query of the monitor.                           *)

PendingListed == \A i \in 1..Len(queryList) : queryList[i].address \in Addresses

LEMMA NextPendingListed ==
  ASSUME TypeOK, PendingListed, [Next]_monitorVars
  PROVE  PendingListed'
<1> SUFFICES ASSUME NEW j \in 1..Len(queryList')
             PROVE  queryList'[j].address \in Addresses
  BY DEF PendingListed
<1>1. CASE \E i \in 1..Len(queryList) : SameQuery(queryList'[j], queryList[i])
  BY <1>1 DEF PendingListed, SameQuery
<1>2. CASE \E le \in ListEngines, qe \in QueryEngines, a \in Addresses :
             queryList'[j] = NewItem(le, qe, a)
  BY <1>2 DEF NewItem
<1> QED
  BY <1>1, <1>2, ItemOrigin

-----------------------------------------------------------------------------
(* How often a list says that a query was sent. *)

ItemOf(c, k) == c.engine = k[1] /\ AsIPv4(c.address) = k[2]

TimesSent(list, k) ==
  IF \E i \in 1..Len(list) : ItemOf(list[i], k)
    THEN list[CHOOSE i \in 1..Len(list) : ItemOf(list[i], k)].numAttempts
    ELSE 0

LEMMA AttemptsIsTimesSent ==
  /\ attempts = [k \in Queries |-> TimesSent(queryList, k)]
  /\ attempts' = [k \in Queries |-> TimesSent(queryList', k)]
BY DEF attempts, PendingAt, TimesSent, ItemOf

(* In a list without duplicates it does not matter which item is looked at. *)
LEMMA TimesSentAt ==
  ASSUME NEW list, NEW k,
         \A i, j \in 1..Len(list) : SameServer(list[i], list[j]) => i = j
  PROVE  /\ \A i \in 1..Len(list) :
              ItemOf(list[i], k) => TimesSent(list, k) = list[i].numAttempts
         /\ (\A i \in 1..Len(list) : ~ItemOf(list[i], k)) => TimesSent(list, k) = 0
<1>1. ASSUME NEW i \in 1..Len(list), ItemOf(list[i], k)
      PROVE  TimesSent(list, k) = list[i].numAttempts
  <2> DEFINE m == CHOOSE j \in 1..Len(list) : ItemOf(list[j], k)
  <2>1. m \in 1..Len(list) /\ ItemOf(list[m], k)
    BY <1>1
  <2>2. SameServer(list[m], list[i])
    BY <1>1, <2>1 DEF ItemOf, SameServer
  <2>3. m = i
    BY <2>1, <2>2
  <2> QED
    BY <1>1, <2>3 DEF TimesSent
<1>2. ASSUME \A i \in 1..Len(list) : ~ItemOf(list[i], k)
      PROVE  TimesSent(list, k) = 0
  BY <1>2 DEF TimesSent
<1> QED
  BY <1>1, <1>2

(* Two lists that have the same items for k, perhaps at other places, and  *)
(* the same number with them.                                              *)
LEMMA TimesSentKept ==
  ASSUME NEW list, NEW list2, NEW k,
         \A i, j \in 1..Len(list) : SameServer(list[i], list[j]) => i = j,
         \A i, j \in 1..Len(list2) : SameServer(list2[i], list2[j]) => i = j,
         \A i \in 1..Len(list) : ItemOf(list[i], k) =>
           \E j \in 1..Len(list2) : /\ ItemOf(list2[j], k)
                                    /\ list2[j].numAttempts = list[i].numAttempts,
         \A j \in 1..Len(list2) : ItemOf(list2[j], k) =>
           \E i \in 1..Len(list) : ItemOf(list[i], k)
  PROVE  TimesSent(list2, k) = TimesSent(list, k)
<1>1. CASE \E i \in 1..Len(list) : ItemOf(list[i], k)
  BY <1>1, TimesSentAt
<1>2. CASE \A i \in 1..Len(list) : ~ItemOf(list[i], k)
  BY <1>2, TimesSentAt
<1> QED
  BY <1>1, <1>2

-----------------------------------------------------------------------------
(* The refinement, step by step. *)

TrackerInv == UniqueInv /\ AttemptsInv /\ PendingListed

(* A stored address in IPv4 form gives the tracker's name of its query. *)
KeyOf(c) == <<c.engine, AsIPv4(c.address)>>

LEMMA KeyFacts ==
  ASSUME TrackerInv, NEW i \in 1..Len(queryList)
  PROVE  /\ KeyOf(queryList[i]) \in Queries
         /\ \A k \in Queries : ItemOf(queryList[i], k) <=> k = KeyOf(queryList[i])
<1>1. queryList[i] \in QueryItem
  BY ElementOfSeq DEF TrackerInv, UniqueInv, TypeOK
<1>2. queryList[i].engine \in QueryEngines /\ queryList[i].address \in Addresses
  BY <1>1 DEF QueryItem, TrackerInv, PendingListed
<1> QED
  BY <1>2 DEF KeyOf, Queries, ItemOf

LEMMA DifferentItems ==
  ASSUME TrackerInv
  PROVE  \A i, j \in 1..Len(queryList) : SameServer(queryList[i], queryList[j]) => i = j
BY DEF TrackerInv, UniqueInv, UniquePending

LEMMA DifferentItemsNext ==
  ASSUME TrackerInv'
  PROVE  \A i, j \in 1..Len(queryList') : SameServer(queryList'[i], queryList'[j]) => i = j
BY DEF TrackerInv, UniqueInv, UniquePending

(* A step of the monitor begins, repeats or settles one query of the       *)
(* tracker, or none.                                                       *)
LEMMA TrackerStep ==
  ASSUME TrackerInv, TrackerInv', [Next]_monitorVars, \A a \in Addresses : ~a.in6
  PROVE  [Tracker!TrackerNext]_attempts
<1> USE DifferentItems, DifferentItemsNext
<1>1. TypeOK /\ \A k \in Queries : attempts[k] = TimesSent(queryList, k)
                                /\ attempts'[k] = TimesSent(queryList', k)
  BY AttemptsIsTimesSent DEF TrackerInv, UniqueInv
<1>2. ASSUME NEW k0 \in Queries, NEW n,
             TimesSent(queryList', k0) = n,
             \A k \in Queries : k # k0 => TimesSent(queryList', k) = TimesSent(queryList, k)
      PROVE  attempts' = [attempts EXCEPT ![k0] = n]
  BY <1>2, AttemptsIsTimesSent
<1>3. ASSUME \A k \in Queries : TimesSent(queryList', k) = TimesSent(queryList, k)
      PROVE  attempts' = attempts
  BY <1>3, AttemptsIsTimesSent
<1>4. CASE queryList' = queryList
  BY <1>3, <1>4
<1>5. ASSUME NEW le \in ListEngines, NEW qe \in QueryEngines, NEW a \in Addresses,
             Pushed(le, qe, a)
      PROVE  \E k \in Queries : Tracker!Begin(k)
  <2> DEFINE k0 == <<qe, AsIPv4(a)>>
             new == NewItem(le, qe, a)
  <2>1. k0 \in Queries
    BY DEF Queries
  <2>2. ItemOf(new, k0) /\ new.numAttempts = 1 /\ \A k \in Queries : ItemOf(new, k) => k = k0
    BY DEF NewItem, ItemOf, Queries
  <2> HIDE DEF new
  <2>3. \A i \in 1..Len(queryList) : ~ItemOf(queryList[i], k0)
    <3>1. SUFFICES ASSUME NEW i \in 1..Len(queryList), ItemOf(queryList[i], k0)
                   PROVE  FALSE
      OBVIOUS
    <3>2. ~Matches(queryList[i], qe, a)
      BY <1>5, QueryIndexProperties DEF Pushed, TrackerInv, UniqueInv, TypeOK
    <3>3. queryList[i].address \in AddrPort /\ ~queryList[i].address.in6
      BY MonitorAssumption DEF TrackerInv, UniqueInv, PlainPending, PendingListed
    <3>4. AsIPv4(queryList[i].address) = queryList[i].address
      BY <3>3, PlainIsIPv4
    <3> QED
      BY <3>1, <3>2, <3>4 DEF ItemOf, Matches
  <2>4. attempts[k0] = 0
    BY <1>1, <2>1, <2>3, TimesSentAt
  <2>5. /\ 1 \in 1..Len(queryList') /\ queryList'[1] = new
        /\ \A j \in 1..Len(queryList') :
             j # 1 => j - 1 \in 1..Len(queryList) /\ queryList'[j] = queryList[j - 1]
        /\ \A i \in 1..Len(queryList) :
             i + 1 \in 1..Len(queryList') /\ queryList'[i + 1] = queryList[i]
    BY <1>1, <1>5, PushedItems DEF Pushed, new
  <2>6. TimesSent(queryList', k0) = 1
    BY <2>2, <2>5, TimesSentAt
  <2>7. ASSUME NEW k \in Queries, k # k0
        PROVE  TimesSent(queryList', k) = TimesSent(queryList, k)
    <3>1. \A i \in 1..Len(queryList) : ItemOf(queryList[i], k) =>
            \E j \in 1..Len(queryList') :
              ItemOf(queryList'[j], k) /\ queryList'[j].numAttempts = queryList[i].numAttempts
      BY <2>5
    <3>2. \A j \in 1..Len(queryList') : ItemOf(queryList'[j], k) =>
            \E i \in 1..Len(queryList) : ItemOf(queryList[i], k)
      BY <2>2, <2>5, <2>7
    <3> QED
      BY <3>1, <3>2, TimesSentKept
  <2>8. attempts' = [attempts EXCEPT ![k0] = 1]
    BY <1>2, <2>1, <2>6, <2>7
  <2> QED
    BY <2>1, <2>4, <2>8 DEF Tracker!Begin
<1>6. ASSUME NEW i \in 1..Len(queryList), Removed(i)
      PROVE  \E k \in Queries : Tracker!Settle(k)
  <2> DEFINE k0 == KeyOf(queryList[i])
  <2>1. k0 \in Queries /\ ItemOf(queryList[i], k0)
    BY KeyFacts
  <2>2. attempts[k0] # 0
    <3>1. attempts[k0] = queryList[i].numAttempts
      BY <1>1, <2>1, TimesSentAt
    <3>2. queryList[i].numAttempts \in 1..MAX_ATTEMPTS + 1
      BY DEF TrackerInv, AttemptsInv, AttemptsBounded
    <3> QED
      BY <3>1, <3>2
  <2>3. /\ \A j \in 1..Len(queryList') :
             \E m \in 1..Len(queryList) : m # i /\ queryList'[j] = queryList[m]
        /\ \A m \in 1..Len(queryList) : m # i =>
             \E j \in 1..Len(queryList') : queryList'[j] = queryList[m]
    BY <1>1, <1>6, RemovedItems
  <2> HIDE DEF k0
  <2>4. \A j \in 1..Len(queryList') : ~ItemOf(queryList'[j], k0)
    <3>1. SUFFICES ASSUME NEW j \in 1..Len(queryList'), ItemOf(queryList'[j], k0)
                   PROVE  FALSE
      OBVIOUS
    <3>2. PICK m \in 1..Len(queryList) : m # i /\ queryList'[j] = queryList[m]
      BY <2>3
    <3>3. SameServer(queryList[m], queryList[i])
      BY <2>1, <3>1, <3>2 DEF ItemOf, SameServer
    <3> QED
      BY <3>2, <3>3
  <2>5. TimesSent(queryList', k0) = 0
    BY <2>4, TimesSentAt
  <2>6. ASSUME NEW k \in Queries, k # k0
        PROVE  TimesSent(queryList', k) = TimesSent(queryList, k)
    <3>1. ~ItemOf(queryList[i], k)
      BY <2>6, KeyFacts DEF k0
    <3>2. \A m \in 1..Len(queryList) : ItemOf(queryList[m], k) =>
            \E j \in 1..Len(queryList') :
              ItemOf(queryList'[j], k) /\ queryList'[j].numAttempts = queryList[m].numAttempts
      BY <2>3, <3>1
    <3>3. \A j \in 1..Len(queryList') : ItemOf(queryList'[j], k) =>
            \E m \in 1..Len(queryList) : ItemOf(queryList[m], k)
      BY <2>3
    <3> QED
      BY <3>2, <3>3, TimesSentKept
  <2>7. attempts' = [attempts EXCEPT ![k0] = 0]
    BY <1>2, <2>1, <2>5, <2>6
  <2> QED
    BY <2>1, <2>2, <2>7 DEF Tracker!Settle
<1>7. ASSUME NEW i \in 1..Len(queryList), Resent(i)
      PROVE  \E k \in Queries : Tracker!Resend(k)
  <2> DEFINE k0 == KeyOf(queryList[i])
  <2>1. k0 \in Queries /\ ItemOf(queryList[i], k0)
    BY KeyFacts
  <2>2. attempts[k0] = queryList[i].numAttempts
    BY <1>1, <2>1, TimesSentAt
  <2>3. queryList[i].numAttempts \in 1..MAX_ATTEMPTS
    BY <1>7, MonitorAssumption DEF TrackerInv, AttemptsInv, AttemptsBounded, Resent, Exhausted
  <2>4. /\ Len(queryList') = Len(queryList)
        /\ \A j \in 1..Len(queryList) :
             /\ \A k : ItemOf(queryList'[j], k) <=> ItemOf(queryList[j], k)
             /\ j # i => queryList'[j].numAttempts = queryList[j].numAttempts
        /\ queryList'[i].numAttempts = queryList[i].numAttempts + 1
    BY <1>1, <1>7, UpdatedItems DEF SameQuery, ItemOf
  <2> HIDE DEF k0
  <2>5. TimesSent(queryList', k0) = attempts[k0] + 1
    BY <2>1, <2>2, <2>4, TimesSentAt
  <2>6. ASSUME NEW k \in Queries, k # k0
        PROVE  TimesSent(queryList', k) = TimesSent(queryList, k)
    <3>1. ~ItemOf(queryList[i], k)
      BY <2>6, KeyFacts DEF k0
    <3>2. \A m \in 1..Len(queryList) : ItemOf(queryList[m], k) =>
            \E j \in 1..Len(queryList') :
              ItemOf(queryList'[j], k) /\ queryList'[j].numAttempts = queryList[m].numAttempts
      BY <2>4, <3>1
    <3>3. \A j \in 1..Len(queryList') : ItemOf(queryList'[j], k) =>
            \E m \in 1..Len(queryList) : ItemOf(queryList[m], k)
      BY <2>4
    <3> QED
      BY <3>2, <3>3, TimesSentKept
  <2>7. attempts' = [attempts EXCEPT ![k0] = attempts[k0] + 1]
    BY <1>2, <2>1, <2>5, <2>6
  <2> QED
    BY <2>1, <2>2, <2>3, <2>7 DEF Tracker!Resend
<1>8. ASSUME NEW i \in 1..Len(queryList), Aged(i)
      PROVE  attempts' = attempts
  <2>1. /\ Len(queryList') = Len(queryList)
        /\ \A j \in 1..Len(queryList) :
             /\ \A k : ItemOf(queryList'[j], k) <=> ItemOf(queryList[j], k)
             /\ queryList'[j].numAttempts = queryList[j].numAttempts
    BY <1>1, <1>8, UpdatedItems DEF SameQuery, ItemOf
  <2>2. ASSUME NEW k \in Queries
        PROVE  TimesSent(queryList', k) = TimesSent(queryList, k)
    <3>1. \A j \in 1..Len(queryList) : ItemOf(queryList[j], k) =>
            \E m \in 1..Len(queryList') :
              ItemOf(queryList'[m], k) /\ queryList'[m].numAttempts = queryList[j].numAttempts
      BY <2>1
    <3>2. \A j \in 1..Len(queryList') : ItemOf(queryList'[j], k) =>
            \E m \in 1..Len(queryList) : ItemOf(queryList[m], k)
      BY <2>1
    <3> QED
      BY <3>1, <3>2, TimesSentKept
  <2> QED
    BY <1>3, <2>2
<1> QED
  BY <1>1, <1>4, <1>5, <1>6, <1>7, <1>8, ListStep DEF Tracker!TrackerNext

(* For lists in IPv4 form the monitor implements the abstract tracker:     *)
(* whatever its clients do, a query is begun once, sent again only while   *)
(* it has attempts left, and settled as a whole.                           *)
THEOREM MonitorImplementsTracker ==
  ASSUME \A a \in Addresses : ~a.in6
  PROVE  MonitorSpec => ImplementsTracker
<1>1. Init => TrackerInv /\ Tracker!TrackerInit
  <2> SUFFICES ASSUME Init PROVE TrackerInv /\ Tracker!TrackerInit
    OBVIOUS
  <2>1. queryList = <<>> /\ TypeOK
    BY InitTypeOK DEF Init
  <2>2. TrackerInv
    BY <2>1 DEF TrackerInv, UniqueInv, AttemptsInv, PendingListed, PlainPending,
                UniquePending, AttemptsBounded
  <2>3. Tracker!TrackerInit
    BY <2>1 DEF Tracker!TrackerInit, attempts
  <2> QED
    BY <2>2, <2>3
<1>2. TrackerInv /\ [Next]_monitorVars => TrackerInv'
  BY NextUniqueInv, NextAttemptsInv, NextPendingListed DEF TrackerInv, UniqueInv
<1>3. TrackerInv /\ TrackerInv' /\ [Next]_monitorVars => [Tracker!TrackerNext]_attempts
  BY TrackerStep
<1> QED
  BY <1>1, <1>2, <1>3, PTL DEF MonitorSpec, ImplementsTracker, Tracker!TrackerSpec
=============================================================================
