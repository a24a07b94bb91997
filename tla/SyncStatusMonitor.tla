-------------------------- MODULE SyncStatusMonitor --------------------------
(***************************************************************************)
(* The bookkeeping of a synchronisation run (Engine/SyncStatusMonitor.go): *)
(* which server list engines are at work, and which queries wait for an    *)
(* answer.  Every operation is called from goroutines that interleave; one *)
(* action is one call, except Think, whose loop is cut at each element     *)
(* because the other goroutines change the list while it is walked.        *)
(***************************************************************************)
EXTENDS Naturals, SequencesExt

CONSTANTS
  ListEngines,    \* the IServerListEngine objects
  QueryEngines,   \* the IQueryEngine objects
  Ips,            \* IPv4 addresses
  Addresses,      \* the netip.AddrPort values the list engines hand over
  MAX_ATTEMPTS

(***************************************************************************)
(* A netip.AddrPort.  in6 marks the ::ffff:a.b.c.d form of the address ip, *)
(* which netip keeps apart from the plain IPv4 form.                       *)
(***************************************************************************)
Ports == 0..65535
AddrPort == [ip : Ips, port : Ports, in6 : BOOLEAN]

ASSUME MonitorAssumption ==
  /\ MAX_ATTEMPTS \in Nat
  /\ Addresses \subseteq AddrPort

VARIABLES
  serverEngineList,  \* list of engines begun and not ended, newest first
  queryList,         \* list of pending queries, newest first
  thinkPc,           \* where the goroutine that calls Think stands
  cursor,            \* position of the element Think's loop visited last
  toComplete         \* the queries Think is going to abandon

monitorVars == <<serverEngineList, queryList, thinkPc, cursor, toComplete>>

(***************************************************************************)
(* QueryEngineListItem.  stale stands for lastPerformed: it says whether   *)
(* more than RETRY_SECONDS went by since the query was last sent.          *)
(***************************************************************************)
QueryItem == [address : AddrPort, engine : QueryEngines,
              listEngine : ListEngines, numAttempts : Nat, stale : BOOLEAN]

Init ==
  /\ serverEngineList = <<>>
  /\ queryList = <<>>
  /\ thinkPc = "idle"
  /\ cursor = 0
  /\ toComplete = <<>>

-----------------------------------------------------------------------------
(* Server list engines. *)

BeginServerListEngine(le) ==
  /\ serverEngineList' = <<le>> \o serverEngineList
  /\ UNCHANGED <<queryList, thinkPc, cursor, toComplete>>

(* Removing an element clears its next pointer, so the loop of the code    *)
(* ends at the first match.                                                *)
EngineEnds(le) == serverEngineList' = RemoveFirst(serverEngineList, le)

EndServerListEngine(le) ==
  /\ EngineEnds(le)
  /\ UNCHANGED <<queryList, thinkPc, cursor, toComplete>>

engineHasPendingQueries(le, list) ==
  \E i \in 1..Len(list) : list[i].listEngine = le

-----------------------------------------------------------------------------
(* Queries. *)

(* netip.AddrFrom4(address.Addr().As4()): strips the ::ffff: prefix. *)
AsIPv4(a) == [ip |-> a.ip, port |-> a.port, in6 |-> FALSE]

(* Mutant: the ::ffff: prefix of the argument stays. *)
MatchesAsGiven(c, qe, a) == c.engine = qe /\ c.address = a

(* Mutant: the engine is not compared. *)
MatchesAddress(c, qe, a) == c.address = AsIPv4(a)

(* The comparison made by BeginQuery and CompleteQuery: the argument is    *)
(* reduced to IPv4, the stored address is taken as it is.                  *)
Matches(c, qe, a) == c.engine = qe /\ c.address = AsIPv4(a)

(* Position of the first pending query that matches, 0 if there is none. *)
QueryIndex(qe, a) == SelectInSeq(queryList, LAMBDA c : Matches(c, qe, a))

NewItem(le, qe, a) ==
  [address |-> a, engine |-> qe, listEngine |-> le,
   numAttempts |-> 1, stale |-> FALSE]

(* Mutant: no check for a duplicate. *)
BeginQueryUnchecked(le, qe, a) ==
  /\ queryList' = <<NewItem(le, qe, a)>> \o queryList
  /\ cursor' = IF cursor = 0 THEN 0 ELSE cursor + 1
  /\ UNCHANGED <<serverEngineList, thinkPc, toComplete>>

(* Mutant: Think's loop goes by index, which a push at the front shifts. *)
BeginQueryByIndex(le, qe, a) ==
  /\ QueryIndex(qe, a) = 0
  /\ queryList' = <<NewItem(le, qe, a)>> \o queryList
  /\ UNCHANGED <<serverEngineList, thinkPc, cursor, toComplete>>

(* BeginQuery when it returns true; PushFront moves every element, the one *)
(* under Think's cursor included, one place back.                          *)
BeginQuery(le, qe, a) ==
  /\ QueryIndex(qe, a) = 0
  /\ queryList' = <<NewItem(le, qe, a)>> \o queryList
  /\ cursor' = IF cursor = 0 THEN 0 ELSE cursor + 1
  /\ UNCHANGED <<serverEngineList, thinkPc, toComplete>>

(* BeginQuery when it returns false. *)
BeginQueryDuplicate(qe, a) ==
  /\ QueryIndex(qe, a) # 0
  /\ UNCHANGED monitorVars

(* Mutant: Think's loop goes by index, which a removal does not change. *)
RemoveQueryByIndex(i) ==
  queryList' = RemoveAt(queryList, i) /\ UNCHANGED <<thinkPc, cursor>>

(* queryList.Remove of the element at i.  If Think's loop stands on that   *)
(* element, its Next() is now nil and the loop is over.                    *)
RemoveQuery(i) ==
  /\ queryList' = RemoveAt(queryList, i)
  /\ IF i = cursor
       THEN thinkPc' = "abandon" /\ cursor' = 0
       ELSE /\ thinkPc' = thinkPc
            /\ cursor' = IF i < cursor THEN cursor - 1 ELSE cursor

(* Mutant: an answer ends its list engine whatever else is pending. *)
CompleteQueryEndsAlways(qe, a) ==
  LET i == QueryIndex(qe, a) IN
  \/ i # 0 /\ RemoveQuery(i) /\ EngineEnds(queryList[i].listEngine)
  \/ i = 0 /\ UNCHANGED <<serverEngineList, queryList, thinkPc, cursor>>

CompleteQuery(qe, a) ==
  LET i == QueryIndex(qe, a) IN
  \/ /\ i # 0
     /\ RemoveQuery(i)
     /\ LET le == queryList[i].listEngine IN
        IF engineHasPendingQueries(le, queryList')
          THEN UNCHANGED serverEngineList
          ELSE EngineEnds(le)
  \/ /\ i = 0
     /\ UNCHANGED <<serverEngineList, queryList, thinkPc, cursor>>

-----------------------------------------------------------------------------
(* Think: one pass over the pending queries, then the abandoned ones. *)

ThinkBegin ==
  /\ thinkPc = "idle"
  /\ thinkPc' = "scan"
  /\ UNCHANGED <<serverEngineList, queryList, cursor, toComplete>>

(* The loop takes the next element, which it finds at position i. *)
ThinkVisits(i) ==
  /\ thinkPc = "scan"
  /\ i = cursor + 1
  /\ i <= Len(queryList)
  /\ cursor' = i

(* Mutant: one attempt too many. *)
ExhaustedLate(c) == c.numAttempts > MAX_ATTEMPTS + 1

Exhausted(c) == c.numAttempts > MAX_ATTEMPTS

(* Mutant: a query is given up before its attempts are used up. *)
ThinkCollectEarly(i) ==
  /\ ThinkVisits(i)
  /\ toComplete' = Append(toComplete, [engine  |-> queryList[i].engine,
                                       address |-> queryList[i].address])
  /\ UNCHANGED <<serverEngineList, queryList, thinkPc>>

ThinkCollect(i) ==
  /\ ThinkVisits(i)
  /\ Exhausted(queryList[i])
  /\ toComplete' = Append(toComplete, [engine  |-> queryList[i].engine,
                                       address |-> queryList[i].address])
  /\ UNCHANGED <<serverEngineList, queryList, thinkPc>>

(* Mutant: a query that is given up is sent again as well. *)
ThinkResendAlways(i) ==
  /\ ThinkVisits(i)
  /\ queryList[i].stale
  /\ queryList' = [queryList EXCEPT ![i].stale = FALSE, ![i].numAttempts = @ + 1]
  /\ UNCHANGED <<serverEngineList, thinkPc, toComplete>>

(* The caller of this action also sends the query again. *)
ThinkResend(i) ==
  /\ ThinkVisits(i)
  /\ ~Exhausted(queryList[i])
  /\ queryList[i].stale
  /\ queryList' = [queryList EXCEPT ![i].stale = FALSE,
                                    ![i].numAttempts = @ + 1]
  /\ UNCHANGED <<serverEngineList, thinkPc, toComplete>>

ThinkSkip(i) ==
  /\ ThinkVisits(i)
  /\ ~Exhausted(queryList[i])
  /\ ~queryList[i].stale
  /\ UNCHANGED <<serverEngineList, queryList, thinkPc, toComplete>>

ThinkScanEnds ==
  /\ thinkPc = "scan"
  /\ cursor = Len(queryList)
  /\ thinkPc' = "abandon"
  /\ cursor' = 0
  /\ UNCHANGED <<serverEngineList, queryList, toComplete>>

ThinkAbandon ==
  /\ thinkPc = "abandon"
  /\ toComplete # <<>>
  /\ CompleteQuery(Head(toComplete).engine, Head(toComplete).address)
  /\ toComplete' = Tail(toComplete)

ThinkReturns ==
  /\ thinkPc = "abandon"
  /\ toComplete = <<>>
  /\ thinkPc' = "idle"
  /\ UNCHANGED <<serverEngineList, queryList, cursor, toComplete>>

(* Time: RETRY_SECONDS went by since the query at i was last sent. *)
RetryIntervalElapses(i) ==
  /\ ~queryList[i].stale
  /\ queryList' = [queryList EXCEPT ![i].stale = TRUE]
  /\ UNCHANGED <<serverEngineList, thinkPc, cursor, toComplete>>

-----------------------------------------------------------------------------
(***************************************************************************)
(* The monitor under any client: every list engine and every query engine  *)
(* may call it at any time.  What main.go guarantees is that an engine is  *)
(* not begun while it is at work.  Answers come from sockets bound to the  *)
(* dual-stack wildcard, so their addresses are in the ::ffff: form.        *)
(***************************************************************************)

ClientBegins(le) ==
  /\ ~Contains(serverEngineList, le)
  /\ BeginServerListEngine(le)

AnswerAddress(a) == [a EXCEPT !.in6 = TRUE]

ClientCompletes(qe, a) ==
  /\ CompleteQuery(qe, AnswerAddress(a))
  /\ UNCHANGED toComplete

ThinkNext ==
  \/ ThinkBegin
  \/ \E i \in 1..Len(queryList) : ThinkCollect(i) \/ ThinkResend(i) \/ ThinkSkip(i)
  \/ ThinkScanEnds
  \/ ThinkAbandon
  \/ ThinkReturns

Next ==
  \/ \E le \in ListEngines : ClientBegins(le) \/ EndServerListEngine(le)
  \/ \E le \in ListEngines, qe \in QueryEngines, a \in Addresses :
       BeginQuery(le, qe, a)
  \/ \E qe \in QueryEngines, a \in Addresses :
       BeginQueryDuplicate(qe, a) \/ ClientCompletes(qe, a)
  \/ ThinkNext
  \/ \E i \in 1..Len(queryList) : RetryIntervalElapses(i)

MonitorSpec == Init /\ [][Next]_monitorVars

-----------------------------------------------------------------------------
(* Properties. *)

(* Every variable has its type, the cursor is inside the list and it is    *)
(* set only while Think walks the list.                                    *)
TypeOK ==
  /\ serverEngineList \in Seq(ListEngines)
  /\ queryList \in Seq(QueryItem)
  /\ thinkPc \in {"idle", "scan", "abandon"}
  /\ cursor \in 0..Len(queryList)
  /\ cursor # 0 => thinkPc = "scan"
  /\ toComplete \in Seq([engine : QueryEngines, address : AddrPort])

SameServer(c, d) ==
  c.engine = d.engine /\ AsIPv4(c.address) = AsIPv4(d.address)

(* BeginQuery's duplicate check: a query engine never has two pending      *)
(* queries for the same server.                                            *)
UniquePending ==
  \A i, j \in 1..Len(queryList) :
    SameServer(queryList[i], queryList[j]) => i = j

(* Each pending query was sent between once and MAX_ATTEMPTS + 1 times:    *)
(* Think compares before it counts.                                        *)
AttemptsBounded ==
  \A i \in 1..Len(queryList) : queryList[i].numAttempts \in 1..MAX_ATTEMPTS + 1

(* Think's pass collects a query at most once, however the list is pushed  *)
(* to and removed from around its cursor.                                  *)
CollectedOnce ==
  \A i, j \in 1..Len(toComplete) : toComplete[i] = toComplete[j] => i = j

(***************************************************************************)
(* Refinement: seen from outside, the monitor keeps for every server of    *)
(* every query engine how often it was asked since its query began.        *)
(***************************************************************************)
Queries == QueryEngines \X {AsIPv4(a) : a \in Addresses}

PendingAt(k, i) ==
  queryList[i].engine = k[1] /\ AsIPv4(queryList[i].address) = k[2]

attempts ==
  [k \in Queries |->
     IF \E i \in 1..Len(queryList) : PendingAt(k, i)
       THEN queryList[CHOOSE i \in 1..Len(queryList) : PendingAt(k, i)].numAttempts
       ELSE 0]

Tracker == INSTANCE QueryTracker WITH Queries <- Queries, attempts <- attempts

(* The monitor implements the abstract tracker: a step begins, repeats or  *)
(* settles one query at a time, and repeats only what is not exhausted.    *)
ImplementsTracker == Tracker!TrackerSpec
=============================================================================
