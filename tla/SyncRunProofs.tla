--------------------------- MODULE SyncRunProofs ---------------------------
(***************************************************************************)
(* Proofs about a whole run, for every configuration, every set of         *)
(* addresses and every MAX_ATTEMPTS.                                       *)
(*                                                                         *)
(* First the order in which a run starts and ends; then what becomes of    *)
(* its queries: an answer settles the query it answers, Think gives up     *)
(* what is exhausted, and no query is lost.  Those theorems hold for lists *)
(* in IPv4 form, and for UT2K servers as long as none listens one port     *)
(* below another of the same host: the UT2K engine reports its answers     *)
(* under that port.                                                        *)
(***************************************************************************)
EXTENDS SyncRun, SyncStatusMonitorProofs

RunStep == RunNext /\ UNCHANGED config

-----------------------------------------------------------------------------
(* The control state of the goroutines. *)

ReaderPcs == {"idle", "connecting", "reading", "entry", "tail", "done"}

InvokedOnly(l) == \E i \in 1..invoked : l = params[i]

(***************************************************************************)
(* Where main, the readers, the watchers and the ticker stand, whatever    *)
(* the monitor holds.  A reader exists only once main has invoked its      *)
(* engine and given its query engine the monitor; a reader at an entry has *)
(* taken one.                                                              *)
(***************************************************************************)
ControlInv ==
  /\ config \in Configurations
  /\ mainPc \in {"invoke", "wait", "exited", "fatal"}
  /\ invoked \in 0..Len(params)
  /\ ctxErr \in {"none", "canceled", "deadline"}
  /\ cancelled \subseteq ListEngines
  /\ reader \in [ListEngines -> ReaderPcs]
  /\ nextEntry \in [ListEngines -> Nat \ {0}]
  /\ \A l \in ListEngines : nextEntry[l] <= Len(Listing[l]) + 1
  /\ \A l \in ListEngines : reader[l] = "entry" => nextEntry[l] # 1
  /\ connClosed \subseteq ListEngines
  /\ watcher \in [ListEngines -> {"none", "waiting", "ended"}]
  /\ hasMonitor \subseteq QueryEngines
  /\ tickerPc \in {"wait", "think", "engines", "queries", "stopped"}
  /\ \A l \in ListEngines : reader[l] # "idle" => QueryEngineOf[l] \in hasMonitor

LEMMA ConfigurationFacts ==
  ASSUME config \in Configurations
  PROVE  /\ params \in Seq(ListEngines)
         /\ Len(params) \in Nat
         /\ \A i \in 1..Len(params) : params[i] \in ListEngines
         /\ \A i, j \in 1..Len(params) : params[i] = params[j] => i = j
         /\ \A l \in ListEngines :
              /\ QueryEngineOf[l] \in QueryEngines
              /\ Listing[l] \in Seq(Addresses)
              /\ Len(Listing[l]) \in Nat
         /\ \A l, m \in ListEngines : QueryEngineOf[l] = QueryEngineOf[m] => l = m
<1>1. config \in EngineConfiguration /\ EnginesOfTheirOwn(config)
  BY RunAssumption
<1>2. /\ params \in Seq(ListEngines)
      /\ \A l \in ListEngines : QueryEngineOf[l] \in QueryEngines /\ Listing[l] \in Seq(Addresses)
  BY <1>1 DEF EngineConfiguration, params, QueryEngineOf, Listing
<1>3. Len(params) \in Nat /\ \A i \in 1..Len(params) : params[i] \in ListEngines
  BY <1>2, LenProperties, ElementOfSeq
<1>4. \A l \in ListEngines : Len(Listing[l]) \in Nat
  BY <1>2, LenProperties
<1> QED
  BY <1>1, <1>2, <1>3, <1>4 DEF EnginesOfTheirOwn, params, QueryEngineOf

LEMMA InitControlInv == RunInit => ControlInv
<1> SUFFICES ASSUME RunInit PROVE ControlInv
  OBVIOUS
<1>1. config \in Configurations /\ \A l \in ListEngines : Len(Listing[l]) \in Nat
  BY ConfigurationFacts DEF RunInit
<1>2. Len(params) \in Nat
  BY ConfigurationFacts DEF RunInit
<1> QED
  BY <1>1, <1>2 DEF RunInit, ControlInv, ReaderPcs

(* A step of one reader, which leaves what others look at alone. *)
LEMMA ReaderControl ==
  ASSUME ControlInv, UNCHANGED config, NEW l \in ListEngines,
         NEW from \in ReaderPcs \ {"idle"}, NEW to \in ReaderPcs,
         ReaderSteps(l, from, to),
         UNCHANGED <<invoked, ctxErr, connClosed, hasMonitor, tickerPc>>,
         mainPc' \in {mainPc, "fatal"},
         cancelled' \in {cancelled, cancelled \cup {l}},
         watcher' = watcher \/ watcher' = [watcher EXCEPT ![l] = "waiting"],
         \/ to # "entry" /\ UNCHANGED nextEntry
         \/ EntryLeft(l) /\ nextEntry' = [nextEntry EXCEPT ![l] = @ + 1]
  PROVE  ControlInv'
<1> USE DEF params, QueryEngineOf, Listing, ControlInv
<1>1. /\ reader' \in [ListEngines -> ReaderPcs]
      /\ reader' = [reader EXCEPT ![l] = to] /\ reader[l] # "idle"
  BY DEF ReaderSteps
<1>2. /\ nextEntry' \in [ListEngines -> Nat \ {0}]
      /\ \A m \in ListEngines : nextEntry'[m] <= Len(Listing[m]) + 1
      /\ \A m \in ListEngines : reader'[m] = "entry" => nextEntry'[m] # 1
  <2>0. \A m \in ListEngines : nextEntry[m] \in Nat \ {0} /\ Len(Listing[m]) \in Nat
    BY ConfigurationFacts
  <2>1. CASE to # "entry" /\ UNCHANGED nextEntry
    BY <1>1, <2>1
  <2>2. CASE EntryLeft(l) /\ nextEntry' = [nextEntry EXCEPT ![l] = @ + 1]
    BY <1>1, <2>0, <2>2 DEF EntryLeft
  <2> QED
    BY <2>1, <2>2
<1>3. watcher' \in [ListEngines -> {"none", "waiting", "ended"}]
  OBVIOUS
<1> QED
  BY <1>1, <1>2, <1>3

LEMMA NextControlInv == ControlInv /\ [RunStep]_<<vars, config>> => ControlInv'
<1> SUFFICES ASSUME ControlInv, [RunStep]_<<vars, config>>
             PROVE  ControlInv'
  OBVIOUS
<1> USE DEF params, QueryEngineOf, Listing
<1>1. CASE UNCHANGED <<vars, config>>
  BY <1>1 DEF vars, mainVars, readerVars, queryVars, ControlInv
<1>2. CASE UNCHANGED config /\ RunNext
  <2> USE <1>2 DEF mainVars, readerVars, queryVars
  <2>1. ASSUME NEW l \in ListEngines, Invoke(l) \/ InvokeRefresh(l)
        PROVE  ControlInv'
    <3>1. /\ invoked' = invoked + 1 /\ invoked < Len(params)
          /\ hasMonitor' = hasMonitor \cup {QueryEngineOf[l]}
          /\ QueryEngineOf[l] \in QueryEngines /\ Len(params) \in Nat
          /\ UNCHANGED <<mainPc, ctxErr, cancelled, nextEntry, connClosed, tickerPc>>
      BY <2>1, ConfigurationFacts DEF Invoke, InvokeRefresh, BeginInvoke, ControlInv
    <3>2. /\ \E to \in {"connecting", "reading"} : reader' = [reader EXCEPT ![l] = to]
          /\ watcher' = watcher \/ watcher' = [watcher EXCEPT ![l] = "waiting"]
      BY <2>1 DEF Invoke, InvokeRefresh
    <3> QED
      BY <3>1, <3>2 DEF ControlInv, ReaderPcs
  <2>2. CASE \/ InvokeMsEnginesReturns \/ MainReturns \/ DeadlineExceeded
             \/ TickerNext \/ TimePasses \/ Terminated
    BY <2>2 DEF InvokeMsEnginesReturns, MainReturns, DeadlineExceeded, TickerNext, Tick,
       ThinkScan, Abandon, ThinkDone, CheckEngines, CheckQueries, TickerSteps, TimePasses,
       Terminated, vars, ControlInv
  <2>3. ASSUME NEW l \in ListEngines, ReaderNext(l)
        PROVE  ControlInv'
    <3> USE DEF Cancel, ReaderPcs
    <3>1. CASE Connect(l) \/ ReadEntry(l)
      BY <3>1, ReaderControl DEF Connect, ReadEntry
    <3>2. CASE DialFails(l) \/ RequestFails(l)
      BY <3>2, ReaderControl DEF DialFails, RequestFails
    <3>3. CASE FileFails(l) \/ EntryPanics(l)
      BY <3>3, ReaderControl DEF FileFails, EntryPanics
    <3>4. CASE HandleEntry(l) \/ SkipEntry(l) \/ HandleTail(l)
      BY <3>4, ReaderControl DEF HandleEntry, SkipEntry, HandleTail
    <3>5. CASE ListEnds(l) \/ UnhandledStringIndex(l) \/ Sbv2ReadFails(l)
                 \/ UtmsReadFails(l) \/ UtmsWriteFails(l) \/ GoaReadFails(l)
                 \/ GoaCompressedReadFails(l)
      BY <3>5, ReaderControl DEF ListEnds, UnhandledStringIndex, Sbv2ReadFails,
         UtmsReadFails, UtmsWriteFails, GoaReadFails, GoaCompressedReadFails, ReaderEnds
    <3>6. CASE RefreshEnds(l)
      BY <3>6, ReaderControl DEF RefreshEnds
    <3> QED
      BY <2>3, <3>1, <3>2, <3>3, <3>4, <3>5, <3>6 DEF ReaderNext
  <2>4. ASSUME NEW l \in ListEngines, Watch(l)
        PROVE  ControlInv'
    BY <2>4 DEF Watch, ControlInv
  <2>5. ASSUME NEW q \in QueryEngines, ListenerNext(q)
        PROVE  ControlInv'
    BY <2>5 DEF ListenerNext, ReadFrom, OnServerInfoResponse, GetServerKeyFails,
       CompleteAnswer, CompleteWithoutMonitor, ControlInv
  <2> QED
    BY <2>1, <2>2, <2>3, <2>4, <2>5 DEF RunNext, MainNext
<1> QED
  BY <1>1, <1>2 DEF RunStep
-----------------------------------------------------------------------------
(* What a step does to the monitor and to the record of queries. *)

recordVars == <<sent, answered, abandoned, listener>>

Ends(l) ==
  /\ EndServerListEngine(l)
  /\ UNCHANGED recordVars
  /\ reader'[l] = "done" \/ EngineCtxDone(l)

Asks(l, a) ==
  /\ reader[l] # "idle"
  /\ QueryServer(l, a)
  /\ UNCHANGED <<answered, abandoned, listener>>

Thinks ==
  /\ \/ ThinkBegin \/ ThinkScanEnds \/ ThinkReturns
     \/ \E i \in 1..Len(queryList) :
          ThinkCollect(i) \/ ThinkResend(i) \/ ThinkSkip(i) \/ RetryIntervalElapses(i)
  /\ UNCHANGED recordVars

(* Every step makes at most one call of the monitor. *)
LEMMA RecordStep ==
  ASSUME ControlInv, [RunStep]_<<vars, config>>
  PROVE  \/ UNCHANGED <<monitorVars, recordVars>>
         \/ \E l \in ListEngines : BeginInvoke(l) \/ Ends(l)
         \/ \E l \in ListEngines, a \in Addresses : Asks(l, a)
         \/ \E q \in QueryEngines, a \in Addresses : ReadFrom(q, a)
         \/ \E q \in QueryEngines : OnServerInfoResponse(q) \/ CompleteAnswer(q)
         \/ Abandon
         \/ Thinks
<1>1. CASE UNCHANGED <<vars, config>>
  BY <1>1 DEF vars, queryVars, historyVars, recordVars
<1>2. CASE RunNext
  <2> USE DEF queryVars, historyVars, recordVars
  <2>1. ASSUME NEW l \in ListEngines, Invoke(l) \/ InvokeRefresh(l)
        PROVE  BeginInvoke(l)
    BY <2>1 DEF Invoke, InvokeRefresh
  <2>2. CASE InvokeMsEnginesReturns \/ MainReturns \/ DeadlineExceeded \/ Terminated
    BY <2>2 DEF InvokeMsEnginesReturns, MainReturns, DeadlineExceeded, Terminated, vars
  <2>3. ASSUME NEW l \in ListEngines, ReaderNext(l)
        PROVE  \/ UNCHANGED <<monitorVars, recordVars>>
               \/ Ends(l)
               \/ \E a \in Addresses : Asks(l, a)
    <3>0. reader \in [ListEngines -> ReaderPcs]
      BY DEF ControlInv
    <3>1. CASE Connect(l) \/ RequestFails(l) \/ FileFails(l) \/ ReadEntry(l)
               \/ SkipEntry(l) \/ EntryPanics(l) \/ RefreshEnds(l)
      BY <3>1 DEF Connect, RequestFails, FileFails, ReadEntry, SkipEntry, EntryPanics,
         RefreshEnds
    <3>2. CASE \/ ListEnds(l) \/ UnhandledStringIndex(l) \/ UtmsReadFails(l)
               \/ UtmsWriteFails(l) \/ GoaReadFails(l)
      BY <3>2 DEF ListEnds, UnhandledStringIndex, UtmsReadFails, UtmsWriteFails,
         GoaReadFails, ReaderEnds
    <3>3. CASE DialFails(l)
      BY <3>0, <3>3 DEF DialFails, ReaderSteps, Ends
    <3>4. CASE Sbv2ReadFails(l) \/ GoaCompressedReadFails(l)
      BY <3>0, <3>4 DEF Sbv2ReadFails, GoaCompressedReadFails, ReaderEnds, ReaderSteps, Ends
    <3>5. CASE HandleEntry(l)
      <4> DEFINE i == nextEntry[l] - 1
      <4>1. /\ Listing[l] \in Seq(Addresses) /\ Len(Listing[l]) \in Nat
            /\ nextEntry[l] \in Nat \ {0} /\ nextEntry[l] <= Len(Listing[l]) + 1
            /\ reader[l] = "entry" /\ nextEntry[l] # 1
        BY <3>5, ConfigurationFacts DEF ControlInv, HandleEntry, ReaderSteps
      <4>2. i \in 1..Len(Listing[l])
        BY <4>1
      <4>3. Listing[l][i] \in Addresses
        BY <4>1, <4>2, ElementOfSeq
      <4>4. Asks(l, Listing[l][i])
        BY <3>5, <4>1 DEF HandleEntry, Asks
      <4> QED
        BY <4>3, <4>4
    <3>6. CASE HandleTail(l)
      <4>1. reader[l] = "tail" /\ UNCHANGED <<answered, abandoned, listener>>
        BY <3>6 DEF HandleTail, ReaderSteps
      <4> QED
        BY <3>6, <4>1 DEF HandleTail, TailAddresses, Asks
    <3> QED
      BY <2>3, <3>1, <3>2, <3>3, <3>4, <3>5, <3>6 DEF ReaderNext
  <2>4. ASSUME NEW l \in ListEngines, Watch(l)
        PROVE  Ends(l)
    BY <2>4 DEF Watch, Ends
  <2>5. ASSUME NEW q \in QueryEngines, GetServerKeyFails(q) \/ CompleteWithoutMonitor(q)
        PROVE  UNCHANGED <<monitorVars, recordVars>>
    BY <2>5 DEF GetServerKeyFails, CompleteWithoutMonitor
  <2>6. CASE Tick \/ ThinkScan \/ ThinkDone \/ TimePasses
    BY <2>6 DEF Tick, ThinkScan, ThinkDone, TimePasses, TickerSteps, Thinks
  <2>7. CASE CheckEngines \/ CheckQueries
    BY <2>7 DEF CheckEngines, CheckQueries, TickerSteps
  <2> QED
    BY <1>2, <2>1, <2>2, <2>3, <2>4, <2>5, <2>6, <2>7
       DEF RunNext, MainNext, ListenerNext, TickerNext
<1> QED
  BY <1>1, <1>2 DEF RunStep

(* main, the readers and the ticker leave what a listener holds alone, and *)
(* a query engine never loses its monitor.                                 *)
LEMMA MonitorKept ==
  ASSUME [RunStep]_<<vars, config>>
  PROVE  hasMonitor \subseteq hasMonitor' /\ invoked' \in {invoked, invoked + 1}
<1>1. CASE UNCHANGED <<vars, config>>
  BY <1>1 DEF vars, queryVars, mainVars
<1>2. CASE RunNext
  <2> USE DEF queryVars, mainVars
  <2>1. ASSUME NEW l \in ListEngines, ReaderNext(l) \/ Watch(l)
        PROVE  UNCHANGED <<hasMonitor, invoked>>
    BY <2>1 DEF ReaderNext, Connect, DialFails, RequestFails, FileFails, ReadEntry,
       HandleEntry, SkipEntry, EntryPanics, ListEnds, UnhandledStringIndex, Sbv2ReadFails,
       UtmsReadFails, UtmsWriteFails, GoaReadFails, GoaCompressedReadFails, ReaderEnds,
       HandleTail, RefreshEnds, Watch
  <2>2. ASSUME NEW q \in QueryEngines, ListenerNext(q)
        PROVE  UNCHANGED <<hasMonitor, invoked>>
    BY <2>2 DEF ListenerNext, ReadFrom, OnServerInfoResponse, GetServerKeyFails,
       CompleteAnswer, CompleteWithoutMonitor
  <2>3. CASE \/ InvokeMsEnginesReturns \/ MainReturns \/ DeadlineExceeded
             \/ TickerNext \/ TimePasses \/ Terminated
    BY <2>3 DEF InvokeMsEnginesReturns, MainReturns, DeadlineExceeded, TickerNext, Tick,
       ThinkScan, Abandon, ThinkDone, CheckEngines, CheckQueries, TickerSteps, TimePasses,
       Terminated, vars
  <2>4. ASSUME NEW l \in ListEngines, Invoke(l) \/ InvokeRefresh(l)
        PROVE  hasMonitor \subseteq hasMonitor' /\ invoked' = invoked + 1
    BY <2>4 DEF Invoke, InvokeRefresh, BeginInvoke
  <2> QED
    BY <1>2, <2>1, <2>2, <2>3, <2>4 DEF RunNext, MainNext
<1> QED
  BY <1>1, <1>2 DEF RunStep

-----------------------------------------------------------------------------
(***************************************************************************)
(* Every query the monitor or Think holds was sent, by the reader of its   *)
(* list engine, through the query engine of that entry, whose monitor is   *)
(* set; and the monitor lists only engines that main has invoked.  What a  *)
(* listener holds may come from anywhere.                                  *)
(***************************************************************************)
HistoryInv ==
  /\ sent \subseteq QueryEngines \X Addresses
  /\ answered \subseteq sent
  /\ abandoned \subseteq sent
  /\ \A k \in sent : k[1] \in hasMonitor

ListenerInv == listener \in [QueryEngines -> {NoDatagram} \cup Datagram]

ItemsSent ==
  \A i \in 1..Len(queryList) :
    /\ <<queryList[i].engine, queryList[i].address>> \in sent
    /\ queryList[i].engine = QueryEngineOf[queryList[i].listEngine]

CollectedSent ==
  \A n \in 1..Len(toComplete) : <<toComplete[n].engine, toComplete[n].address>> \in sent

EnginesInvoked ==
  \A j \in 1..Len(serverEngineList) : \E i \in 1..invoked : serverEngineList[j] = params[i]

DataInv == TypeOK /\ HistoryInv /\ ListenerInv /\ ItemsSent /\ CollectedSent /\ EnginesInvoked

RunInv == ControlInv /\ DataInv

(* What CompleteQuery does depends only on the IPv4 form of the address. *)
LEMMA SameCompletion ==
  ASSUME NEW q, NEW a, NEW b, AsIPv4(a) = AsIPv4(b), CompleteQuery(q, a)
  PROVE  CompleteQuery(q, b)
<1>1. QueryIndex(q, a) = QueryIndex(q, b)
  BY DEF QueryIndex, SelectInSeq, Matches
<1> QED
  BY <1>1 DEF CompleteQuery

(* What every step of a run is to the monitor. *)
LEMMA RunStepIsMonitorStep ==
  ASSUME RunInv, [RunStep]_<<vars, config>>
  PROVE  [Next]_monitorVars
<1> USE DEF RunInv
<1>1. CASE UNCHANGED <<monitorVars, recordVars>>
  BY <1>1
<1>2. ASSUME NEW l \in ListEngines, BeginInvoke(l)
      PROVE  ClientBegins(l)
  <2>1. /\ l = params[invoked + 1] /\ invoked + 1 \in 1..Len(params)
        /\ invoked \in Nat
    BY <1>2, ConfigurationFacts DEF BeginInvoke, ControlInv
  <2>2. ~Contains(serverEngineList, l)
    <3>1. SUFFICES ASSUME NEW j \in 1..Len(serverEngineList), serverEngineList[j] = l
                   PROVE  FALSE
      BY DEF Contains
    <3>2. PICK i \in 1..invoked : l = params[i]
      BY <3>1 DEF DataInv, EnginesInvoked
    <3>3. i \in 1..Len(params) /\ i # invoked + 1
      BY <2>1
    <3> QED
      BY <2>1, <3>2, <3>3, ConfigurationFacts DEF ControlInv
  <2> QED
    BY <1>2, <2>2 DEF BeginInvoke, ClientBegins
<1>3. ASSUME NEW l \in ListEngines, NEW a \in Addresses, Asks(l, a)
      PROVE  Next
  <2>1. QueryEngineOf[l] \in QueryEngines
    BY ConfigurationFacts DEF ControlInv
  <2> QED
    BY <1>3, <2>1 DEF Asks, QueryServer, Next
<1>4. ASSUME NEW q \in QueryEngines, CompleteAnswer(q)
      PROVE  [Next]_monitorVars
  <2> DEFINE b == AnswerAddress(CompletedAddress(q, listener[q].addr))
  <2>1. CompleteQuery(q, b) /\ UNCHANGED toComplete
    BY <1>4 DEF CompleteAnswer
  <2> HIDE DEF b
  <2>2. CASE UNCHANGED <<serverEngineList, queryList, thinkPc, cursor>>
    BY <2>1, <2>2 DEF monitorVars
  <2>3. ASSUME NEW i \in 1..Len(queryList), Matches(queryList[i], q, b)
        PROVE  Next
    <3> DEFINE a == queryList[i].address
    <3>1. a \in Addresses
      BY DEF DataInv, ItemsSent, HistoryInv
    <3>2. AsIPv4(AnswerAddress(a)) = AsIPv4(a)
      <4>1. a \in AddrPort
        BY <3>1, MonitorAssumption
      <4> QED
        BY <4>1, Zenon DEF AddrPort, AnswerAddress, AsIPv4
    <3>3. AsIPv4(a) = AsIPv4(b)
      BY <2>3 DEF Matches, AsIPv4
    <3>4. CompleteQuery(q, AnswerAddress(a))
      BY <2>1, <3>2, <3>3, SameCompletion
    <3> QED
      BY <2>1, <3>1, <3>4 DEF ClientCompletes, Next
  <2> QED
    BY <2>1, <2>2, <2>3, CompleteQueryStep DEF DataInv
<1>5. ASSUME NEW l \in ListEngines, Ends(l)
      PROVE  Next
  BY <1>5 DEF Ends, Next
<1>6. CASE Abandon
  BY <1>6 DEF Abandon, Next, ThinkNext
<1>7. CASE Thinks
  BY <1>7 DEF Thinks, Next, ThinkNext
<1>8. ASSUME NEW q \in QueryEngines, NEW a \in Addresses, ReadFrom(q, a) \/ OnServerInfoResponse(q)
      PROVE  UNCHANGED monitorVars
  BY <1>8 DEF ReadFrom, OnServerInfoResponse
<1>9. ASSUME NEW q \in QueryEngines, OnServerInfoResponse(q)
      PROVE  UNCHANGED monitorVars
  BY <1>9 DEF OnServerInfoResponse
<1> QED
  BY <1>1, <1>2, <1>3, <1>4, <1>5, <1>6, <1>7, <1>8, <1>9, RecordStep DEF Next

(* Taking an engine off the list leaves engines that main has invoked. *)
LEMMA EndKeepsInvoked ==
  ASSUME TypeOK, EnginesInvoked, 1..invoked \subseteq 1..invoked', UNCHANGED config,
         NEW le, EngineEnds(le)
  PROVE  EnginesInvoked'
<1>1. serverEngineList \in Seq(ListEngines)
  BY DEF TypeOK
<1>2. \A j \in 1..Len(serverEngineList') :
        \E i \in 1..Len(serverEngineList) : serverEngineList'[j] = serverEngineList[i]
  BY <1>1, RemoveFirstElements DEF EngineEnds
<1> QED
  BY <1>2 DEF EnginesInvoked, params

(* A query that CompleteQuery takes off the list was all that changes. *)
LEMMA CompletionKeeps ==
  ASSUME TypeOK, ItemsSent, EnginesInvoked, 1..invoked \subseteq 1..invoked',
         UNCHANGED <<config, sent>>,
         NEW q, NEW a, CompleteQuery(q, a)
  PROVE  ItemsSent' /\ EnginesInvoked'
<1>1. CASE UNCHANGED <<serverEngineList, queryList>>
  BY <1>1 DEF ItemsSent, EnginesInvoked, QueryEngineOf, params
<1>2. ASSUME NEW i \in 1..Len(queryList), RemoveQuery(i),
             UNCHANGED serverEngineList \/ EngineEnds(queryList[i].listEngine)
      PROVE  ItemsSent' /\ EnginesInvoked'
  <2>1. \A j \in 1..Len(queryList') :
          \E k \in 1..Len(queryList) : queryList'[j] = queryList[k]
    BY <1>2, RemovedItems DEF RemoveQuery, Removed
  <2>2. ItemsSent'
    BY <2>1 DEF ItemsSent, QueryEngineOf
  <2>3. EnginesInvoked'
    BY <1>2, EndKeepsInvoked DEF EnginesInvoked, params
  <2> QED
    BY <2>2, <2>3
<1> QED
  BY <1>1, <1>2, CompleteQueryStep
LEMMA NextDataInv ==
  ASSUME RunInv, [RunStep]_<<vars, config>>
  PROVE  DataInv'
<1> USE DEF RunInv
<1>1. TypeOK /\ TypeOK'
  BY RunStepIsMonitorStep, NextTypeOK DEF DataInv
<1>2. /\ hasMonitor \subseteq hasMonitor'
      /\ 1..invoked \subseteq 1..invoked'
      /\ UNCHANGED config
  <2>1. invoked \in Nat
    BY ConfigurationFacts DEF ControlInv
  <2> QED
    BY <2>1, MonitorKept DEF RunStep
<1>3. /\ queryList \in Seq(QueryItem) /\ Len(queryList) \in Nat
      /\ toComplete \in Seq(Abandoned) /\ Len(toComplete) \in Nat
      /\ serverEngineList \in Seq(ListEngines) /\ Len(serverEngineList) \in Nat
  BY <1>1, LenProperties DEF TypeOK, Abandoned
<1>4. UNCHANGED queryList /\ sent \subseteq sent' => ItemsSent'
  BY <1>2 DEF DataInv, ItemsSent, QueryEngineOf
<1>5. UNCHANGED toComplete /\ sent \subseteq sent' => CollectedSent'
  BY DEF DataInv, CollectedSent
<1>6. UNCHANGED serverEngineList => EnginesInvoked'
  BY <1>2 DEF DataInv, EnginesInvoked, params
<1>7. UNCHANGED <<sent, answered, abandoned>> => HistoryInv'
  BY <1>2 DEF DataInv, HistoryInv
<1>8. UNCHANGED listener => ListenerInv'
  BY DEF DataInv, ListenerInv
<1>9. CASE UNCHANGED <<monitorVars, recordVars>>
  BY <1>1, <1>4, <1>5, <1>6, <1>7, <1>8, <1>9 DEF monitorVars, recordVars, DataInv
<1>10. ASSUME NEW l \in ListEngines, BeginInvoke(l)
       PROVE  DataInv'
  <2>1. /\ UNCHANGED <<queryList, toComplete, sent, answered, abandoned, listener>>
        /\ serverEngineList' = <<l>> \o serverEngineList
        /\ l = params[invoked + 1] /\ invoked' = invoked + 1 /\ invoked \in Nat
    BY <1>10, ConfigurationFacts
       DEF BeginInvoke, BeginServerListEngine, historyVars, ControlInv
  <2>2. EnginesInvoked'
    <3>1. SUFFICES ASSUME NEW j \in 1..Len(serverEngineList')
                   PROVE  \E i \in 1..invoked' : serverEngineList'[j] = params[i]
      BY <1>2 DEF EnginesInvoked, params
    <3>2. /\ Len(serverEngineList') = Len(serverEngineList) + 1
          /\ serverEngineList'[j] = IF j = 1 THEN l ELSE serverEngineList[j - 1]
      BY <1>3, <2>1, PushFrontProperties
    <3>3. CASE j = 1
      BY <2>1, <3>2, <3>3
    <3>4. CASE j # 1
      <4>1. j - 1 \in 1..Len(serverEngineList)
        BY <1>3, <3>2, <3>4
      <4> QED
        BY <1>2, <3>2, <3>4, <4>1 DEF DataInv, EnginesInvoked
    <3> QED
      BY <3>3, <3>4
  <2> QED
    BY <1>1, <1>4, <1>5, <1>7, <1>8, <2>1, <2>2 DEF DataInv
<1>11. ASSUME NEW l \in ListEngines, Ends(l)
       PROVE  DataInv'
  <2>1. UNCHANGED <<queryList, toComplete, sent, answered, abandoned, listener>>
    BY <1>11 DEF Ends, EndServerListEngine, recordVars
  <2>2. EnginesInvoked'
    BY <1>1, <1>2, <1>11, EndKeepsInvoked DEF Ends, EndServerListEngine, DataInv
  <2> QED
    BY <1>1, <1>4, <1>5, <1>7, <1>8, <2>1, <2>2 DEF DataInv
<1>12. ASSUME NEW l \in ListEngines, NEW a \in Addresses, Asks(l, a)
       PROVE  DataInv'
  <2> DEFINE q == QueryEngineOf[l]
  <2>1. q \in hasMonitor /\ q \in QueryEngines
    BY <1>12, ConfigurationFacts DEF Asks, ControlInv
  <2>2. CASE BeginQueryDuplicate(q, a) /\ UNCHANGED sent
    BY <1>1, <1>4, <1>5, <1>6, <1>7, <1>8, <1>12, <2>2
       DEF Asks, BeginQueryDuplicate, monitorVars, DataInv
  <2>3. CASE BeginQuery(l, q, a) /\ sent' = sent \cup {<<q, a>>}
    <3>1. /\ UNCHANGED <<serverEngineList, toComplete, answered, abandoned, listener>>
          /\ sent \subseteq sent'
          /\ queryList' = <<NewItem(l, q, a)>> \o queryList
      BY <1>12, <2>3 DEF Asks, BeginQuery
    <3>2. HistoryInv'
      BY <1>2, <2>1, <2>3, <3>1 DEF DataInv, HistoryInv
    <3>3. ItemsSent'
      <4>1. SUFFICES ASSUME NEW j \in 1..Len(queryList')
                     PROVE  /\ <<queryList'[j].engine, queryList'[j].address>> \in sent'
                            /\ queryList'[j].engine = QueryEngineOf[queryList'[j].listEngine]
        BY <1>2 DEF ItemsSent, QueryEngineOf
      <4>2. CASE j = 1
        BY <1>1, <2>1, <2>3, <3>1, <4>2, PushedItems DEF NewItem
      <4>3. CASE j # 1
        <5>1. j - 1 \in 1..Len(queryList) /\ queryList'[j] = queryList[j - 1]
          BY <1>1, <2>1, <3>1, <4>3, PushedItems
        <5> QED
          BY <3>1, <5>1 DEF DataInv, ItemsSent
      <4> QED
        BY <4>2, <4>3
    <3> QED
      BY <1>1, <1>5, <1>6, <1>8, <3>1, <3>2, <3>3 DEF DataInv
  <2> QED
    BY <1>12, <2>2, <2>3 DEF Asks, QueryServer
<1>13. ASSUME NEW q \in QueryEngines, NEW a \in Addresses, ReadFrom(q, a)
       PROVE  DataInv'
  <2>1. /\ UNCHANGED <<monitorVars, sent, answered, abandoned>>
        /\ listener' = [listener EXCEPT ![q] = [pc |-> "answer", addr |-> a]]
    BY <1>13 DEF ReadFrom, historyVars
  <2>2. ListenerInv'
    BY <2>1 DEF DataInv, ListenerInv, Datagram
  <2> QED
    BY <1>1, <1>4, <1>5, <1>6, <1>7, <2>1, <2>2 DEF monitorVars, DataInv
<1>14. ASSUME NEW q \in QueryEngines, OnServerInfoResponse(q)
       PROVE  DataInv'
  <2> DEFINE d == [listener[q] EXCEPT !.pc = "complete"]
  <2>1. /\ UNCHANGED <<monitorVars, sent, answered, abandoned>>
        /\ listener[q].pc = "answer"
        /\ listener' = [listener EXCEPT ![q] = d]
    BY <1>14 DEF OnServerInfoResponse, historyVars
  <2>2. listener[q] \in Datagram
    BY <2>1 DEF DataInv, ListenerInv, NoDatagram
  <2>3. d \in Datagram
    BY <2>2, Zenon DEF Datagram
  <2> HIDE DEF d
  <2>4. ListenerInv'
    BY <2>1, <2>3 DEF DataInv, ListenerInv
  <2> QED
    BY <1>1, <1>4, <1>5, <1>6, <1>7, <2>1, <2>4 DEF monitorVars, DataInv
<1>15. ASSUME NEW q \in QueryEngines, CompleteAnswer(q)
       PROVE  DataInv'
  <2>1. /\ UNCHANGED <<toComplete, sent, abandoned>>
        /\ listener' = [listener EXCEPT ![q] = NoDatagram]
        /\ answered' \subseteq answered \cup sent
    BY <1>15 DEF CompleteAnswer
  <2>2. ListenerInv'
    BY <2>1 DEF DataInv, ListenerInv
  <2>3. HistoryInv'
    BY <1>2, <2>1 DEF DataInv, HistoryInv
  <2>4. ItemsSent' /\ EnginesInvoked'
    BY <1>1, <1>2, <1>15, <2>1, CompletionKeeps DEF CompleteAnswer, DataInv
  <2> QED
    BY <1>1, <1>5, <2>1, <2>2, <2>3, <2>4 DEF DataInv
<1>16. CASE Abandon
  <2>1. /\ toComplete # <<>> /\ toComplete' = Tail(toComplete)
        /\ CompleteQuery(Head(toComplete).engine, Head(toComplete).address)
        /\ abandoned' = abandoned \cup {<<Head(toComplete).engine, Head(toComplete).address>>}
        /\ UNCHANGED <<sent, answered, listener>>
    BY <1>16 DEF Abandon, ThinkAbandon, TickerSteps, queryVars
  <2>2. /\ Head(toComplete) = toComplete[1] /\ 1 \in 1..Len(toComplete)
        /\ \A n \in 1..Len(toComplete') :
             n + 1 \in 1..Len(toComplete) /\ toComplete'[n] = toComplete[n + 1]
    BY <1>3, <2>1, HeadTailProperties
  <2>3. HistoryInv'
    BY <1>2, <2>1, <2>2 DEF DataInv, HistoryInv, CollectedSent
  <2>4. CollectedSent'
    BY <2>1, <2>2 DEF DataInv, CollectedSent
  <2>5. ItemsSent' /\ EnginesInvoked'
    BY <1>1, <1>2, <2>1, CompletionKeeps DEF DataInv
  <2> QED
    BY <1>1, <1>8, <2>1, <2>3, <2>4, <2>5 DEF DataInv
<1>17. CASE Thinks
  <2>1. UNCHANGED <<serverEngineList, sent, answered, abandoned, listener>>
    BY <1>17 DEF Thinks, recordVars, ThinkBegin, ThinkScanEnds, ThinkReturns, ThinkCollect,
       ThinkResend, ThinkSkip, RetryIntervalElapses
  <2>2. ItemsSent'
    <3>1. CASE UNCHANGED queryList
      BY <1>4, <2>1, <3>1
    <3>2. ASSUME NEW i \in 1..Len(queryList), Resent(i) \/ Aged(i)
          PROVE  ItemsSent'
      BY <1>1, <1>2, <2>1, <3>2, UpdatedItems
         DEF SameQuery, DataInv, ItemsSent, QueryEngineOf
    <3> QED
      BY <1>17, <3>1, <3>2 DEF Thinks, ThinkBegin, ThinkScanEnds, ThinkReturns,
         ThinkCollect, ThinkResend, ThinkSkip, RetryIntervalElapses, Resent, Aged
  <2>3. CollectedSent'
    <3>1. CASE UNCHANGED toComplete
      BY <1>5, <2>1, <3>1
    <3>2. ASSUME NEW i \in 1..Len(queryList), ThinkCollect(i)
          PROVE  CollectedSent'
      <4> DEFINE e == [engine |-> queryList[i].engine, address |-> queryList[i].address]
      <4>1. <<e.engine, e.address>> \in sent
        BY DEF DataInv, ItemsSent
      <4>2. queryList[i] \in QueryItem
        BY <1>3, ElementOfSeq
      <4>3. e \in Abandoned
        BY <4>2 DEF Abandoned, QueryItem
      <4>4. toComplete' = Append(toComplete, e)
        BY <3>2 DEF ThinkCollect
      <4> HIDE DEF e
      <4>5. \A n \in 1..Len(toComplete') :
              \/ toComplete'[n] = e
              \/ n \in 1..Len(toComplete) /\ toComplete'[n] = toComplete[n]
        BY <1>3, <4>3, <4>4, AppendProperties
      <4> QED
        BY <2>1, <4>1, <4>5 DEF DataInv, CollectedSent
    <3> QED
      BY <1>17, <3>1, <3>2 DEF Thinks, ThinkBegin, ThinkScanEnds, ThinkReturns,
         ThinkResend, ThinkSkip, RetryIntervalElapses
  <2> QED
    BY <1>1, <1>6, <1>7, <1>8, <2>1, <2>2, <2>3 DEF DataInv
<1> QED
  BY <1>9, <1>10, <1>11, <1>12, <1>13, <1>14, <1>15, <1>16, <1>17, RecordStep

LEMMA InitRunInv == RunInit => RunInv
<1> SUFFICES ASSUME RunInit PROVE RunInv
  OBVIOUS
<1>1. ControlInv /\ TypeOK
  BY InitControlInv, InitTypeOK DEF RunInit
<1>2. queryList = <<>> /\ toComplete = <<>> /\ serverEngineList = <<>>
  BY DEF RunInit, Init
<1>3. ItemsSent /\ CollectedSent /\ EnginesInvoked
  BY <1>2 DEF ItemsSent, CollectedSent, EnginesInvoked
<1>4. HistoryInv /\ ListenerInv
  BY DEF RunInit, HistoryInv, ListenerInv, NoDatagram
<1> QED
  BY <1>1, <1>3, <1>4 DEF RunInv, DataInv

LEMMA NextRunInv == RunInv /\ [RunStep]_<<vars, config>> => RunInv'
BY NextControlInv, NextDataInv DEF RunInv

LEMMA RunInvariant == RunSpec => []RunInv
<1>1. RunSpec <=> RunInit /\ [][RunStep]_<<vars, config>>
  BY DEF RunSpec, RunStep
<1> QED
  BY <1>1, InitRunInv, NextRunInv, PTL

-----------------------------------------------------------------------------
(* What follows for the run. *)

(* The state of a run is well typed: no reader goes past its list, and     *)
(* only a query that was sent is answered or abandoned.                    *)
THEOREM RunTypeCorrect == RunSpec => []RunTypeOK
<1>1. RunInv => RunTypeOK
  BY DEF RunInv, ControlInv, DataInv, HistoryInv, ListenerInv, RunTypeOK, ReaderPcs
<1> QED
  BY <1>1, RunInvariant, PTL

(* No answer to a query of the run finds its query engine without a        *)
(* monitor, whatever the other engines are at: a process that ends so had  *)
(* asked nothing through that engine.                                      *)
THEOREM RunMonitorSet == RunSpec => AnswersFindMonitor
<1> DEFINE Unasked ==
             \A q \in QueryEngines : CompleteWithoutMonitor(q) =>
               \A a \in Addresses : <<q, a>> \notin sent
<1>1. RunInv => [Unasked]_vars
  <2> SUFFICES ASSUME RunInv, NEW q \in QueryEngines, CompleteWithoutMonitor(q),
                      NEW a \in Addresses, <<q, a>> \in sent
               PROVE  FALSE
    OBVIOUS
  <2>1. q \in hasMonitor
    BY DEF RunInv, DataInv, HistoryInv
  <2> QED
    BY <2>1 DEF CompleteWithoutMonitor
<1>2. AnswersFindMonitor <=> [][Unasked]_vars
  BY DEF AnswersFindMonitor
<1> HIDE DEF Unasked
<1> QED
  BY <1>1, <1>2, RunInvariant, PTL

(* The goroutines of a run use the monitor as MonitorSpec says its clients *)
(* do, so that what holds of the monitor holds in every run.               *)
THEOREM RunImplementsMonitor == RunSpec => UsesMonitor
<1>1. RunInit => Init
  BY DEF RunInit
<1>2. RunInv /\ [RunStep]_<<vars, config>> => [Next]_monitorVars
  BY RunStepIsMonitorStep
<1>3. RunSpec <=> RunInit /\ [][RunStep]_<<vars, config>>
  BY DEF RunSpec, RunStep
<1> QED
  BY <1>1, <1>2, <1>3, RunInvariant, PTL DEF UsesMonitor, MonitorSpec
-----------------------------------------------------------------------------
(* The engines at work. *)

Coming == {"connecting", "reading", "entry"}

(* A context that is done stays done, and the list of an engine is coming  *)
(* from the moment main invokes the engine until its reader is through.    *)
LEMMA ComingStep ==
  ASSUME ControlInv, [RunStep]_<<vars, config>>, NEW l \in ListEngines,
         reader'[l] \in Coming, ~EngineCtxDone(l)'
  PROVE  ~EngineCtxDone(l) /\ (reader[l] \in Coming \/ BeginInvoke(l))
<1> USE DEF Coming, EngineCtxDone, CtxDone, mainVars, readerVars
<1>0. reader \in [ListEngines -> ReaderPcs]
  BY DEF ControlInv
<1>1. CASE UNCHANGED <<vars, config>>
  BY <1>1 DEF vars
<1>2. CASE RunNext
  <2>1. ASSUME NEW m \in ListEngines, Invoke(m) \/ InvokeRefresh(m)
        PROVE  ~EngineCtxDone(l) /\ (reader[l] \in Coming \/ BeginInvoke(l))
    BY <1>0, <2>1 DEF Invoke, InvokeRefresh, BeginInvoke
  <2>2. CASE \/ InvokeMsEnginesReturns \/ MainReturns \/ DeadlineExceeded
             \/ TickerNext \/ TimePasses \/ Terminated
    BY <2>2 DEF InvokeMsEnginesReturns, MainReturns, DeadlineExceeded, TickerNext, Tick,
       ThinkScan, Abandon, ThinkDone, CheckEngines, CheckQueries, TickerSteps, TimePasses,
       Terminated, vars
  <2>3. ASSUME NEW m \in ListEngines, ReaderNext(m)
        PROVE  ~EngineCtxDone(l) /\ reader[l] \in Coming
    BY <1>0, <2>3 DEF ReaderNext, Connect, DialFails, RequestFails, FileFails, ReadEntry,
       HandleEntry, SkipEntry, EntryPanics, ListEnds, UnhandledStringIndex, Sbv2ReadFails,
       UtmsReadFails, UtmsWriteFails, GoaReadFails, GoaCompressedReadFails, ReaderEnds,
       HandleTail, RefreshEnds, ReaderSteps, Cancel
  <2>4. ASSUME NEW m \in ListEngines, Watch(m)
        PROVE  ~EngineCtxDone(l) /\ reader[l] \in Coming
    BY <2>4 DEF Watch
  <2>5. ASSUME NEW q \in QueryEngines, ListenerNext(q)
        PROVE  ~EngineCtxDone(l) /\ reader[l] \in Coming
    BY <2>5 DEF ListenerNext, ReadFrom, OnServerInfoResponse, GetServerKeyFails,
       CompleteAnswer, CompleteWithoutMonitor
  <2> QED
    BY <1>2, <2>1, <2>2, <2>3, <2>4, <2>5 DEF RunNext, MainNext
<1> QED
  BY <1>1, <1>2 DEF RunStep

(* Other list engines stay on the list when one is taken off it. *)
LEMMA OthersStayListed ==
  ASSUME TypeOK, NEW l, NEW m, l # m, EngineEnds(m), Contains(serverEngineList, l)
  PROVE  Contains(serverEngineList, l)'
<1>1. serverEngineList \in Seq(ListEngines)
  BY DEF TypeOK
<1>2. PICK i \in 1..Len(serverEngineList) : serverEngineList[i] = l
  BY DEF Contains
<1>3. \A k \in 1..Len(serverEngineList) : serverEngineList[k] # m =>
        \E j \in 1..Len(RemoveFirst(serverEngineList, m)) :
          RemoveFirst(serverEngineList, m)[j] = serverEngineList[k]
  BY <1>1, RemoveFirstElements
<1>4. serverEngineList[i] # m /\ serverEngineList' = RemoveFirst(serverEngineList, m)
  BY <1>2 DEF EngineEnds
<1> QED
  BY <1>2, <1>3, <1>4 DEF Contains

(* CompleteQuery takes an engine off the list only with the last of its    *)
(* own queries.                                                            *)
LastSettled(l) ==
  engineHasPendingQueries(l, queryList) /\ ~engineHasPendingQueries(l, queryList')

LEMMA CompletionKeepsListed ==
  ASSUME TypeOK, NEW q, NEW a, CompleteQuery(q, a),
         NEW l \in ListEngines, Contains(serverEngineList, l)
  PROVE  Contains(serverEngineList, l)' \/ LastSettled(l)
<1> DEFINE i == QueryIndex(q, a)
<1>1. CASE UNCHANGED serverEngineList
  BY <1>1 DEF Contains
<1>2. CASE /\ i # 0
           /\ ~engineHasPendingQueries(queryList[i].listEngine, queryList')
           /\ EngineEnds(queryList[i].listEngine)
  <2>1. i \in 1..Len(queryList)
    BY <1>2, QueryIndexProperties, LenProperties DEF TypeOK
  <2>2. CASE queryList[i].listEngine = l
    BY <1>2, <2>1, <2>2 DEF LastSettled, engineHasPendingQueries
  <2>3. CASE queryList[i].listEngine # l
    BY <1>2, <2>3, OthersStayListed
  <2> QED
    BY <2>2, <2>3
<1> QED
  BY <1>1, <1>2 DEF CompleteQuery

(* An engine whose list is coming stays on the monitor's list, or leaves   *)
(* it with the last of its pending queries.                                *)
LEMMA ListedStep ==
  ASSUME RunInv, [RunStep]_<<vars, config>>, NEW l \in ListEngines,
         reader'[l] \in Coming, ~EngineCtxDone(l)', ~Contains(serverEngineList, l)'
  PROVE  reader[l] \in Coming /\ (~Contains(serverEngineList, l) \/ LastSettled(l))
<1>1. ControlInv /\ TypeOK /\ UNCHANGED config
  BY DEF RunInv, DataInv, RunStep
<1>2. ~EngineCtxDone(l) /\ (reader[l] \in Coming \/ BeginInvoke(l))
  BY <1>1, ComingStep
<1>3. ASSUME NEW m \in ListEngines, BeginInvoke(m)
      PROVE  m # l /\ ~Contains(serverEngineList, l)
  <2>1. /\ serverEngineList' = <<m>> \o serverEngineList
        /\ serverEngineList \in Seq(ListEngines) /\ Len(serverEngineList) \in Nat
    BY <1>1, <1>3, LenProperties DEF BeginInvoke, BeginServerListEngine, TypeOK
  <2>2. 1 \in 1..Len(serverEngineList') /\ serverEngineList'[1] = m
    BY <2>1, PushFrontProperties
  <2>3. ASSUME NEW j \in 1..Len(serverEngineList)
        PROVE  j + 1 \in 1..Len(serverEngineList') /\ serverEngineList'[j + 1] = serverEngineList[j]
    <3>1. j + 1 \in 1..Len(serverEngineList) + 1 /\ j + 1 # 1 /\ (j + 1) - 1 = j
      BY <2>1
    <3> QED
      BY <2>1, <3>1, PushFrontProperties
  <2> QED
    BY <2>2, <2>3 DEF Contains
<1>4. reader[l] \in Coming
  BY <1>2, <1>3
<1>5. UNCHANGED serverEngineList => ~Contains(serverEngineList, l)
  BY DEF Contains
<1>6. CASE UNCHANGED <<monitorVars, recordVars>>
  BY <1>4, <1>5, <1>6 DEF monitorVars
<1>7. ASSUME NEW m \in ListEngines, Ends(m)
      PROVE  ~Contains(serverEngineList, l)
  <2>1. m # l /\ EngineEnds(m)
    BY <1>2, <1>7 DEF Ends, EndServerListEngine, Coming
  <2> QED
    BY <1>1, <2>1, OthersStayListed
<1>8. ASSUME NEW m \in ListEngines, NEW a \in Addresses, Asks(m, a)
      PROVE  UNCHANGED serverEngineList
  BY <1>8 DEF Asks, QueryServer, BeginQuery, BeginQueryDuplicate, monitorVars
<1>9. ASSUME NEW q \in QueryEngines, NEW a \in Addresses,
             ReadFrom(q, a) \/ OnServerInfoResponse(q)
      PROVE  UNCHANGED serverEngineList
  BY <1>9 DEF ReadFrom, OnServerInfoResponse, monitorVars
<1>10. ASSUME NEW q \in QueryEngines, OnServerInfoResponse(q)
       PROVE  UNCHANGED serverEngineList
  BY <1>10 DEF OnServerInfoResponse, monitorVars
<1>11. ASSUME NEW q \in QueryEngines, CompleteAnswer(q)
       PROVE  ~Contains(serverEngineList, l) \/ LastSettled(l)
  BY <1>1, <1>11, CompletionKeepsListed DEF CompleteAnswer
<1>12. CASE Abandon
  BY <1>1, <1>4, <1>12, CompletionKeepsListed DEF Abandon, ThinkAbandon
<1>13. CASE Thinks
  <2>1. UNCHANGED serverEngineList
    BY <1>13 DEF Thinks, ThinkBegin, ThinkScanEnds, ThinkReturns, ThinkCollect,
       ThinkResend, ThinkSkip, RetryIntervalElapses
  <2> QED
    BY <1>4, <1>5, <2>1
<1> QED
  BY <1>1, <1>3, <1>4, <1>5, <1>6, <1>7, <1>8, <1>9, <1>10, <1>11, <1>12, <1>13, RecordStep

(* While its list is coming an engine comes off the monitor's list only    *)
(* with the last of its pending queries, answered or given up: no other    *)
(* engine's end, and no answer that leaves one pending, takes it off.      *)
THEOREM RunEngineListed == RunSpec => TakenOffWhenSettled
<1> DEFINE Settled ==
             \A l \in ListEngines : (~TakenOff(l) /\ TakenOff(l)') =>
               /\ engineHasPendingQueries(l, queryList)
               /\ ~engineHasPendingQueries(l, queryList')
<1>1. RunInv /\ [RunStep]_<<vars, config>> => [Settled]_vars
  <2> SUFFICES ASSUME RunInv, [RunStep]_<<vars, config>>, NEW l \in ListEngines,
                      ~TakenOff(l), TakenOff(l)'
               PROVE  LastSettled(l)
    BY DEF LastSettled
  <2>1. ControlInv
    BY DEF RunInv
  <2>2. reader'[l] \in Coming /\ ~EngineCtxDone(l)' /\ ~Contains(serverEngineList, l)'
    BY DEF TakenOff, Coming
  <2>3. reader[l] \in Coming /\ (~Contains(serverEngineList, l) \/ LastSettled(l))
    BY <2>2, ListedStep
  <2>4. ~EngineCtxDone(l)
    BY <2>1, <2>2, ComingStep
  <2> QED
    BY <2>3, <2>4 DEF TakenOff, Coming
<1>2. RunSpec => [][RunStep]_<<vars, config>>
  BY PTL DEF RunSpec, RunStep
<1>3. TakenOffWhenSettled <=> [][Settled]_vars
  BY DEF TakenOffWhenSettled
<1> HIDE DEF Settled
<1> QED
  BY <1>1, <1>2, <1>3, RunInvariant, PTL

-----------------------------------------------------------------------------
IPv4Only == \A a \in Addresses : ~a.in6

IsUT2K(q) == \E c \in Configurations : c.queryKind[q] = "ut2k"

NoPortBelow ==
  \A a, b \in Addresses : a.ip = b.ip => b.port # (a.port + 65535) % 65536

(* The key under which a query is recorded. *)
Key(c) == <<c.engine, c.address>>

LEMMA StoredAddresses ==
  ASSUME RunInv, IPv4Only
  PROVE  /\ \A i \in 1..Len(queryList) :
              queryList[i].address \in Addresses /\ AsIPv4(queryList[i].address) = queryList[i].address
         /\ \A n \in 1..Len(toComplete) :
              toComplete[n].address \in Addresses /\ AsIPv4(toComplete[n].address) = toComplete[n].address
<1>1. \A a \in Addresses : AsIPv4(a) = a
  BY MonitorAssumption, PlainIsIPv4 DEF IPv4Only
<1> QED
  BY <1>1 DEF RunInv, DataInv, ItemsSent, CollectedSent, HistoryInv

(* The query an answer completes is the one its server answered, and not   *)
(* one of a UT2K engine.                                                   *)
LEMMA AnswerMatches ==
  ASSUME RunInv, IPv4Only, NEW q \in QueryEngines, listener[q].pc = "complete",
         IsUT2K(q) => NoPortBelow,
         NEW i \in 1..Len(queryList),
         Matches(queryList[i], q, AnswerAddress(CompletedAddress(q, listener[q].addr)))
  PROVE  Key(queryList[i]) = <<q, listener[q].addr>> /\ QueryKind[q] # "ut2k"
<1> DEFINE a == listener[q].addr
           b == queryList[i].address
<1>1. a \in Addresses
  BY DEF RunInv, DataInv, ListenerInv, NoDatagram, Datagram
<1>2. a \in AddrPort /\ ~a.in6 /\ b \in Addresses
  BY <1>1, MonitorAssumption, StoredAddresses DEF IPv4Only
<1>3. queryList[i].engine = q /\ b = AsIPv4(AnswerAddress(CompletedAddress(q, a)))
  BY DEF Matches
<1>4. CASE QueryKind[q] = "ut2k"
  <2>1. NoPortBelow
    BY <1>4 DEF RunInv, ControlInv, QueryKind, IsUT2K
  <2>2. CompletedAddress(q, a) = [a EXCEPT !.port = (@ + 65535) % 65536]
    BY <1>4 DEF CompletedAddress
  <2> DEFINE p == (a.port + 65535) % 65536
             c == [a EXCEPT !.port = p]
  <2>3. CompletedAddress(q, a) = c
    BY <2>2
  <2> HIDE DEF p
  <2>4. c \in [ip : Ips, port : {p}, in6 : BOOLEAN] /\ c.ip = a.ip /\ c.port = p
    BY <1>2, Zenon DEF AddrPort
  <2> HIDE DEF c
  <2>5. AsIPv4(AnswerAddress(c)).ip = c.ip /\ AsIPv4(AnswerAddress(c)).port = c.port
    BY <2>4, Zenon DEF AnswerAddress, AsIPv4
  <2>6. b.ip = a.ip /\ b.port = (a.port + 65535) % 65536
    BY <1>3, <2>3, <2>4, <2>5 DEF p
  <2> QED
    BY <1>1, <1>2, <2>1, <2>6 DEF NoPortBelow
<1>5. CASE QueryKind[q] # "ut2k"
  <2>1. CompletedAddress(q, a) = a
    BY <1>5 DEF CompletedAddress
  <2>2. AsIPv4(AnswerAddress(a)) = AsIPv4(a)
    BY <1>2, Zenon DEF AddrPort, AnswerAddress, AsIPv4
  <2>3. AsIPv4(a) = a
    BY <1>2, PlainIsIPv4
  <2> QED
    BY <1>3, <1>5, <2>1, <2>2, <2>3 DEF Key
<1> QED
  BY <1>4, <1>5

-----------------------------------------------------------------------------
(***************************************************************************)
(* No query is lost, and Think collected only what is settled or what it   *)
(* may give up: a query it collected stays exhausted while it is pending,  *)
(* and only an answer can take it off the list before Think does.          *)
(***************************************************************************)
Accounted ==
  \A k \in sent :
    \/ \E i \in 1..Len(queryList) : Key(queryList[i]) = k
    \/ k \in answered \cup abandoned

GivenUp ==
  \A n \in 1..Len(toComplete) :
    \/ Key(toComplete[n]) \in answered
    \/ \E i \in 1..Len(queryList) :
         Key(queryList[i]) = Key(toComplete[n]) /\ Exhausted(queryList[i])

SettledInv == RunInv /\ CollectInv /\ Accounted /\ GivenUp

(* If every query of the list is still there, and exhausted if it was, and *)
(* Think collected nothing, nothing is lost.                               *)
LEMMA NothingSettled ==
  ASSUME Accounted, GivenUp,
         \A i \in 1..Len(queryList) : \E j \in 1..Len(queryList') :
           /\ Key(queryList'[j]) = Key(queryList[i])
           /\ Exhausted(queryList[i]) => Exhausted(queryList'[j]),
         UNCHANGED <<sent, toComplete>>,
         answered \subseteq answered', abandoned \subseteq abandoned'
  PROVE  Accounted' /\ GivenUp'
<1>1. Accounted'
  BY DEF Accounted
<1>2. GivenUp'
  <2>1. ASSUME NEW n \in 1..Len(toComplete)
        PROVE  \/ Key(toComplete[n]) \in answered'
               \/ \E j \in 1..Len(queryList') :
                    Key(queryList'[j]) = Key(toComplete[n]) /\ Exhausted(queryList'[j])
    <3>1. CASE Key(toComplete[n]) \in answered
      BY <3>1
    <3>2. CASE \E i \in 1..Len(queryList) :
                 Key(queryList[i]) = Key(toComplete[n]) /\ Exhausted(queryList[i])
      <4>1. PICK i \in 1..Len(queryList) :
              Key(queryList[i]) = Key(toComplete[n]) /\ Exhausted(queryList[i])
        BY <3>2
      <4>2. PICK j \in 1..Len(queryList') :
              Key(queryList'[j]) = Key(queryList[i]) /\ Exhausted(queryList'[j])
        BY <4>1
      <4> QED
        BY <4>1, <4>2
    <3> QED
      BY <3>1, <3>2 DEF GivenUp
  <2> QED
    BY <2>1 DEF GivenUp
<1> QED
  BY <1>1, <1>2

(* What CompleteQuery leaves of the list, if all it may remove is in K. *)
LEMMA CompletionKeepsOthers ==
  ASSUME TypeOK, NEW q, NEW a, CompleteQuery(q, a), NEW K,
         \A i \in 1..Len(queryList) : Matches(queryList[i], q, a) => Key(queryList[i]) \in K
  PROVE  \A i \in 1..Len(queryList) : Key(queryList[i]) \notin K =>
           \E j \in 1..Len(queryList') : queryList'[j] = queryList[i]
<1>1. CASE UNCHANGED queryList
  BY <1>1
<1>2. ASSUME NEW m \in 1..Len(queryList), Matches(queryList[m], q, a), RemoveQuery(m),
             NEW i \in 1..Len(queryList), Key(queryList[i]) \notin K
      PROVE  \E j \in 1..Len(queryList') : queryList'[j] = queryList[i]
  BY <1>2, RemovedItems DEF RemoveQuery, Removed
<1> QED
  BY <1>1, <1>2, CompleteQueryStep

(* Think takes nothing off the list but the query it gives up. *)
LEMMA AbandonKeepsOthers ==
  ASSUME RunInv, IPv4Only, Abandon
  PROVE  \A i \in 1..Len(queryList) : Key(queryList[i]) # Key(Head(toComplete)) =>
           \E j \in 1..Len(queryList') : queryList'[j] = queryList[i]
<1> DEFINE e == Head(toComplete)
           K == {Key(e)}
           q == e.engine
           a == e.address
<1>1. CompleteQuery(q, a) /\ toComplete # <<>> /\ TypeOK
  BY DEF Abandon, ThinkAbandon, RunInv, DataInv
<1>2. e = toComplete[1] /\ 1 \in 1..Len(toComplete)
  BY <1>1, HeadTailProperties, LenProperties DEF TypeOK
<1> HIDE DEF e
<1>3. AsIPv4(a) = a
  BY <1>2, StoredAddresses
<1>4. \A i \in 1..Len(queryList) : Matches(queryList[i], q, a) => Key(queryList[i]) \in K
  BY <1>3 DEF Matches, Key
<1> HIDE DEF K, q, a
<1>5. \A i \in 1..Len(queryList) : Key(queryList[i]) \notin K =>
        \E j \in 1..Len(queryList') : queryList'[j] = queryList[i]
  BY <1>1, <1>4, CompletionKeepsOthers
<1> QED
  BY <1>5 DEF K, e

LEMMA NextSettled ==
  ASSUME IPv4Only, \A q \in QueryEngines : IsUT2K(q) => NoPortBelow,
         SettledInv, [RunStep]_<<vars, config>>
  PROVE  Accounted' /\ GivenUp'
<1>1. RunInv /\ ControlInv /\ TypeOK /\ CollectInv /\ Accounted /\ GivenUp
  BY DEF SettledInv, RunInv, DataInv
<1>2. /\ queryList \in Seq(QueryItem) /\ Len(queryList) \in Nat
      /\ toComplete \in Seq(Abandoned) /\ Len(toComplete) \in Nat
  BY <1>1, LenProperties DEF TypeOK, Abandoned
<1>3. CASE /\ UNCHANGED <<queryList, toComplete, sent>>
           /\ answered \subseteq answered' /\ abandoned \subseteq abandoned'
  BY <1>1, <1>3, NothingSettled
<1>4. ASSUME NEW l \in ListEngines, NEW a \in Addresses, Asks(l, a)
      PROVE  Accounted' /\ GivenUp'
  <2> DEFINE q == QueryEngineOf[l]
  <2>1. CASE BeginQueryDuplicate(q, a) /\ UNCHANGED sent
    BY <1>3, <1>4, <2>1 DEF Asks, BeginQueryDuplicate, monitorVars
  <2>2. CASE BeginQuery(l, q, a) /\ sent' = sent \cup {<<q, a>>}
    <3>1. /\ UNCHANGED <<toComplete, answered, abandoned>>
          /\ queryList' = <<NewItem(l, q, a)>> \o queryList
          /\ q \in QueryEngines
      BY <1>1, <1>4, <2>2, ConfigurationFacts DEF Asks, BeginQuery, ControlInv
    <3>2. /\ 1 \in 1..Len(queryList') /\ Key(queryList'[1]) = <<q, a>>
          /\ \A i \in 1..Len(queryList) :
               i + 1 \in 1..Len(queryList') /\ queryList'[i + 1] = queryList[i]
      BY <1>1, <3>1, PushedItems DEF NewItem, Key
    <3>3. Accounted'
      BY <1>1, <2>2, <3>1, <3>2 DEF Accounted
    <3>4. \A i \in 1..Len(queryList) : \E j \in 1..Len(queryList') :
            queryList'[j] = queryList[i]
      BY <3>2
    <3>5. ASSUME NEW n \in 1..Len(toComplete), Key(toComplete[n]) \notin answered
          PROVE  \E j \in 1..Len(queryList') :
                   Key(queryList'[j]) = Key(toComplete[n]) /\ Exhausted(queryList'[j])
      BY <1>1, <3>4, <3>5 DEF GivenUp
    <3>6. GivenUp'
      BY <3>1, <3>5 DEF GivenUp, Key, Exhausted
    <3> QED
      BY <3>3, <3>6
  <2> QED
    BY <1>4, <2>1, <2>2 DEF Asks, QueryServer
<1>5. ASSUME NEW q \in QueryEngines, CompleteAnswer(q)
      PROVE  Accounted' /\ GivenUp'
  <2> DEFINE k == <<q, listener[q].addr>>
             a == AnswerAddress(CompletedAddress(q, listener[q].addr))
  <2>1. /\ CompleteQuery(q, a)
        /\ UNCHANGED <<toComplete, sent, abandoned>>
        /\ answered' = answered \cup ({k} \cap sent)
        /\ listener[q].pc = "complete"
    BY <1>5 DEF CompleteAnswer
  <2>2. answered \subseteq answered' /\ (k \in sent => k \in answered')
    BY <2>1
  <2>3. \A i \in 1..Len(queryList) : Matches(queryList[i], q, a) => Key(queryList[i]) \in {k}
    BY <1>1, <2>1, AnswerMatches
  <2> HIDE DEF k, a
  <2>4. \A i \in 1..Len(queryList) : Key(queryList[i]) \notin {k} =>
          \E j \in 1..Len(queryList') : queryList'[j] = queryList[i]
    BY <1>1, <2>1, <2>3, CompletionKeepsOthers
  <2>5. Accounted'
    BY <1>1, <2>1, <2>2, <2>4 DEF Accounted
  <2>6. GivenUp'
    <3>1. SUFFICES ASSUME NEW n \in 1..Len(toComplete), Key(toComplete[n]) \notin answered'
                   PROVE  \E j \in 1..Len(queryList') :
                            Key(queryList'[j]) = Key(toComplete[n]) /\ Exhausted(queryList'[j])
      BY <2>1 DEF GivenUp, Key
    <3>2. PICK i \in 1..Len(queryList) :
            Key(queryList[i]) = Key(toComplete[n]) /\ Exhausted(queryList[i])
      BY <1>1, <2>2, <3>1 DEF GivenUp
    <3>3. Key(queryList[i]) \in sent
      BY <1>1 DEF RunInv, DataInv, ItemsSent, Key
    <3>4. Key(queryList[i]) # k
      BY <2>2, <3>1, <3>2, <3>3
    <3> QED
      BY <2>4, <3>2, <3>4
  <2> QED
    BY <2>5, <2>6
<1>6. CASE Abandon
  <2> DEFINE e == Head(toComplete)
  <2>1. /\ toComplete # <<>> /\ toComplete' = Tail(toComplete)
        /\ CompleteQuery(e.engine, e.address)
        /\ abandoned' = abandoned \cup {Key(e)}
        /\ UNCHANGED <<sent, answered>>
    BY <1>6 DEF Abandon, ThinkAbandon, TickerSteps, Key
  <2>2. /\ e = toComplete[1] /\ 1 \in 1..Len(toComplete)
        /\ \A n \in 1..Len(toComplete') :
             /\ n + 1 \in 1..Len(toComplete) /\ n + 1 # 1
             /\ toComplete'[n] = toComplete[n + 1]
    BY <1>2, <2>1, HeadTailProperties
  <2>3. \A i \in 1..Len(queryList) : Key(queryList[i]) # Key(e) =>
          \E j \in 1..Len(queryList') : queryList'[j] = queryList[i]
    BY <1>1, <1>6, AbandonKeepsOthers
  <2> HIDE DEF e
  <2>4. Accounted'
    BY <1>1, <2>1, <2>3 DEF Accounted
  <2>5. GivenUp'
    <3>1. SUFFICES ASSUME NEW n \in 1..Len(toComplete'), Key(toComplete'[n]) \notin answered
                   PROVE  \E j \in 1..Len(queryList') :
                            Key(queryList'[j]) = Key(toComplete'[n]) /\ Exhausted(queryList'[j])
      BY <2>1 DEF GivenUp, Key
    <3>2. /\ n + 1 \in 1..Len(toComplete) /\ n + 1 # 1
          /\ toComplete'[n] = toComplete[n + 1]
      BY <2>2
    <3>3. PICK i \in 1..Len(queryList) :
            Key(queryList[i]) = Key(toComplete'[n]) /\ Exhausted(queryList[i])
      BY <1>1, <3>1, <3>2 DEF GivenUp
    <3>4. Key(toComplete'[n]) # Key(e)
      <4>1. toComplete[n + 1] # e
        BY <1>1, <2>2, <3>2 DEF CollectInv, CollectedOnce
      <4>2. toComplete[n + 1] \in Abandoned /\ e \in Abandoned
        BY <1>2, <2>2, <3>2, ElementOfSeq
      <4> QED
        BY <3>2, <4>1, <4>2 DEF Abandoned, Key
    <3> QED
      BY <2>3, <3>3, <3>4
  <2> QED
    BY <2>4, <2>5
<1>7. CASE Thinks
  <2>1. UNCHANGED <<sent, answered, abandoned>>
    BY <1>7 DEF Thinks, recordVars
  <2>2. ASSUME NEW i \in 1..Len(queryList), ThinkCollect(i)
        PROVE  Accounted' /\ GivenUp'
    <3> DEFINE e == [engine |-> queryList[i].engine, address |-> queryList[i].address]
    <3>1. UNCHANGED queryList /\ toComplete' = Append(toComplete, e) /\ Exhausted(queryList[i])
      BY <2>2 DEF ThinkCollect
    <3>2. Key(e) = Key(queryList[i])
      BY DEF Key
    <3>3. queryList[i] \in QueryItem
      BY <1>2, ElementOfSeq
    <3>4. e \in Abandoned
      BY <3>3 DEF Abandoned, QueryItem
    <3> HIDE DEF e
    <3>5. \A n \in 1..Len(toComplete') :
            \/ toComplete'[n] = e
            \/ n \in 1..Len(toComplete) /\ toComplete'[n] = toComplete[n]
      BY <1>2, <3>1, <3>4, AppendProperties
    <3>6. Accounted'
      BY <1>1, <2>1, <3>1 DEF Accounted
    <3>7. ASSUME NEW n \in 1..Len(toComplete'), Key(toComplete'[n]) \notin answered
          PROVE  \E j \in 1..Len(queryList) :
                   Key(queryList[j]) = Key(toComplete'[n]) /\ Exhausted(queryList[j])
      <4>1. CASE toComplete'[n] = e
        BY <3>1, <3>2, <4>1
      <4>2. CASE n \in 1..Len(toComplete) /\ toComplete'[n] = toComplete[n]
        BY <1>1, <3>7, <4>2 DEF GivenUp
      <4> QED
        BY <3>5, <4>1, <4>2
    <3>8. GivenUp'
      BY <2>1, <3>1, <3>7 DEF GivenUp, Key, Exhausted
    <3> QED
      BY <3>6, <3>8
  <2>3. ASSUME NEW i \in 1..Len(queryList), ThinkResend(i) \/ RetryIntervalElapses(i)
        PROVE  Accounted' /\ GivenUp'
    <3>1. (Resent(i) \/ Aged(i)) /\ UNCHANGED toComplete
      BY <2>3 DEF ThinkResend, RetryIntervalElapses, Resent, Aged
    <3>2. /\ Len(queryList') = Len(queryList)
          /\ \A j \in 1..Len(queryList) :
               /\ Key(queryList'[j]) = Key(queryList[j])
               /\ j # i \/ Aged(i) => queryList'[j].numAttempts = queryList[j].numAttempts
      BY <1>1, <3>1, UpdatedItems DEF SameQuery, Key
    <3>3. \A j \in 1..Len(queryList) : Exhausted(queryList[j]) => Exhausted(queryList'[j])
      BY <3>1, <3>2 DEF Resent, Exhausted
    <3> QED
      BY <1>1, <2>1, <3>1, <3>2, <3>3, NothingSettled
  <2>4. CASE UNCHANGED <<queryList, toComplete>>
    BY <1>3, <2>1, <2>4
  <2> QED
    BY <1>7, <2>2, <2>3, <2>4 DEF Thinks, ThinkBegin, ThinkScanEnds, ThinkReturns, ThinkSkip
<1>8. CASE UNCHANGED <<monitorVars, recordVars>>
  BY <1>3, <1>8 DEF monitorVars, recordVars
<1>9. ASSUME NEW l \in ListEngines, BeginInvoke(l) \/ Ends(l)
      PROVE  Accounted' /\ GivenUp'
  BY <1>3, <1>9 DEF BeginInvoke, BeginServerListEngine, Ends, EndServerListEngine,
     historyVars, recordVars
<1>10. ASSUME NEW q \in QueryEngines, NEW a \in Addresses, ReadFrom(q, a)
       PROVE  Accounted' /\ GivenUp'
  BY <1>3, <1>10 DEF ReadFrom, monitorVars, historyVars
<1>11. ASSUME NEW q \in QueryEngines, OnServerInfoResponse(q)
       PROVE  Accounted' /\ GivenUp'
  BY <1>3, <1>11 DEF OnServerInfoResponse, monitorVars, historyVars
<1> QED
  BY <1>1, <1>4, <1>5, <1>6, <1>7, <1>8, <1>9, <1>10, <1>11, RecordStep
LEMMA SettledInvariant ==
  ASSUME IPv4Only, \A q \in QueryEngines : IsUT2K(q) => NoPortBelow
  PROVE  RunSpec => []SettledInv
<1>1. RunInit => SettledInv
  <2> SUFFICES ASSUME RunInit PROVE SettledInv
    OBVIOUS
  <2>1. queryList = <<>> /\ toComplete = <<>> /\ thinkPc = "idle" /\ TypeOK /\ sent = {}
    BY InitTypeOK DEF RunInit, Init
  <2>2. CollectInv
    BY <2>1 DEF CollectInv, UniqueInv, PlainPending, UniquePending, CollectedBehind,
                CollectedOnce
  <2>3. Accounted /\ GivenUp
    BY <2>1 DEF Accounted, GivenUp
  <2> QED
    BY <2>2, <2>3, InitRunInv DEF SettledInv
<1>2. SettledInv /\ [RunStep]_<<vars, config>> => SettledInv'
  <2> SUFFICES ASSUME SettledInv, [RunStep]_<<vars, config>> PROVE SettledInv'
    OBVIOUS
  <2>1. RunInv' /\ [Next]_monitorVars
    BY NextRunInv, RunStepIsMonitorStep DEF SettledInv
  <2>2. CollectInv'
    BY <2>1, NextCollectInv DEF SettledInv, IPv4Only
  <2> QED
    BY <2>1, <2>2, NextSettled DEF SettledInv
<1>3. RunSpec <=> RunInit /\ [][RunStep]_<<vars, config>>
  BY DEF RunSpec, RunStep
<1> QED
  BY <1>1, <1>2, <1>3, PTL

-----------------------------------------------------------------------------
(* What follows for the run. *)

(* No server is lost: whatever the readers, the listeners and Think do at  *)
(* the same time, one that was asked is pending until its answer was       *)
(* passed on or Think gave it up.                                          *)
THEOREM RunAccounts ==
  ASSUME IPv4Only, \A q \in QueryEngines : IsUT2K(q) => NoPortBelow
  PROVE  RunSpec => []EveryQueryAccountedFor
<1>1. SettledInv => EveryQueryAccountedFor
  <2> SUFFICES ASSUME Accounted, NEW k \in sent, k \notin answered \cup abandoned
               PROVE  QueryOf(k[1], k[2]) \in PendingQueries
    BY DEF SettledInv, EveryQueryAccountedFor
  <2>1. PICK i \in 1..Len(queryList) : Key(queryList[i]) = k
    BY DEF Accounted
  <2>2. k[1] = queryList[i].engine /\ k[2] = queryList[i].address
    BY <2>1 DEF Key
  <2> QED
    BY <2>2 DEF PendingQueries
<1> QED
  BY <1>1, SettledInvariant, PTL

(* The ticker cancels the context of a run only when it finds no pending   *)
(* query.                                                                  *)
LEMMA CanceledWhenIdle ==
  ASSUME [RunStep]_<<vars, config>>, ctxErr = "none", ctxErr' = "canceled"
  PROVE  queryList = <<>>
<1>1. ctxErr' # ctxErr /\ RunNext
  BY DEF RunStep, vars, mainVars
<1> USE DEF mainVars
<1>2. ASSUME NEW l \in ListEngines, ReaderNext(l) \/ Watch(l) \/ Invoke(l) \/ InvokeRefresh(l)
      PROVE  ctxErr' = ctxErr
  BY <1>2 DEF ReaderNext, Connect, DialFails, RequestFails, FileFails, ReadEntry,
     HandleEntry, SkipEntry, EntryPanics, ListEnds, UnhandledStringIndex, Sbv2ReadFails,
     UtmsReadFails, UtmsWriteFails, GoaReadFails, GoaCompressedReadFails, ReaderEnds,
     HandleTail, RefreshEnds, Watch, Invoke, InvokeRefresh, BeginInvoke
<1>3. ASSUME NEW q \in QueryEngines, ListenerNext(q)
      PROVE  ctxErr' = ctxErr
  BY <1>3 DEF ListenerNext, ReadFrom, OnServerInfoResponse, GetServerKeyFails,
     CompleteAnswer, CompleteWithoutMonitor
<1>4. CASE \/ InvokeMsEnginesReturns \/ MainReturns \/ TimePasses \/ Terminated
           \/ Tick \/ ThinkScan \/ Abandon \/ ThinkDone \/ CheckEngines
  BY <1>1, <1>4 DEF InvokeMsEnginesReturns, MainReturns, TimePasses, Terminated, vars,
     Tick, ThinkScan, Abandon, ThinkDone, CheckEngines
<1>5. CASE DeadlineExceeded \/ CheckQueries
  BY <1>1, <1>5 DEF DeadlineExceeded, CheckQueries
<1> QED
  BY <1>1, <1>2, <1>3, <1>4, <1>5 DEF RunNext, MainNext, TickerNext

(* A run that ends by itself leaves no server it asked without a result.   *)
THEOREM RunCompletesSettled ==
  ASSUME IPv4Only, \A q \in QueryEngines : IsUT2K(q) => NoPortBelow
  PROVE  RunSpec => CompleteMeansSettled
<1>1. SettledInv /\ [RunStep]_<<vars, config>> =>
        [(ctxErr = "none" /\ ctxErr' = "canceled") => sent \subseteq answered \cup abandoned]_vars
  BY CanceledWhenIdle DEF SettledInv, Accounted
<1>2. RunSpec => [][RunStep]_<<vars, config>>
  BY PTL DEF RunSpec, RunStep
<1> QED
  BY <1>1, <1>2, SettledInvariant, PTL DEF CompleteMeansSettled

(* What Think abandons, though another goroutine may have changed the list *)
(* since it collected it, was used up or answered.                         *)
THEOREM RunAbandonsJustly ==
  ASSUME IPv4Only, \A q \in QueryEngines : IsUT2K(q) => NoPortBelow
  PROVE  RunSpec => AbandonJustified
<1> DEFINE Justified ==
             \A i \in 1..Len(queryList) :
               \/ QueryOf(queryList[i].engine, queryList[i].address) \in PendingQueries'
               \/ Exhausted(queryList[i])
               \/ Key(queryList[i]) \in answered
<1>1. SettledInv /\ Abandon => Justified
  <2> SUFFICES ASSUME SettledInv, Abandon, NEW i \in 1..Len(queryList)
               PROVE  \/ QueryOf(queryList[i].engine, queryList[i].address) \in PendingQueries'
                      \/ Exhausted(queryList[i])
                      \/ Key(queryList[i]) \in answered
    OBVIOUS
  <2> DEFINE e == Head(toComplete)
  <2>1. CompleteQuery(e.engine, e.address) /\ toComplete # <<>> /\ TypeOK
    BY DEF Abandon, ThinkAbandon, SettledInv, RunInv, DataInv
  <2>2. e = toComplete[1] /\ 1 \in 1..Len(toComplete)
    BY <2>1, HeadTailProperties, LenProperties DEF TypeOK
  <2>3. Key(queryList[i]) # Key(e) =>
          \E j \in 1..Len(queryList') : queryList'[j] = queryList[i]
    BY AbandonKeepsOthers DEF SettledInv
  <2> HIDE DEF e
  <2>4. CASE Key(queryList[i]) = Key(e)
    <3>1. \/ Key(e) \in answered
          \/ \E m \in 1..Len(queryList) : Key(queryList[m]) = Key(e) /\ Exhausted(queryList[m])
      BY <2>2 DEF SettledInv, GivenUp
    <3>2. ASSUME NEW m \in 1..Len(queryList), Key(queryList[m]) = Key(e)
          PROVE  m = i
      <4>1. SameServer(queryList[m], queryList[i])
        BY <2>4, <3>2 DEF Key, SameServer
      <4> QED
        BY <4>1 DEF SettledInv, CollectInv, UniqueInv, UniquePending
    <3> QED
      BY <2>4, <3>1, <3>2
  <2>5. CASE Key(queryList[i]) # Key(e)
    BY <2>3, <2>5 DEF PendingQueries
  <2> QED
    BY <2>4, <2>5
<1>2. SettledInv => [Abandon => Justified]_vars
  BY <1>1
<1>3. AbandonJustified <=> [][Abandon => Justified]_vars
  BY DEF AbandonJustified, Key
<1> HIDE DEF Justified
<1> QED
  BY <1>2, <1>3, SettledInvariant, PTL

(* An answer settles the query it answers: no other stays pending in its   *)
(* place, except with a UT2K engine, which the other theorems admit.       *)
THEOREM RunAnswersSettle ==
  ASSUME IPv4Only, \A q \in QueryEngines : ~IsUT2K(q)
  PROVE  RunSpec => AnswerSettlesItsQuery
<1> DEFINE Settles ==
             \A q \in QueryEngines :
               (listener[q].pc = "complete" /\ listener'[q] = NoDatagram) =>
                 QueryOf(q, listener[q].addr) \notin PendingQueries'
<1>1. SettledInv /\ SettledInv' /\ [RunStep]_<<vars, config>> => Settles
  <2> SUFFICES ASSUME SettledInv, SettledInv', [RunStep]_<<vars, config>>,
                      NEW q \in QueryEngines, listener[q].pc = "complete",
                      listener'[q] = NoDatagram
               PROVE  QueryOf(q, listener[q].addr) \notin PendingQueries'
    OBVIOUS
  <2>1. RunInv /\ RunInv' /\ ControlInv /\ TypeOK /\ UniquePending
    BY DEF SettledInv, RunInv, DataInv, CollectInv, UniqueInv
  <2>2. CompleteAnswer(q)
    <3>0. listener'[q] # listener[q] /\ listener \in [QueryEngines -> {NoDatagram} \cup Datagram]
      BY <2>1 DEF NoDatagram, RunInv, DataInv, ListenerInv
    <3>1. ASSUME UNCHANGED listener PROVE FALSE
      BY <3>0, <3>1
    <3>2. ASSUME NEW p \in QueryEngines, NEW a \in Addresses, ReadFrom(p, a)
          PROVE  FALSE
      BY <3>0, <3>2 DEF ReadFrom, NoDatagram
    <3>3. ASSUME NEW p \in QueryEngines, OnServerInfoResponse(p)
          PROVE  FALSE
      BY <3>0, <3>3 DEF OnServerInfoResponse
    <3>4. ASSUME NEW p \in QueryEngines, CompleteAnswer(p)
          PROVE  p = q
      BY <3>0, <3>4 DEF CompleteAnswer
    <3> QED
      BY <2>1, <3>1, <3>2, <3>3, <3>4, RecordStep
         DEF recordVars, BeginInvoke, queryVars, Ends, Asks, Abandon, TickerSteps, Thinks
  <2> DEFINE a == listener[q].addr
             k == <<q, a>>
             b == AnswerAddress(CompletedAddress(q, a))
  <2>3. CompleteQuery(q, b)
    BY <2>2 DEF CompleteAnswer
  <2>4. \A i \in 1..Len(queryList) : Matches(queryList[i], q, b) => Key(queryList[i]) = k
    BY <2>1, AnswerMatches
  <2>5. AsIPv4(b) = a /\ AsIPv4(a) = a
    <3>1. a \in Addresses
      BY <2>1 DEF RunInv, DataInv, ListenerInv, NoDatagram, Datagram
    <3>2. a \in AddrPort /\ ~a.in6
      BY <3>1, MonitorAssumption DEF IPv4Only
    <3>3. CompletedAddress(q, a) = a
      BY <2>1 DEF CompletedAddress, IsUT2K, QueryKind, ControlInv
    <3>4. AsIPv4(AnswerAddress(a)) = AsIPv4(a)
      BY <3>2, Zenon DEF AddrPort, AnswerAddress, AsIPv4
    <3> QED
      BY <3>2, <3>3, <3>4, PlainIsIPv4
  <2> HIDE DEF a, b
  <2>6. \A j \in 1..Len(queryList') : Key(queryList'[j]) # k
    <3>1. SUFFICES ASSUME NEW j \in 1..Len(queryList'), Key(queryList'[j]) = k
                   PROVE  FALSE
      OBVIOUS
    <3>2. CASE /\ \A i \in 1..Len(queryList) : ~Matches(queryList[i], q, b)
               /\ UNCHANGED queryList
      BY <2>5, <3>1, <3>2 DEF Key, Matches
    <3>3. ASSUME NEW i \in 1..Len(queryList), Matches(queryList[i], q, b), RemoveQuery(i)
          PROVE  FALSE
      <4>1. PICK m \in 1..Len(queryList) : m # i /\ queryList'[j] = queryList[m]
        BY <2>1, <3>3, RemovedItems DEF RemoveQuery, Removed
      <4>2. Key(queryList[m]) = Key(queryList[i])
        BY <2>4, <3>1, <3>3, <4>1
      <4>3. SameServer(queryList[m], queryList[i])
        BY <4>2 DEF Key, SameServer
      <4> QED
        BY <2>1, <4>1, <4>3 DEF UniquePending
    <3> QED
      BY <2>1, <2>3, <3>2, <3>3, CompleteQueryStep
  <2>7. \A j \in 1..Len(queryList') : AsIPv4(queryList'[j].address) = queryList'[j].address
    <3>1. \A j \in 1..Len(queryList') : queryList'[j].address \in Addresses
      BY <2>1 DEF RunInv, DataInv, ItemsSent, HistoryInv
    <3> QED
      BY <3>1, MonitorAssumption, PlainIsIPv4 DEF IPv4Only
  <2> QED
    BY <2>5, <2>6, <2>7 DEF QueryOf, PendingQueries, Key, a
<1>2. RunSpec => [][RunStep]_<<vars, config>>
  BY PTL DEF RunSpec, RunStep
<1>3. RunSpec => []SettledInv
  BY SettledInvariant
<1>4. AnswerSettlesItsQuery <=> [][Settles]_vars
  BY DEF AnswerSettlesItsQuery
<1> HIDE DEF Settles
<1> QED
  BY <1>1, <1>2, <1>3, <1>4, PTL
=============================================================================
