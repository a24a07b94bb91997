------------------------------- MODULE SyncRun -------------------------------
(***************************************************************************)
(* One synchronisation run: the goroutines of main.go, of the server list  *)
(* engines and of the query engines, working on one status monitor.        *)
(*                                                                         *)
(*   main       invokes the engines in order, waits for the context, exits *)
(*   ticker     every two seconds: Think, then AllEnginesComplete          *)
(*   reader     one per list engine: fetches its list, begins the queries  *)
(*   watcher    one per list engine: waits for the engine's context        *)
(*   listener   one per query engine: handles the answers on its socket    *)
(***************************************************************************)
EXTENDS SyncStatusMonitor

CONSTANT Configurations   \* the configuration files a run may be given

TcpKinds == {"goa0", "sbv2", "ut2k"}
Kinds == TcpKinds \cup {"file", "http", "refresh"}
QueryKinds == {"goa0", "qr2", "ut2k", "samp"}

(***************************************************************************)
(* A configuration: the list engines in their order, the query engine each *)
(* has for itself, the implementation of both, the query engines with an   *)
(* output handler, and the servers each list engine would read, in order.  *)
(***************************************************************************)
EngineConfiguration ==
  [params : Seq(ListEngines),
   queryEngine : [ListEngines -> QueryEngines],
   kind : [ListEngines -> Kinds],
   queryKind : [QueryEngines -> QueryKinds],
   outputHandlers : SUBSET QueryEngines,
   listing : [ListEngines -> Seq(Addresses)]]

EnginesOfTheirOwn(c) ==
  /\ \A i, j \in 1..Len(c.params) : c.params[i] = c.params[j] => i = j
  /\ \A l, m \in ListEngines : c.queryEngine[l] = c.queryEngine[m] => l = m

(***************************************************************************)
(* Refresh mode replaces every list engine by the Redis input handler, and *)
(* type-asserts that every entry has the Redis output handler.             *)
(***************************************************************************)
applyRefreshModeInputEngine(c) ==
  LET Refreshed(i) == c.kind[c.params[i]] = "refresh" IN
  (\E i \in 1..Len(c.params) : Refreshed(i)) =>
     \A i \in 1..Len(c.params) :
       Refreshed(i) /\ c.queryEngine[c.params[i]] \in c.outputHandlers

ASSUME RunAssumption ==
  \A c \in Configurations :
    /\ c \in EngineConfiguration
    /\ EnginesOfTheirOwn(c)
    /\ applyRefreshModeInputEngine(c)

VARIABLES
  config,      \* the configuration of this run; it does not change
  mainPc,      \* where main stands; "exited" and "fatal" are final
  invoked,     \* how many engines of params main has invoked
  ctxErr,      \* ctx.Err() of main's context
  cancelled,   \* the list engines whose own context is cancelled
  reader,      \* where the reader of each list engine stands
  nextEntry,   \* the entry of its list each reader takes next
  connClosed,  \* the list engines whose Shutdown closed the connection
  watcher,     \* where the watcher of each list engine stands
  hasMonitor,  \* the query engines SetMonitor was called on
  listener,    \* what the listener of each query engine is at
  tickerPc,    \* where the ticker goroutine stands
  sent,        \* history: the queries sent
  answered,    \* history: those of them that CompleteQuery was called for,
               \* once the answer of their server was passed on
  abandoned    \* history: the queries Think logged as abandoned

mainVars == <<mainPc, invoked, ctxErr>>
readerVars == <<cancelled, reader, nextEntry, connClosed, watcher>>
queryVars == <<hasMonitor, listener>>
historyVars == <<sent, answered, abandoned>>
vars == <<monitorVars, mainVars, readerVars, queryVars, tickerPc, historyVars>>

params == config.params
QueryEngineOf == config.queryEngine
Kind == config.kind
QueryKind == config.queryKind
OutputHandlers == config.outputHandlers
Listing == config.listing

Configured == ToSet(params)

NoDatagram == [pc |-> "read"]

RunInit ==
  /\ Init
  /\ config \in Configurations
  /\ mainPc = "invoke"
  /\ invoked = 0
  /\ ctxErr = "none"
  /\ cancelled = {}
  /\ reader = [l \in ListEngines |-> "idle"]
  /\ nextEntry = [l \in ListEngines |-> 1]
  /\ connClosed = {}
  /\ watcher = [l \in ListEngines |-> "none"]
  /\ hasMonitor = {}
  /\ listener = [q \in QueryEngines |-> NoDatagram]
  /\ tickerPc = "wait"
  /\ sent = {}
  /\ answered = {}
  /\ abandoned = {}

Running == mainPc \in {"invoke", "wait"}
CtxDone == ctxErr # "none"
EngineCtxDone(l) == CtxDone \/ l \in cancelled
Refreshing == \E l \in ListEngines : Kind[l] = "refresh" /\ reader[l] \in {"reading", "entry"}

-----------------------------------------------------------------------------
(* main *)

(* Mutant: SetMonitor is forgotten. *)
BeginInvokeNoMonitor(l) ==
  /\ mainPc = "invoke" /\ ~Refreshing
  /\ invoked < Len(params) /\ l = params[invoked + 1] /\ invoked' = invoked + 1
  /\ BeginServerListEngine(l)
  /\ UNCHANGED <<mainPc, ctxErr, cancelled, nextEntry, connClosed, queryVars,
                 tickerPc, historyVars>>

(* Mutant: the loop over the engines invokes one of them again. *)
BeginInvokeAgain(l) ==
  /\ mainPc = "invoke" /\ ~Refreshing
  /\ \E i \in 1..Len(params) : l = params[i]
  /\ BeginServerListEngine(l)
  /\ hasMonitor' = hasMonitor \cup {QueryEngineOf[l]}
  /\ UNCHANGED <<mainPc, invoked, ctxErr, cancelled, nextEntry, connClosed,
                 listener, tickerPc, historyVars>>

(* The part of Invoke every engine has: the monitor learns of the engine   *)
(* before any goroutine of it exists.                                      *)
BeginInvoke(l) ==
  /\ mainPc = "invoke"
  /\ ~Refreshing
  /\ invoked < Len(params)
  /\ l = params[invoked + 1]
  /\ invoked' = invoked + 1
  /\ BeginServerListEngine(l)
  /\ hasMonitor' = hasMonitor \cup {QueryEngineOf[l]}
  /\ UNCHANGED <<mainPc, ctxErr, cancelled, nextEntry, connClosed, listener,
                 tickerPc, historyVars>>

Invoke(l) ==
  /\ Kind[l] # "refresh"
  /\ BeginInvoke(l)
  /\ reader' = [reader EXCEPT ![l] = "connecting"]
  /\ watcher' = [watcher EXCEPT ![l] = "waiting"]

(* The Redis input handler reads its list in main's goroutine. *)
InvokeRefresh(l) ==
  /\ Kind[l] = "refresh"
  /\ BeginInvoke(l)
  /\ reader' = [reader EXCEPT ![l] = "reading"]
  /\ UNCHANGED watcher

InvokeMsEnginesReturns ==
  /\ mainPc = "invoke"
  /\ ~Refreshing
  /\ invoked = Len(params)
  /\ mainPc' = "wait"
  /\ UNCHANGED <<monitorVars, invoked, ctxErr, readerVars, queryVars, tickerPc,
                 historyVars>>

(* Mutant: main waits for the cancellation only. *)
MainReturnsIfCanceled ==
  /\ mainPc = "wait" /\ ctxErr = "canceled"
  /\ mainPc' = "exited"
  /\ UNCHANGED <<monitorVars, invoked, ctxErr, readerVars, queryVars, tickerPc,
                 historyVars>>

(* ctx.Done, then shutdownEngines and the end of the process with all its  *)
(* goroutines.                                                             *)
MainReturns ==
  /\ mainPc = "wait"
  /\ CtxDone
  /\ mainPc' = "exited"
  /\ UNCHANGED <<monitorVars, invoked, ctxErr, readerVars, queryVars, tickerPc,
                 historyVars>>

(* The five minutes of context.WithTimeout are over. *)
DeadlineExceeded ==
  /\ Running
  /\ ~CtxDone
  /\ ctxErr' = "deadline"
  /\ UNCHANGED <<monitorVars, mainPc, invoked, readerVars, queryVars, tickerPc,
                 historyVars>>

-----------------------------------------------------------------------------
(* The reader of a list engine. *)

ReaderSteps(l, from, to) ==
  /\ Running
  /\ reader[l] = from
  /\ reader' = [reader EXCEPT ![l] = to]

Cancel(l) == cancelled' = cancelled \cup {l}

(* The connection, the HTTP answer or the file is there. *)
Connect(l) ==
  /\ ReaderSteps(l, "connecting", "reading")
  /\ UNCHANGED <<monitorVars, mainVars, cancelled, nextEntry, connClosed,
                 watcher, queryVars, tickerPc, historyVars>>

(* net.DialTimeout failed. *)
DialFails(l) ==
  /\ Kind[l] \in TcpKinds
  /\ ReaderSteps(l, "connecting", "done")
  /\ Cancel(l)
  /\ EndServerListEngine(l)
  /\ UNCHANGED <<mainVars, nextEntry, connClosed, watcher, queryVars, tickerPc,
                 historyVars>>

(* The HTTP request, which carries the context, failed. *)
RequestFails(l) ==
  /\ Kind[l] = "http"
  /\ ReaderSteps(l, "connecting", "done")
  /\ Cancel(l)
  /\ UNCHANGED <<monitorVars, mainVars, nextEntry, connClosed, watcher,
                 queryVars, tickerPc, historyVars>>

(* The text file cannot be opened or read: log.Fatal ends the process. *)
FileFails(l) ==
  /\ Kind[l] = "file"
  /\ ReaderSteps(l, "connecting", "done") \/ ReaderSteps(l, "reading", "done")
  /\ mainPc' = "fatal"
  /\ UNCHANGED <<monitorVars, invoked, ctxErr, cancelled, nextEntry, connClosed,
                 watcher, queryVars, tickerPc, historyVars>>

EntryLeft(l) == nextEntry[l] <= Len(Listing[l])

(* Mutant: the reader goes on past the end of its list. *)
ReadEntryUnbounded(l) ==
  /\ ReaderSteps(l, "reading", "entry")
  /\ nextEntry' = [nextEntry EXCEPT ![l] = @ + 1]
  /\ UNCHANGED <<monitorVars, mainVars, cancelled, connClosed, watcher,
                 queryVars, tickerPc, historyVars>>

(* The next entry arrives: over the connection until Shutdown closes it,   *)
(* from Redis until the context is done; those of a file or of an HTTP     *)
(* answer are there in any case.                                           *)
ReadEntry(l) ==
  /\ ReaderSteps(l, "reading", "entry")
  /\ EntryLeft(l)
  /\ Kind[l] \in TcpKinds => l \notin connClosed
  /\ Kind[l] = "refresh" => ~EngineCtxDone(l)
  /\ nextEntry' = [nextEntry EXCEPT ![l] = @ + 1]
  /\ UNCHANGED <<monitorVars, mainVars, cancelled, connClosed, watcher,
                 queryVars, tickerPc, historyVars>>

(* BeginQuery, and Query if it returned true. *)
QueryServer(l, a) ==
  LET q == QueryEngineOf[l] IN
  \/ BeginQuery(l, q, a) /\ sent' = sent \cup {<<q, a>>}
  \/ BeginQueryDuplicate(q, a) /\ UNCHANGED sent

HandleEntry(l) ==
  /\ ReaderSteps(l, "entry", "reading")
  /\ QueryServer(l, Listing[l][nextEntry[l] - 1])
  /\ UNCHANGED <<mainVars, cancelled, nextEntry, connClosed, watcher, queryVars,
                 tickerPc, answered, abandoned>>

(* An entry that is no address, names no host, or is no injected server.   *)
SkipEntry(l) ==
  /\ Kind[l] \in {"goa0", "http", "file", "refresh"}
  /\ ReaderSteps(l, "entry", "reading")
  /\ UNCHANGED <<monitorVars, mainVars, cancelled, nextEntry, connClosed,
                 watcher, queryVars, tickerPc, historyVars>>

(* An IPv6 address, which As4 (To4, for the file) does not take: panic.    *)
EntryPanics(l) ==
  /\ Kind[l] \in {"goa0", "http", "file", "refresh"}
  /\ ReaderSteps(l, "entry", "done") \/ ReaderSteps(l, "tail", "done")
  /\ mainPc' = "fatal"
  /\ UNCHANGED <<monitorVars, invoked, ctxErr, cancelled, nextEntry, connClosed,
                 watcher, queryVars, tickerPc, historyVars>>

(* The reader is through with its list and cancels its context. *)
ReaderEnds(l, to) ==
  /\ ReaderSteps(l, "reading", to)
  /\ Cancel(l)
  /\ UNCHANGED <<mainVars, nextEntry, connClosed, watcher, queryVars, tickerPc,
                 historyVars>>

ListEnds(l) ==
  /\ Kind[l] # "refresh"
  /\ ~EntryLeft(l)
  /\ ReaderEnds(l, "done")
  /\ UNCHANGED monitorVars

(* SBV2 ends at a key it cannot skip as if the list was over. *)
UnhandledStringIndex(l) ==
  /\ Kind[l] = "sbv2"
  /\ EntryLeft(l)
  /\ ReaderEnds(l, "done")
  /\ UNCHANGED monitorVars

(* A read failed: the other side hung up, or Shutdown closed the           *)
(* connection.                                                             *)
Sbv2ReadFails(l) ==
  /\ Kind[l] = "sbv2"
  /\ ReaderEnds(l, "done")
  /\ EndServerListEngine(l)

UtmsReadFails(l) ==
  /\ Kind[l] = "ut2k"
  /\ ReaderEnds(l, "done")
  /\ UNCHANGED monitorVars

(* sendBuffer cancels the context if its write failed; the reader goes on. *)
UtmsWriteFails(l) ==
  /\ Kind[l] = "ut2k"
  /\ nextEntry[l] = 1
  /\ ReaderEnds(l, "reading")
  /\ UNCHANGED monitorVars

(* GOA, with the list as text, still handles what it had of an entry.  At  *)
(* EOF its context is cancelled only behind that.                          *)
GoaReadFails(l) ==
  /\ Kind[l] = "goa0"
  /\ ReaderSteps(l, "reading", "tail")
  /\ Cancel(l) \/ UNCHANGED cancelled
  /\ UNCHANGED <<monitorVars, mainVars, nextEntry, connClosed, watcher,
                 queryVars, tickerPc, historyVars>>

(* The compressed list has no tail, and the engine is ended on the spot. *)
GoaCompressedReadFails(l) ==
  /\ Kind[l] = "goa0"
  /\ ReaderEnds(l, "done")
  /\ EndServerListEngine(l)

(* Cut inside the digits of its port, the entry names another port of the  *)
(* same host.                                                              *)
TailAddresses(l) ==
  {a \in Addresses : EntryLeft(l) /\ a.ip = Listing[l][nextEntry[l]].ip}

HandleTail(l) ==
  /\ ReaderSteps(l, "tail", "done")
  /\ \/ UNCHANGED <<monitorVars, sent>>
     \/ \E a \in TailAddresses(l) : QueryServer(l, a)
  /\ Cancel(l)
  /\ UNCHANGED <<mainVars, nextEntry, connClosed, watcher, queryVars, tickerPc,
                 answered, abandoned>>

(* The Redis scan is over, at its end or with an error. *)
RefreshEnds(l) ==
  /\ Kind[l] = "refresh"
  /\ ReaderSteps(l, "reading", "done")
  /\ Cancel(l)
  /\ watcher' = [watcher EXCEPT ![l] = "waiting"]
  /\ UNCHANGED <<monitorVars, mainVars, nextEntry, connClosed, queryVars,
                 tickerPc, historyVars>>

-----------------------------------------------------------------------------
(* Mutant: the watcher does not wait for the context. *)
WatchAtOnce(l) ==
  /\ Running
  /\ watcher[l] = "waiting"
  /\ watcher' = [watcher EXCEPT ![l] = "ended"]
  /\ EndServerListEngine(l)
  /\ UNCHANGED <<mainVars, cancelled, reader, nextEntry, connClosed, queryVars,
                 tickerPc, historyVars>>

(* Mutant: the watcher does not end the engine. *)
WatchWithoutEnd(l) ==
  /\ Running
  /\ watcher[l] = "waiting"
  /\ EngineCtxDone(l)
  /\ watcher' = [watcher EXCEPT ![l] = "ended"]
  /\ UNCHANGED <<monitorVars, mainVars, cancelled, reader, nextEntry, connClosed,
                 queryVars, tickerPc, historyVars>>

(* The watcher of a list engine: EndServerListEngine and Shutdown, which   *)
(* closes the connection if there is one by now.                           *)
Watch(l) ==
  /\ Running
  /\ watcher[l] = "waiting"
  /\ EngineCtxDone(l)
  /\ watcher' = [watcher EXCEPT ![l] = "ended"]
  /\ EndServerListEngine(l)
  /\ connClosed' = IF Kind[l] \in TcpKinds /\ reader[l] # "connecting"
                     THEN connClosed \cup {l}
                     ELSE connClosed
  /\ UNCHANGED <<mainVars, cancelled, reader, nextEntry, queryVars, tickerPc,
                 historyVars>>

-----------------------------------------------------------------------------
(* The listener of a query engine.  Its socket is bound, and read, since   *)
(* SetParams: before main invokes anything, and for any sender.            *)

Listening(q) == \E l \in Configured : QueryEngineOf[l] = q

(* A datagram from a, which may answer no query of this run, or one that   *)
(* was answered.  Without an output handler only QR2 goes on.              *)
ReadFrom(q, a) ==
  /\ Running
  /\ Listening(q)
  /\ listener[q].pc = "read"
  /\ q \in OutputHandlers \/ QueryKind[q] = "qr2"
  /\ listener' = [listener EXCEPT ![q] = [pc |-> "answer", addr |-> a]]
  /\ UNCHANGED <<monitorVars, mainVars, readerVars, hasMonitor, tickerPc,
                 historyVars>>

(* OnServerInfoResponse, if there is a handler. *)
OnServerInfoResponse(q) ==
  /\ Running
  /\ listener[q].pc = "answer"
  /\ listener' = [listener EXCEPT ![q].pc = "complete"]
  /\ UNCHANGED <<monitorVars, mainVars, readerVars, hasMonitor, tickerPc,
                 historyVars>>

(* Redis gives no new server key: getServerKey ends the process. *)
GetServerKeyFails(q) ==
  /\ Running
  /\ listener[q].pc = "answer"
  /\ q \in OutputHandlers
  /\ mainPc' = "fatal"
  /\ UNCHANGED <<monitorVars, invoked, ctxErr, readerVars, queryVars, tickerPc,
                 historyVars>>

(* The UT2K engine decrements the port of the address it was given by the  *)
(* socket, in place, before it reports the answer.                         *)
CompletedAddress(q, a) ==
  IF QueryKind[q] = "ut2k" THEN [a EXCEPT !.port = (@ + 65535) % 65536] ELSE a

CompleteAnswer(q) ==
  /\ Running
  /\ listener[q].pc = "complete"
  /\ q \in hasMonitor
  /\ CompleteQuery(q, AnswerAddress(CompletedAddress(q, listener[q].addr)))
  /\ listener' = [listener EXCEPT ![q] = NoDatagram]
  /\ answered' = answered \cup ({<<q, listener[q].addr>>} \cap sent)
  /\ UNCHANGED <<toComplete, mainVars, readerVars, hasMonitor, tickerPc, sent,
                 abandoned>>

(* Before SetMonitor the lists of the engine's monitor are nil: panic. *)
CompleteWithoutMonitor(q) ==
  /\ Running
  /\ listener[q].pc = "complete"
  /\ q \notin hasMonitor
  /\ mainPc' = "fatal"
  /\ UNCHANGED <<monitorVars, invoked, ctxErr, readerVars, queryVars, tickerPc,
                 historyVars>>

-----------------------------------------------------------------------------
(* The ticker goroutine. *)

TickerSteps(from, to) ==
  /\ Running
  /\ tickerPc = from
  /\ tickerPc' = to
  /\ UNCHANGED <<mainPc, invoked, readerVars, queryVars, sent, answered>>

Tick ==
  /\ TickerSteps("wait", "think")
  /\ ThinkBegin
  /\ UNCHANGED <<ctxErr, abandoned>>

(* A query that Think sends again is in sent already. *)
ThinkScan ==
  /\ TickerSteps("think", "think")
  /\ \/ \E i \in 1..Len(queryList) : ThinkCollect(i) \/ ThinkResend(i) \/ ThinkSkip(i)
     \/ ThinkScanEnds
  /\ UNCHANGED <<ctxErr, abandoned>>

Abandon ==
  /\ TickerSteps("think", "think")
  /\ ThinkAbandon
  /\ abandoned' = abandoned \cup {<<Head(toComplete).engine, Head(toComplete).address>>}
  /\ UNCHANGED ctxErr

ThinkDone ==
  /\ TickerSteps("think", "engines")
  /\ ThinkReturns
  /\ UNCHANGED <<ctxErr, abandoned>>

(* AllEnginesComplete reads one list, then the other. *)
CheckEngines ==
  /\ TickerSteps("engines", IF serverEngineList = <<>> THEN "queries" ELSE "wait")
  /\ UNCHANGED <<monitorVars, ctxErr, abandoned>>

(* Mutant: the pending queries are not looked at. *)
CheckNoQueries ==
  /\ TickerSteps("queries", "stopped")
  /\ ctxErr' = IF CtxDone THEN ctxErr ELSE "canceled"
  /\ UNCHANGED <<monitorVars, abandoned>>

(* cancel() does nothing if the deadline came first. *)
CheckQueries ==
  /\ TickerSteps("queries", IF queryList = <<>> THEN "stopped" ELSE "wait")
  /\ ctxErr' = IF queryList = <<>> /\ ~CtxDone THEN "canceled" ELSE ctxErr
  /\ UNCHANGED <<monitorVars, abandoned>>

-----------------------------------------------------------------------------

(* RETRY_SECONDS are over for some pending query. *)
TimePasses ==
  /\ Running
  /\ \E i \in 1..Len(queryList) : RetryIntervalElapses(i)
  /\ UNCHANGED <<mainVars, readerVars, queryVars, tickerPc, historyVars>>

(* The process is gone. *)
Terminated == ~Running /\ UNCHANGED vars

MainNext ==
  \/ \E l \in ListEngines : Invoke(l) \/ InvokeRefresh(l)
  \/ InvokeMsEnginesReturns
  \/ MainReturns

ReaderNext(l) ==
  \/ Connect(l) \/ DialFails(l) \/ RequestFails(l) \/ FileFails(l)
  \/ ReadEntry(l) \/ HandleEntry(l) \/ SkipEntry(l) \/ EntryPanics(l)
  \/ ListEnds(l) \/ UnhandledStringIndex(l)
  \/ Sbv2ReadFails(l) \/ UtmsReadFails(l) \/ UtmsWriteFails(l)
  \/ GoaReadFails(l) \/ GoaCompressedReadFails(l) \/ HandleTail(l)
  \/ RefreshEnds(l)

ListenerNext(q) ==
  \/ \E a \in Addresses : ReadFrom(q, a)
  \/ OnServerInfoResponse(q)
  \/ GetServerKeyFails(q)
  \/ CompleteAnswer(q)
  \/ CompleteWithoutMonitor(q)

TickerNext ==
  Tick \/ ThinkScan \/ Abandon \/ ThinkDone \/ CheckEngines \/ CheckQueries

RunNext ==
  \/ MainNext
  \/ DeadlineExceeded
  \/ \E l \in ListEngines : ReaderNext(l) \/ Watch(l)
  \/ \E q \in QueryEngines : ListenerNext(q)
  \/ TickerNext
  \/ TimePasses
  \/ Terminated

RunSpec == RunInit /\ [][RunNext /\ UNCHANGED config]_<<vars, config>>

(***************************************************************************)
(* What the Go scheduler and the clock guarantee: the goroutines that wait *)
(* for nothing but the processor, the ticker and a context go on, and time *)
(* passes.  Nothing makes a list or an answer arrive.                      *)
(***************************************************************************)
SchedulerFairness ==
  /\ WF_vars(MainNext)
  /\ WF_vars(TickerNext)
  /\ WF_vars(TimePasses)
  /\ \A l \in ListEngines :
       /\ WF_vars(Watch(l))
       /\ WF_vars(HandleEntry(l) \/ HandleTail(l))
       /\ WF_vars(CtxDone /\ RefreshEnds(l))

FairRunSpec == RunSpec /\ SchedulerFairness

-----------------------------------------------------------------------------
(* Properties. *)

Datagram == [pc : {"answer", "complete"}, addr : Addresses]

(* Every variable of the run has its type. *)
RunTypeOK ==
  /\ TypeOK
  /\ config \in Configurations
  /\ mainPc \in {"invoke", "wait", "exited", "fatal"}
  /\ invoked \in 0..Len(params)
  /\ ctxErr \in {"none", "canceled", "deadline"}
  /\ cancelled \subseteq ListEngines
  /\ reader \in [ListEngines ->
                   {"idle", "connecting", "reading", "entry", "tail", "done"}]
  /\ nextEntry \in [ListEngines -> Nat \ {0}]
  /\ \A l \in ListEngines : nextEntry[l] <= Len(Listing[l]) + 1
  /\ connClosed \subseteq ListEngines
  /\ watcher \in [ListEngines -> {"none", "waiting", "ended"}]
  /\ hasMonitor \subseteq QueryEngines
  /\ listener \in [QueryEngines -> {NoDatagram} \cup Datagram]
  /\ tickerPc \in {"wait", "think", "engines", "queries", "stopped"}
  /\ sent \subseteq QueryEngines \X Addresses
  /\ answered \subseteq sent
  /\ abandoned \subseteq sent

QueryOf(q, a) == <<q, AsIPv4(a)>>

PendingQueries ==
  {QueryOf(queryList[i].engine, queryList[i].address) : i \in 1..Len(queryList)}

(* No server is lost: one that was asked is pending until its answer was   *)
(* passed to the output handler or Think gave it up.  An answer of one     *)
(* engine must not complete a query of another (CompleteQuery).            *)
EveryQueryAccountedFor ==
  \A k \in sent :
    QueryOf(k[1], k[2]) \in PendingQueries \/ k \in answered \cup abandoned

(* An engine comes off the monitor's list while its list is still coming,  *)
(* its context not done, only by the step that settles the last of its     *)
(* pending queries (CompleteQuery, engineHasPendingQueries): neither the   *)
(* end of another engine nor a first answer takes it off.                  *)
TakenOff(l) ==
  /\ reader[l] \in {"connecting", "reading", "entry"}
  /\ ~EngineCtxDone(l)
  /\ ~Contains(serverEngineList, l)

TakenOffWhenSettled ==
  [][\A l \in ListEngines : (~TakenOff(l) /\ TakenOff(l)') =>
       /\ engineHasPendingQueries(l, queryList)
       /\ ~engineHasPendingQueries(l, queryList')]_vars

(* A datagram that comes before Invoke ends the process.  An answer to a   *)
(* query of this run never does: Invoke calls SetMonitor before the reader *)
(* that sends the first query exists.                                      *)
AnswersFindMonitor ==
  [][\A q \in QueryEngines : CompleteWithoutMonitor(q) =>
       \A a \in Addresses : <<q, a>> \notin sent]_vars

(* A query is given up before its attempts are used up only if its server  *)
(* answered: Think works on what it collected, which an answer may have    *)
(* removed, and a list that names the server twice begun anew.             *)
AbandonJustified ==
  [][Abandon =>
       \A i \in 1..Len(queryList) :
         LET c == queryList[i] IN
         \/ QueryOf(c.engine, c.address) \in PendingQueries'
         \/ Exhausted(c)
         \/ <<c.engine, c.address>> \in answered]_vars

(* An answer settles the query it answers (CompleteQuery after             *)
(* OnServerInfoResponse).                                                  *)
AnswerSettlesItsQuery ==
  [][\A q \in QueryEngines :
       (listener[q].pc = "complete" /\ listener'[q] = NoDatagram) =>
         QueryOf(q, listener[q].addr) \notin PendingQueries']_vars

(* A run that ends by itself leaves no server it asked without a result.   *)
CompleteMeansSettled ==
  [][(ctxErr = "none" /\ ctxErr' = "canceled") =>
       sent \subseteq answered \cup abandoned]_vars

(* What "wait for TCP reply, etc" says of the goroutine of a list engine:  *)
(* with every engine invoked, AllEnginesComplete finds none at work only   *)
(* when every list was read.                                               *)
CompleteMeansListsRead ==
  [][(/\ CheckEngines
      /\ serverEngineList = <<>>
      /\ invoked = Len(params)
      /\ ~CtxDone) => \A l \in Configured : reader[l] \in {"tail", "done"}]_vars

(* Once every list was read the run ends without waiting for its deadline. *)
IdleRunCompletes ==
  (mainPc = "wait" /\ \A l \in Configured : reader[l] = "done") ~> ~Running

(* Once its context is done, by the deadline if by nothing else, the       *)
(* process ends, whatever Redis and the master servers do.                 *)
ContextEndsRun == CtxDone ~> ~Running

(* The run uses the monitor the way MonitorSpec says its clients do. *)
UsesMonitor == MonitorSpec
=============================================================================
