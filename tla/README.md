# os-serverlist-sync: specifications

os-serverlist-sync copies game servers from foreign master servers (GOA,
SBV2, UTMS), HTTP APIs (open.mp, gameserverlister) and text files into the
OpenSpy server list in Redis. One process is one run: it fetches the lists,
asks every listed server for its properties over UDP, writes the answers to
Redis and ends when nothing is left to do, or after five minutes. This
directory holds TLA+ modules of that program, the TLC configurations that check
them, and TLAPS proofs about the core.

Paths below are relative to the Go module, `src/src/`.

## 1. Inventory

| Component | State it keeps | Operations | Talks to |
|---|---|---|---|
| Status monitor, `Engine/SyncStatusMonitor.go` | `serverEngineList`, `queryList` (two `container/list`), per query: address, engines, `lastPerformed`, `numAttempts` | Init, Begin/EndServerListEngine, AllEnginesComplete, BeginQuery, CompleteQuery, Think, engineHasPendingQueries | called by every goroutine, calls `Query` of a query engine from Think |
| main and ticker, `main.go` | context with a five-minute deadline, `cancel`, list of engines | InvokeMsEngines, the ticker goroutine, shutdownEngines, refresh mode | monitor, list engines |
| Engine configuration, `Config/` | list of (list engine, query engine, output handler) | UnmarshalJSON: one query engine per list engine, an output handler if there is one | main |
| List engines, `Engines/GOA`, `QR2`, `UT2K`, `TextFile…`, `GameServerListerApi`, `SAMP/OpenMpApi…` | connection, own context and `cancel`, encryption state (SBV2) | Invoke, the reader goroutine, the watcher goroutine, Shutdown | monitor, query engine |
| Redis input handler (refresh mode) | Redis client, own context | Invoke scans the game's set in the caller's goroutine, drops stale members | monitor, query engine, Redis |
| Query engines, `GOA0`, `QR2`, `SAMP`, `UT2K` | UDP socket, monitor, output handler, per-server parser state | Query, listener goroutine, parsers, SetMonitor, SetOutputHandler, Shutdown | monitor, output handler |
| Redis output handler | Redis client, ids of the game | OnServerInfoResponse, getServerKey | Redis |
| List sessions (protocols of the three masters) | TCP stream, message boundaries, cipher state | ReadResponse, ReadCompressedResponse, readFields, waitForData, … | master server |
| Ciphers `gsmsalg.c`, `enctypex_decoder.c` | none between calls (`enctypex_data_t` belongs to the SBV2 engine) | pure functions | list sessions |
| Build and deployment | none | | |

### How they interact

- *Calls.* main invokes the list engines in the order of the file. Invoke
  registers the engine with the monitor, gives the monitor to the query engine
  and starts two goroutines: a reader and a watcher. The reader calls
  BeginQuery for each server and, if that returned true, Query. The listener of
  a query engine passes an answer to the output handler, then calls
  CompleteQuery.
- *Shared state.* The monitor's two lists. There is no lock in the program.
- *Context.* main's context has a deadline and a `cancel` the ticker calls; each
  list engine derives one of its own, which its reader cancels at the end of its
  list. The watcher waits for it, then calls EndServerListEngine and Shutdown.
- *Time.* The ticker runs every two seconds: Think repeats what was asked more
  than RETRY_SECONDS ago and gives up what was asked too often; if then
  AllEnginesComplete, it cancels the run.

### What is hard

- Up to 3 + 2·engines goroutines change two lists, and Think walks one of them
  while elements come and go.
- Answers are datagrams: lost, repeated, late, reordered, also after the query
  was given up.
- A list arrives over minutes while its first servers have long answered.
- An address has two forms (IPv4, `::ffff:` IPv4), and one engine changes a port
  in place.
- Every way a reader can fail must take its engine off the monitor's list, or
  each run lasts five minutes.
- The process may end between any two Redis commands.

### What makes each component correct

- *Monitor.* One pending query per server and query engine; bounded attempts;
  Think's walk sees a consistent list; begin, repeat and settle are the only
  things that happen to a query.
- *Run.* No server that was asked is lost: it is pending, answered or given up.
  Nothing is given up early. The run that ends by itself has settled everything
  it asked, the run that has read its lists ends by itself, and every run ends.
- *Redis handlers.* What is written expires; a server that lives is found by its
  address and has one key; a mapping leads to the server of its address; a
  server that reports to OpenSpy itself is left alone.
- *List sessions.* The list handed over is the master's, in order, however TCP
  cuts the stream and wherever it ends; the cipher state is freed once, and its
  loss under the reader spoils one server at most; a session ends the process
  only for causes that are named one by one.
- *Answer parsers.* A whole answer is published as the server meant it, nothing
  of an earlier datagram in the reused buffer gets into it, and no whole answer
  ends the process.

PROJECT.json lists the hazards line by line, with the properties that cover
each, or why none does.

## 2. Modules

| Module | Models | Kind |
|---|---|---|
| `SyncStatusMonitor` | `Engine/SyncStatusMonitor.go` under any client | component |
| `QueryTracker` | what the monitor promises about queries | abstract specification |
| `SyncRun` | main, ticker, list engines, query engines, on the monitor | composition (extends `SyncStatusMonitor`) |
| `InjectedServerStore` | `Engines/OpenSpy`: the Redis output handler and the refresh scan, on the keys of one game | component |
| `MasterSession` | the TCP stream between a list engine and its master server, shared by the three sessions | base |
| `GOAListReader` | the session of `GOA0ServerListEngine.go` | component |
| `SBV2Session` | the session of `SBV2ServerListEngine.go`, with its cipher state and Shutdown | component |
| `UTMSSession` | the session of `UTMSServerListEngine.go` | component |
| `ListSessions` | a session of any of the three kinds | composition |
| `ListDelivery` | what a list session promises | abstract specification |
| `QueryResponses` | the listeners of the four query engines: receive buffer and parsers | component |
| `ListLemmas` | what `SelectInSeq`, `RemoveAt`, `RemoveFirst`, a push and `FlattenSeq` return; sequences of any symbols put together, cut and compared; induction up to a number | lemmas |
| `SyncStatusMonitorProofs` | theorems about `SyncStatusMonitor`, and that it implements `QueryTracker` | proofs |
| `SyncRunProofs` | types of `SyncRun`, that it uses the monitor as `MonitorSpec` allows, and what becomes of each query | proofs |
| `InjectedServerStoreProofs` | theorems about `InjectedServerStore`: expiries, and which keys belong to which server | proofs |
| `SessionProofs` | theorems about `ListSessions`: cipher state, garbled fields; lemmas about the deliveries of UTMS and of the compressed GOA list | proofs |
| `TextDeliveryProofs` | lemmas about the delivery of the textual GOA list | proofs |
| `ListSessionsProofs` | theorems about `ListSessions`: types, deliveries and panics, with the lemmas for SBV2 | proofs |
| `QueryResponsesProofs` | theorems about `QueryResponses` | proofs |
| `MC…` | constants for TLC | instances |

### SyncStatusMonitor

`container/list` is a sequence, front first. `QueryEngineListItem` is a record;
`lastPerformed` only matters through "more than RETRY_SECONDS ago", so it is the
Boolean `stale`, set by `RetryIntervalElapses` and cleared by a send. Each
method is one action, except Think. Its loop reads `e.Next()` again and again
while others change the list, so `thinkPc` and `cursor` say where it stands, and
each visited element is a step (`ThinkCollect`, `ThinkResend`, `ThinkSkip`).
A push moves the element under the cursor one place back. A removal in front of
it moves it forward. The removal of *that* element clears its `next` pointer, so
the loop ends (`RemoveQuery`), as it does in the code. What was collected is
completed afterwards, one per step (`ThinkAbandon`), by (engine, address) and not
by element: between the two steps the query may be answered and even begun anew.

`Matches` keeps the asymmetry of the code: the argument of BeginQuery and
CompleteQuery is reduced to IPv4, the stored address is not. `MonitorSpec` lets
any client call anything at any time, with one restriction that main.go
guarantees: an engine at work is not begun again. That restriction is itself
checked of the run (`UsesMonitor`).

### SyncRun

One program counter per goroutine:

| Goroutine | Variable | Steps |
|---|---|---|
| main | `mainPc`, `invoked`, `ctxErr` | `Invoke`/`InvokeRefresh` per entry, `InvokeMsEnginesReturns`, `MainReturns` |
| ticker | `tickerPc` | `Tick`, the steps of Think, `CheckEngines`, `CheckQueries` (the two reads of AllEnginesComplete) |
| reader of a list engine | `reader`, `nextEntry` | connect or fail, `ReadEntry`, `HandleEntry`, `SkipEntry` or (an IPv6 address) `EntryPanics`, each way its list can end |
| watcher of a list engine | `watcher`, `connClosed` | `Watch` |
| listener of a query engine | `listener` | `ReadFrom`, `OnServerInfoResponse`, `CompleteAnswer` or (before SetMonitor) `CompleteWithoutMonitor` |

What the configuration file says is the variable `config`, chosen at the start
and never changed; `Kind` and `QueryKind` are parts of it and select what differs
between the implementations: what a failed dial or read does (`DialFails`,
`RequestFails`, `FileFails`, `Sbv2ReadFails`, `UtmsReadFails`, `UtmsWriteFails`,
after which the reader goes on, `GoaReadFails` with the half-received entry it
still handles, `GoaCompressedReadFails`), the
synchronous scan of refresh mode, the listener that gives up without an output
handler, UT2K's decremented port.

The network needs no state: the sockets are bound, and their listeners run,
since the configuration was read, so `ReadFrom` takes a datagram from any address
at any moment, any number of times, or never. That covers loss, delay,
repetition and reordering without a queue, and what comes without a question or
before Invoke. `sent`, `answered` (the queries of the run whose answer was
passed to CompleteQuery) and `abandoned` are history; no action is enabled or
disabled by them.

A panic or `log.Fatal` is `mainPc = "fatal"`. Terminated runs stutter, so TLC's
deadlock check stays on: a state where a live process can do nothing is an error.

### InjectedServerStore

Every Redis command of OnServerInfoResponse, getServerKey and the refresh scan
is an action, so that other handlers, expiring keys, a failed command or the end
of the process come between any two. `pc` of a handler is the command it sends
next; `Answer` starts one, with an address. The state of Redis is what the
commands can tell apart: which hashes and custom keys there are and for how
long, the mapping `IPMAP` of each address, the members of the game's sorted set,
the last id of `QRID`.

| Code | Model |
|---|---|
| SERVER_EXPIRE_TIME_SECS | the countdown `TTL`, lowered by `Tick`; `Forever` is TTL + 1: no expiry |
| an error of Incr | `LastCommandFails`: log.Fatal, the end of the process |
| an error of another command | `CommandFails`: the handler goes on or returns as the code does, `AfterError` |
| main returns under a handler | `Crash` |
| the scan of refresh mode | `ZScan`, `HMGet`, `ZRem`, one page; `marked` are the members to be removed |
| a game server that reports to OpenSpy | `NativeReports` (external) |

`Faults` selects the failures. `Tick` may come between any two commands, so a key
may expire after HExists found it and before HSet writes it. `Set` and the
`ExpireIpmap` behind it are two commands: after a Set that failed, the Expire
renews the mapping of before. `lapsed` is history, the keys without a hash at
some moment of the scan that is on.

### MasterSession and the three sessions

`stream` is what the master server has sent and the reader has not read; a Read
returns any number of its first symbols, up to the buffer. The master server may
hang up with any part of its data lost, a Read may fail, and Shutdown may close
the connection at any moment. A host is one symbol, since the code takes it or
skips it as a whole; a port, a length, the mark `\ip\` are several, so that they
can be cut. What the master servers send is written from what the readers
expect (external).

- `GOAListReader`: the greeting, the text accumulated in `ipStringAccum` and
  split at `\ip\`, each piece handled, the tail behind the loop, and the
  six-byte records of the compressed list with the buffer that keeps what a
  short Read does not overwrite. A greeting that was read in part leaves its
  rest in front of the list. Two steps end the process: `ChallengePanics`, when
  `MaxChallengeLen` is more than the `ChallengeRoom` bytes that the reply buffer
  has behind `secure\` (17 of 32), and `EntryPanics`, when a piece of the text is
  an address of one of the session's `IPv6Hosts`.
- `SBV2Session`: `todo` is the rest of the reader's program, the fields it will
  wait for in the order of the code: `After` is what each field puts in front of
  it, `Parts` the optional parts of an entry, `Checked` the places that look at
  `gotFatalError`, `Indexed` those that index what a wait returned. A wait is
  `ReadField` steps, then `CheckReady`, which reads `enctypeXReady`, then
  `Decrypt`. Shutdown is four steps for each of its two callers: close, test the
  flag, clear it, free. The cipher is the identity while its memory is live;
  cipher text that is not decrypted, or is decrypted with freed memory, is
  `Noise`.
- `UTMSSession`: `ReadLength` is the single Read of a length, whose missing half
  stays zero; `ReadData` the loop for the message; `OnMessage` what each state
  of readMessage does with it, or the panic of a slice beyond the message. The
  reader may go on with a failed write, as sendBuffer does.

`ListDelivery` says what `SyncRun` assumes of a reader: the entries in order,
one at a time, cut short anywhere, the last one perhaps without digits of its
port (`TailAddresses`). `DeliversInOrder` is that refinement for each kind,
under the condition `InStep`, which names what the code does depend on: the
compressed GOA list comes a record per Read, a UTMS length comes whole, SBV2's
cipher state has not been taken away. Outside of it addresses are invented, which
SyncRun leaves out.

### QueryResponses

A listener receives a datagram into `buf`, which keeps the bytes of earlier ones
behind it (`Filled`; UT2K puts a zero there), and parses it at once. A number is
one byte whatever its width; `Low6` and `Low7` are how much the bytes of UT2K's
compact numbers carry, small here so that strings of two and eight characters
need two and three bytes. `ReadFields` reads the fixed layouts of UT2K and SAMP
over the whole buffer, as the code does, and yields a panic beyond it; QR2 and
GOA read pairs up to the end of the datagram. `BytesOf` is the encoding by the
server (external), `Meant` what is to be published of it. A datagram may be any
prefix of an answer.

## 3. Runs

Every passing run is exhaustive and takes from seconds to about three minutes
with two workers.

| Run | Configuration | What it shows |
|---|---|---|
| `monitor` | `MCSyncStatusMonitor.cfg` | three servers of one query engine, any client: list, cursor and pass stay consistent; the monitor implements `QueryTracker` |
| `entries` | `RunEntries.cfg` | a GOA list (A, B), a UTMS list that names its server twice (A, A), a file and an HTTP list (without output handlers), the latter with SBV2 and the same server, refresh mode with two games, datagrams from anyone at any time: nothing is lost, nothing is given up without reason, answers settle, entries do not disturb each other, and the run uses the monitor as `MonitorSpec` allows |
| `liveness` | `RunLiveness.cfg` | a GOA entry or a refresh scan: once every list was read the run ends without its deadline; once its context is done it ends, whatever does not answer |
| `store_concurrent` | `StoreConcurrent.cfg` | two output handlers on one address, its server also reporting itself, keys expiring at any moment: what is written gets its expiry, a live server is found, the hash of the server's own report is not written |
| `store_single` | `StoreSingle.cfg` | one output handler and a refresh scan: a server never has two keys |
| `store_faults` | `StoreFaults.cfg` | two handlers, two addresses, a refresh scan, failing commands, ending processes, keys expiring between any two commands: a mapping never leads to another server, no injected server is taken off the list whose hash lived all through the scan |
| `list_sessions` | `ListSessions.cfg` | the same list from each kind of master server, cut anywhere, lost or closed at any moment, the text also with an IPv6 server: handed over in order, and whole if it arrived whole; one server spoilt at most when SBV2's cipher state goes; no double free unless the two calls of Shutdown overlap; panics only after a failed or a short Read, at an IPv6 server, or at a challenge length beyond the buffer; Shutdown ends the reader |
| `query_responses` | `QueryResponses.cfg` | two datagrams, whole or cut, into each listener: whole answers are published as meant, stale bytes never are, and only cut or too long datagrams of UT2K and SAMP end the process |
| `refresh_native` | `StoreNative.cfg` | *violation* |
| `cut_short` | `RunCutShort.cfg` | *violation*, see below |
| `mapped_address` | `MCMappedAddress.cfg` | *violation* |
| `port_minus_one` | `RunPortMinusOne.cfg` | *violation* |

### Bounds, and why they are enough

- *Servers.* The list hazards need an element before, at and after the cursor:
  three addresses in `monitor`. In the runs a pair of servers (or one server
  named by two engines) lets an answer meet the query of another.
- *Engines.* The interaction of engines is pairwise (same server, end of one
  while the other is at work), hence at most two.
- *Configurations.* A run starts with any of the files in `Configurations`; in
  each, `params` is the order of the engines, and they keep their query engines.
- *MAX_ATTEMPTS* is 1 instead of 5: a query is sent, sent again and given up;
  further rounds repeat the second.
- *Lists* have one or two entries; two with the same server are the shortest that
  let a query be completed, begun anew and given up on what Think had collected
  before, two with different servers let a list be ended between them.
- *Redis.* A race needs two handlers on one address, a mix-up of keys two
  addresses. A TTL of 2 lets keys written by one answer expire at different
  moments; at 1 they expire at any moment between two commands already.
  `MaxKeys` stops the handlers from creating keys without end: at 2 each handler,
  or each address, has one; at 3 (`store_single`) an address gets a key, loses it
  and gets another beside a second address. In `store_faults` the handlers and
  the addresses are interchangeable (none is native, no property names one), so
  they are reduced by symmetry.
- *Master list.* Three entries have a first, a middle and a last one. A Read
  returns up to twelve symbols, an entry and a half, so that each kind of cut
  and two marks in one Read occur. The SBV2 list has an entry without options,
  one with every option but rules, one with rules; a key of each type; both
  popular counts. UTMS has both client versions, approved and denied. The text
  has the second of the servers with an IPv6 address or without: before it one
  is handled, behind it none. `MaxChallengeLen` is the challenge's, 0, and one
  more than the buffer has.
- *Datagrams.* A stale byte needs one earlier datagram, so two are enough. The
  buffer has 27 bytes instead of 1492, just as many as the longest UT2K answer,
  so that it is filled and overrun; the answers have empty strings, a colour
  code, a string with a three-byte length, a key given twice, a wrong version,
  a wrong type and a wrong magic.
- `attempts` needs no cap: the code bounds it, and `AttemptsBounded` is the
  proof. No other counter grows without end.

### Fairness

`SchedulerFairness` is weak fairness of what waits only for the processor, a
tick, a context or the passing of time: main, ticker, watchers, a reader that
holds an entry, and a Redis scan whose context is done (go-redis returns then).
Nothing makes a connection open, a list go on or an answer arrive, and a
listener is not assumed to run. `IdleRunCompletes` uses this alone, so it shows
that the attempts run out and the ticker notices. `ContextEndsRun` starts from a
context that is done, by `cancel` or by the timer of `context.WithTimeout`,
whose firing is left to the Go runtime.
`list_sessions` assumes that the reader handles what it has read and that a Read on
a closed connection returns an error; nothing makes data arrive.

### Where the code and its comments part

- `cut_short`: CompleteQuery takes an engine off the list when none of *its
  queries so far* is pending, while its reader may still be receiving the list
  (`Engine/SyncStatusMonitor.go:95`). AllEnginesComplete then finds no engine at
  work although the list was not read. `TakenOffWhenSettled` is what does hold.
- `mapped_address`: a server listed in `::ffff:` form is stored in that form and
  compared with its IPv4 form, so the duplicate check never finds it (`:62`).
  `MonitorUniquePending` is the theorem for lists in IPv4 form.
- `port_minus_one`: the UT2K engine decrements the port of the address it later
  passes to CompleteQuery (`Engines/UT2K/UT2KQueryEngine.go:165`), so an answer
  does not settle its query and may settle that of a neighbour.
- `refresh_native`: the scan removes members without the field `injected`, that
  is, servers that report to OpenSpy themselves
  (`Engines/OpenSpy/OpenSpyRedisInputHandler.go:134`).

Some weaknesses contradict no line of the repository, so no run is made of them;
the properties name them as what they allow. A SBV2 connection that fails within
a string or a rule panics once decryption is on, since the empty result is
indexed (`Engines/QR2/SBV2ServerListEngine.go:199`); when Shutdown frees the
cipher state under the reader one server that is in no list may be queried
(`:427`, `GarbledOnce` and `OnlyLastStrange`), and two overlapping calls may free it twice
(`FreedOnce`). A UTMS length that arrives in two segments puts the reader out of
step (`Engines/UT2K/UTMSServerListEngine.go:188`), and so does a record of the
compressed GOA list that does (`Engines/GOA/GOA0ServerListEngine.go:240`). An
IPv6 server in a list ends the process (`Engine/SyncStatusMonitor.go:57`), and a
`MaxChallengeLen` of more than 17 does at the first reply
(`Engines/GOA/GOA0ServerListEngine.go:118`; `PanicNeedsFailure`). A datagram that
comes to a query engine before its list engine was invoked ends it as well, since
the monitor is not set yet (`Engines/GOA/GOA0QueryEngine.go:58`,
`AnswersFindMonitor`); only QR2 needs no output handler for that. A tick
before the first Invoke finds nothing to do and cancels the run (`main.go:78`). A UT2K datagram that fills
the buffer ends the process (`Engines/UT2K/UT2KQueryEngine.go:83`), and so may
one that is too short (UT2K, SAMP).

In the store, a server whose hash has expired when the scan asks for it, and that
a handler writes again before ZRem, is taken off the list though it lives
(`Engines/OpenSpy/OpenSpyRedisInputHandler.go:175`): the hash may expire between
the handler's HExists and its HSet. `RefreshSparesLive` says that nothing else
takes an injected server off. Two weaknesses of the store show when its constants are widened, without a
line that says otherwise. With `"crash"` in `Faults`, `EverythingExpires` fails:
the hash and the custom keys get their expiry by a later command, so a run that
ends in between (main does not wait for a listener) leaves those of a new key in
Redis for good (`Engines/OpenSpy/OpenSpyRedisOutputHandler.go:71`).
With two handlers on one address, `OneKeyPerServer` fails: two entries of the
configuration, or two overlapping runs, both find no mapping and create a key
each (`:163`).

### Mutants

Next to an action stand mutated forms of it, marked "Mutant" in the comment: a
dropped check, a missing reset, an index that does not follow the list. Each
property is violated when one of them replaces the original; PROJECT.json says
which. They are used nowhere else.

## 4. Proofs

The theorems hold for every finite or infinite set of engines, addresses,
handlers and keys, every list and every value of the bounds; what else they
assume is said with each.

### Monitor

| Theorem | Says | Assumes | Inductive invariant |
|---|---|---|---|
| `MonitorTypeOK` | `[]TypeOK` | nothing | `TypeOK` itself: its conjuncts about `cursor` are what keeps `ThinkVisits` and `RemoveQuery` inside the list |
| `MonitorUniquePending` | `[]UniquePending` | lists in IPv4 form | `UniqueInv`: all stored addresses plain, too, or the check of BeginQuery compares different things |
| `MonitorAttemptsBounded` | `[]AttemptsBounded` | nothing | `AttemptsInv` |
| `MonitorCollectedOnce` | `[]CollectedOnce` | lists in IPv4 form | `CollectInv`: what Think has collected is not on the list any more or behind its cursor, and nothing is collected between passes |
| `MonitorImplementsTracker` | `MonitorSpec => ImplementsTracker` | lists in IPv4 form | `TrackerInv`: `UniqueInv`, `AttemptsInv`, and every stored address is one of `Addresses` |

The common ground is `ListStep`: whatever a step does, each element of the new
list comes from a place of the old one, the places are different for different
elements, and only Think's resend changes what is at a place. Uniqueness and the
bound on attempts follow from it without looking at the actions again. For the
refinement each kind of change of the list (a push, a resend, the removal of the
element of a pair) is one step of the tracker, since the list is a function of
the pair while `UniquePending` holds; the run `mapped_address` shows what
happens without the hypothesis.

### Run

| Theorem | Says | Assumes | Inductive invariant |
|---|---|---|---|
| `RunTypeCorrect` | `[]RunTypeOK` | nothing | `RunInv`, below |
| `RunMonitorSet` | `AnswersFindMonitor` | nothing | `RunInv`: a query that was sent went through an engine that was invoked, and that has a monitor |
| `RunImplementsMonitor` | `RunSpec => UsesMonitor`, that is, `MonitorSpec` | nothing | `RunInv` |
| `RunEngineListed` | `TakenOffWhenSettled` | nothing | `RunInv`; `OthersStayListed` and `CompletionKeepsListed` say which steps leave an engine on the list |
| `RunAccounts` | `[]EveryQueryAccountedFor` | IPv4 form; no neighbouring ports with UT2K | `SettledInv`, below |
| `RunCompletesSettled` | `CompleteMeansSettled` | the same | `SettledInv` |
| `RunAbandonsJustly` | `AbandonJustified` | the same | `SettledInv` |
| `RunAnswersSettle` | `AnswerSettlesItsQuery` | IPv4 form; no UT2K | `SettledInv` |

`RunInv` is `ControlInv`, the program counters and how they go together, with
`DataInv`: what was sent, answered or collected, what a listener holds and which
engines were invoked. Every step of a run is a step of the monitor or leaves it
alone (`RunStepIsMonitorStep`), so `MonitorSpec` holds in every run, and with it
the theorems about the monitor.

`SettledInv` adds that a query that was sent is on the list, answered or
abandoned (`Accounted`), and that what Think collected has been answered or is on
the list with its attempts used up (`GivenUp`); between the collection and the
removal the query may be answered and begun anew, which is why `GivenUp` speaks
of the pair and not of the element. The listener that stands between
OnServerInfoResponse and CompleteQuery is in `RunInv`. The hypotheses are those the code needs: `mapped_address` and
`port_minus_one` are the counterexamples without them. "No neighbouring ports"
means that no two addresses of the lists differ by one in the port, counted
modulo 2^16; it is asked only if some configuration has a UT2K engine.

### Store

| Theorem | Says | Assumes | Inductive invariant |
|---|---|---|---|
| `StoreTypes` | `[]StoreTypeOK` | nothing | `StoreInv`: besides, a handler at work has an address, and one that writes has an injected key that was created already |
| `StoreNativeHashUntouched` | `[]NativeHashUntouched` | nothing | `StoreInv`: the key a handler writes to is injected, which getServerKey checked before the first write |
| `StoreEverythingExpires` | `[]EverythingExpires` | `Faults = {}` | `StoreInv /\ EverythingExpires`; `OwesStep` shows that a handler stays responsible for a key until its Expire, whatever the others do |
| `StoreIpmapNamesItsServer` | `[]IpmapNamesItsServer` | nothing | `ClaimInv`: a key belongs to the address it was created for, while a handler still holds it and once it is mapped |
| `StoreFoundWhileAlive` | `[]FoundWhileAlive` | `Faults = {}` | `AliveInv`: `FoundWhileAlive` with `StoreInv`, `ClaimInv`, `EverythingExpires`; a hash outlives the mapping only while a handler is on the way to write it |
| `StoreOneKeyPerServer` | `[]OneKeyPerServer` | `Faults = {}`, one handler | `AliveInv /\ OneKeyInv`: injected hashes have different addresses, and at the address of a handler that makes a key there is none, at that of one that writes none but its own |
| `StoreRefreshSparesLive` | `RefreshSparesLive` | nothing | `StoreInv /\ ScanInv`: an injected hash has its fields as long as it is there, so what the scan has picked of the injected servers was without a hash at some moment of it |

`Faults = {}` says that no command fails and no process ends under a handler;
*Where the code and its comments part* tells what fails without it, and without
the single handler. Native reports, expiring keys and the interleaving of the
commands are not restricted.

### List sessions

| Theorem | Says | Assumes | Inductive invariant |
|---|---|---|---|
| `SessionFreedOnce` | `[]FreedOnce` | nothing | `WaitInv` and `ShutdownInv` |
| `SessionGarbledOnce` | `[]GarbledOnce` | nothing | those and `CloseInv` |
| `SessionTypeCorrect` | `[]SessionTypeOK` | nothing | `TypesInv`: `SessionTypeOK` with what each buffer holds being a sequence, and the two invariants of SBV2 |
| `SessionDeliversInOrder` | `DeliversInOrder` | nothing | `DeliveryInv`: for UTMS `UTMSInv` and `UTMSOrder`, for GOA `GOAPanics`, `CompressedInv` and `TextInv`, for SBV2 `CipherOrder` and `ListOrder` with the invariants above |
| `SessionHandlesWholeList` | `[]WholeListHandled` | nothing | `DeliveryInv` |
| `SessionPanicNeedsFailure` | `[]PanicNeedsFailure` | nothing | `DeliveryInv`, of which `GOAPanics`, `SBV2Panics` and `UTMSInv`; that the IPv6 server is the next one of the list is `EntryPanicsAtNext` |
| `SessionOnlyLastStrange` | `[]OnlyLastStrange` | nothing | `DeliveryInv` |

- *SBV2.* `WaitInv` is what the reader waits for: while there is no cipher state
  `todo` is one of the waits of the crypt header; behind it no field waits for
  the key again (`LateAfter`, `HeaderEnd`), so the reader makes the
  state once. `ShutdownInv` says that the flag and the memory then go together
  as long as calls have not overlapped. Behind the header every field has at
  least one symbol, so a wait returns nothing only after a Read that failed;
  that gives `SBV2Panics`. `CloseInv`: a caller past its first step has closed
  the connection, and on a closed connection nothing is read that could be
  garbled again.
- *SBV2, deliveries.* What the reader still waits for and what the master server
  has still to send are read off each other field by field. `Place` has the
  places the reader can stand at, each with the text due there: in the crypt
  header, among the types of the keys, between two servers, within one. Within a
  server the waits are what a program with loops has left of its work, and
  `Parses` says that they take the text to its end. It is defined without a
  recursion: there is a set of pairs of waits and text, closed under taking a
  field, that this pair belongs to. `PlaceAdvances` is the step of the reader:
  wherever it stands, the field it waits for comes next, in full, and with it it
  gets to another place, hands on the next server of the list, or is at the end.
  `SBV2At` adds that what was read and is on the stream is a start of what is due
  (`PlaceRead`, `PlaceCut`). `ListOrder` has this as long as no Read failed and
  nothing was garbled. After a failed Read nothing is handed on; after a garbled
  field, at most this one server. `CipherOrder`: the flag is up only while the
  memory is there, and what was garbled was so after the flag went down for good.
- *UTMS.* `UTMSInv` says, while no length was read in part, what is on the
  stream and in the buffer: the start of the message the state waits for and of
  what is due behind it. `StartRead` is the step of every Read, wherever it
  cuts: either it stays a start, or the message is whole, and then it is long
  enough for its handler (`ExpectedFits`). `UTMSOrder` adds that the servers
  handled are a start of the list, and that `numServers` counts the rest of it.
- *GOA, compressed.* `CompressedInv`: while every Read returned a record, the
  stream holds a start of the records due behind those that were handled, and
  all of them if nothing was lost.
- *GOA, text.* A Read may cut anywhere, and what is split is not what was sent
  but what had been kept, with the leftover of a greeting in front. `TextInv`
  therefore describes the text as pieces with marks between them: the pieces of
  a pass are a few that are no address, then the servers due, then one that may
  be incomplete (`TextPass`); behind a pass, what is kept with what is still on
  the stream is the text of the entries due (`TextKept`). The lemmas of `TextDeliveryProofs`
  say what `Split` makes of such a text wherever it ends, inside a mark too.

What the master server sends is external, and so is what is assumed of it.
`ListingAssumption`: ports have two digits. `SeparatorAssumption`: no host or
port contains a backslash, and the greeting contains no mark; a host that
contained one would be split in the code as well. `ReaderAssumption`: a greeting
of the kind the engine expects for its `MaxChallengeLen`, unless that is more
than the buffer has, and no longer than the buffer; only a list that comes as
text has IPv6 addresses, as the others have four bytes for one. `UTMSAssumption` is a
bound of the model: a number of the wire is one numeral, so that a list has at
most nine servers; the code reads four bytes. `SBV2Assumption`: a server whose
entry has no port of its own listens on the default port, the address that ends
the list is not the host of a server, and the types of the keys are those the
code knows, at most nine, for the same bound.

`ListLemmas` states what the operators of the community modules return. What
`FlattenSeq` computes needs an induction; it is done on the set of numbers for
which the claim holds (`InductionTo`), by the least one that is missing.

### Query answers

| Theorem | Says | Assumes | Inductive invariant |
|---|---|---|---|
| `ResponsesTypeCorrect` | `[]ResponsesTypeOK` | nothing | itself: the buffer holds bytes because every answer is sent as bytes (`AnswerType`) |
| `ResponsesOwnDatagramOnly` | `[]OwnDatagramOnly` | nothing | `AnswersInv` |
| `ResponsesCompleteAnswerRead` | `[]CompleteAnswerRead` | nothing | `AnswersInv` |
| `ResponsesListenerSurvives` | `[]ListenerSurvives` | nothing | `AnswersInv` |

`AnswersInv` says of the last datagram that the buffer begins with its bytes,
that the outcome is what the parser makes of this buffer (`Made` for QR2 and
GOA, `FieldsMade` for UT2K and SAMP), and that a whole datagram is an answer as
it is sent. What is left is about the parsers. For *own bytes* two buffers that
agree up to the length of the datagram are compared: the recursive functions of
QR2 and GOA are then defined by the same equations (`PairsAgree`), and the fields
of UT2K and SAMP are read in step (`FieldsRead`). For *complete answers* the
parser is shown to invert the encoding, by induction over the pairs or fields
that are still to be read: `View` says that what the buffer has behind an offset
is the rest of the answer, and each read takes one word off it (`TextRead`), one
field (`FieldTaken`), or one piece between two backslashes (`WordSplit`). That a
key which is repeated has its last value is `RightFrom` for QR2, which reads the
later pairs first, and `RightUpto` for the others.

The strings of UT2K have their length in front as a compact number, whose digits
the server finds by dividing again and again. `DescentExists` does the induction
that this needs, `DigitsOf` says what the digits are, and `CompactRead` that
reading them gives the number back and takes exactly its bytes. `CharsRead` is
the loop over the characters behind it, which leaves out the colour codes and
counts their four characters. A whole answer of UT2K ends the process only by
filling the buffer, which is the condition `FitsTheBuffer` of the properties.

`AnswersAssumption`, next to what a server sends, is what this needs: no word of
QR2 contains a zero and none of GOA a backslash, which is what separates them on
the wire; no key of QR2 is empty, which would end the answer; an answer of UT2K
or SAMP has all its fields, numbers of one byte, texts behind a one-byte length
no longer than it can say, and no zero in a compact text, which would end it.
`ResponsesAssumption` has `BufLen <= Low6 * Low7 * Low7`: every length that fits
the buffer takes three bytes at most. In the code that is 1492 <= 64 * 128 * 128.

### Only model-checked

- Liveness: `IdleRunCompletes`, `ContextEndsRun`, `ShutdownEndsReader`. The
  prover has no rule for fairness here.

Every invariant and every other action property of the passing runs is stated
by a theorem.

## 5. Not modelled

- *Text and JSON formats.* What a file or an HTTP answer contains is a sequence
  of addresses, some of them invalid (`SkipEntry`, `EntryPanics`).
- *Contents of requests.* What a client sends to a master or game server is a
  step without content; the validation string of GOA (`gsmsalg.c`) is the
  challenge itself.
- *Constant properties* of an answer (`standard`, `nomutators`, `hostport`) and
  its source address; UT2K's decremented port is in SyncRun.
- *The game of a key.* `InjectedServerStore` has one game, while `IPMAP` is shared
  by all of them. The sorted set is scanned in one page.
- *IPv6 queries.* The addresses of the monitor are IPv4 in one of its two forms;
  an IPv6 entry of a list ends the process (`EntryPanics`), so none is queried.
- *Torn list operations.* Calls of the monitor are atomic here; without a lock,
  two goroutines inside `container/list` are a data race, after which nothing
  can be said.
- *shutdownEngines.* It closes sockets just before the process ends and is part
  of `MainReturns`; main's call of SBV2's Shutdown is in `SBV2Session`.
- *Ciphers, scripts, workflow.* No state between calls, or no program state.

## 6. Plan

Modules still to be written, in this order:

1. `RetrySchedule`: the monitor's Think with a clock and the real constants
   (2 s, 30 s, 5 attempts, 300 s): when a silent server is given up, and how
   late it may be named for that to happen before the deadline.
2. The port on its way round: published one below by UT2K, asked one above by
   refresh mode.
3. A second game in `InjectedServerStore`, for the shared `IPMAP`.
4. `gsmsalg` as a function, against a reference definition, over short inputs.
