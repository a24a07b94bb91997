----------------------------- MODULE SBV2Session ----------------------------
(***************************************************************************)
(* think of SBV2ServerListEngine.go: the session of an SBV2 list engine    *)
(* with its master server, and the cipher state, which the reader makes    *)
(* and uses and which Shutdown, called by the watcher and by main, frees.  *)
(*                                                                         *)
(* The list is read field by field.  todo is the rest of the reader's      *)
(* program: the fields it is going to wait for, in the order of the code,  *)
(* with the loops unrolled as far as they are known.                       *)
(***************************************************************************)
EXTENDS MasterSession

Callers == {"watcher", "main"}   \* of Shutdown

Noise == "noise"      \* what a cipher text, or a wrong key, gives for a symbol
NotAString == "0xff"  \* the string index that announces a string
Last255 == "255.255.255.255"

(***************************************************************************)
(* The master server: session.defaultPort, session.fields (the types of    *)
(* the keys) and, per server of the list, a flags byte, whose bits are     *)
(* session.bits.                                                           *)
(***************************************************************************)
NTS(s) == Append(s, Zero)

KeyValue(type) ==
  CASE type = "string" -> <<NotAString>> \o NTS(<<"v">>)
    [] type = "byte"   -> <<"v">>
    [] type = "short"  -> <<"v", "v">>

SBV2Sessions == {s \in Sessions : s.kind = "sbv2"}

(* A server without a port of its own listens on the default port, and the *)
(* address that ends the list is nobody's.  Bound: the number of keys is   *)
(* one numeral.                                                            *)
ASSUME SBV2Assumption ==
  /\ Last255 \notin Hosts
  /\ \A s \in SBV2Sessions :
       /\ s.defaultPort \in Seq(Digits) /\ Len(s.defaultPort) = 2
       /\ s.fields \in Seq({"byte", "string", "short"}) /\ Len(s.fields) <= 9
       /\ \A i \in 1..Len(Listing) :
            \/ s.flags[i] \in DOMAIN s.bits /\ "NONSTANDARD_PORT" \in s.bits[s.flags[i]]
            \/ Listing[i].port = s.defaultPort

Optional(flag, byte, symbols) ==
  IF byte \in DOMAIN session.bits /\ flag \in session.bits[byte] THEN symbols ELSE <<>>

SentEntry(a, byte) ==
  <<byte, a.host>>
    \o Optional("NONSTANDARD_PORT", byte, a.port)
    \o Optional("PRIVATE_IP", byte, <<"v">>)
    \o Optional("NONSTANDARD_PRIVATE_PORT", byte, <<"v", "v">>)
    \o Optional("ICMP_IP", byte, <<"v">>)
    \o Optional("HAS_KEYS", byte, FlattenSeq([i \in 1..Len(session.fields) |->
                                                KeyValue(session.fields[i])]))
    \o Optional("HAS_FULL_RULES", byte, NTS(<<"v">>) \o NTS(<<"v">>) \o NTS(<<>>))

Response ==
  <<"1", "v", "2", "v", "v">>
    \o <<"v">> \o session.defaultPort
    \o <<Numerals[Len(session.fields) + 1]>>
    \o FlattenSeq([i \in 1..Len(session.fields) |-> <<session.fields[i]>> \o NTS(<<"v">>)])
    \o <<session.popular>>
    \o FlattenSeq([i \in 1..Len(Listing) |-> SentEntry(Listing[i], session.flags[i])])
    \o <<Zero, Last255>>

VARIABLES
  todo,           \* the fields to wait for, each with its length
  waiting,        \* "read", "check" or "decrypt": where waitForDataOfLen stands
  dataBuffer,     \* what it has read
  gotFatalError,
  enctypeXReady,
  enctypeXData,   \* the memory of the cipher state: "none", "live" or "freed"
  fields,         \* the types of the keys
  defaultPort,
  entry,          \* the server being read: its flags byte, host and port
  shutdownPc,     \* where each caller stands in Shutdown
  garbled,        \* history: how many waits returned what was not decrypted right
  together,       \* history: two callers were in Shutdown at the same time
  freedTwice      \* history: the memory was freed twice

parserVars == <<todo, fields, defaultPort, entry>>
cipherVars == <<enctypeXReady, enctypeXData>>
shutdownVars == <<shutdownPc, together, freedTwice>>
sbv2Vars == <<parserVars, cipherVars, shutdownVars, waiting, dataBuffer, gotFatalError, garbled>>

Wait(name, n) == <<[name |-> name, len |-> n]>>

SBV2Init ==
  /\ todo = Wait("random length", 1)
  /\ waiting = "read"
  /\ dataBuffer = <<>>
  /\ gotFatalError = FALSE
  /\ enctypeXReady = FALSE
  /\ enctypeXData = "none"
  /\ fields = <<>>
  /\ defaultPort = <<Zero, Zero>>
  /\ entry = [byte |-> Zero, host |-> Zero, port |-> <<Zero, Zero>>]
  /\ shutdownPc = [c \in Callers |-> "idle"]
  /\ garbled = 0
  /\ together = FALSE
  /\ freedTwice = FALSE

-----------------------------------------------------------------------------
(* writeListRequest *)

WriteListRequest ==
  /\ pc = "request"
  /\ ~connClosed
  /\ pc' = "list"
  /\ stream' = IF closed THEN stream ELSE stream \o Response
  /\ validated' = ~closed
  /\ UNCHANGED <<session, closed, connClosed, handled, shortRead, lost, sbv2Vars>>

RequestFails ==
  /\ pc = "request"
  /\ pc' = "done"
  /\ ReadErr
  /\ UNCHANGED <<handled, sbv2Vars>>

-----------------------------------------------------------------------------
(* What the reader does with a field that has arrived. *)

(* After these it looks at gotFatalError and returns. *)
Checked == {"random length", "random", "key length", "key", "public ip", "default port",
            "num popular", "flags", "ip", "port", "private ip", "private port", "icmp ip"}

(* Of these it takes the first byte without looking. *)
Strings == {"field name", "string", "rule", "value"}
Indexed == Strings \cup {"num fields", "field type", "string index", "rules", "next rule"}

EntryStart == Wait("flags", 1) \o Wait("ip", 1)

(* Any count will do for noise: no Read succeeds after it. *)
Count(c) == IF c = Noise THEN 1 ELSE Value(c)

Repeat(n, fs) == FlattenSeq([i \in 1..n |-> fs])

KeyOf(type) ==
  CASE type = "string" -> Wait("string index", 1)
    [] type = "byte"   -> Wait("key byte", 1)
    [] type = "short"  -> Wait("key short", 2)
    [] OTHER           -> <<>>

(* The optional parts of an entry in the order of the code. *)
Parts(byte) ==
  Optional("NONSTANDARD_PORT", byte, Wait("port", 2))
    \o Optional("PRIVATE_IP", byte, Wait("private ip", 1))
    \o Optional("NONSTANDARD_PRIVATE_PORT", byte, Wait("private port", 2))
    \o Optional("ICMP_IP", byte, Wait("icmp ip", 1))
    \o Optional("HAS_KEYS", byte, FlattenSeq([i \in 1..Len(fields) |-> KeyOf(fields[i])]))
    \o Optional("HAS_FULL_RULES", byte, Wait("rules", 1))

(* What is to do after a field. *)
After(f, data, rest) ==
  CASE f = "random length" -> Wait("random", Count(data[1])) \o Wait("key length", 1)
    [] f = "key length"    -> Wait("key", Count(data[1]))
    [] f = "key"           -> Wait("public ip", 1) \o Wait("default port", 2)
                                \o Wait("num fields", 1)
    [] f = "num fields"    -> Repeat(Count(data[1]), Wait("field type", 1) \o Wait("field name", 1))
                                \o Wait("num popular", 1) \o EntryStart
    [] f = "ip"            -> Parts(entry.byte)
    [] f = "string index"  -> Wait("string", 1) \o rest
    [] f \in {"rules", "next rule"} ->
         IF data[1] = Zero
           THEN rest
           ELSE Wait("rule", 1) \o Wait("value", 1) \o Wait("next rule", 1)
    [] f \in Strings       -> IF data[1] = Zero THEN rest ELSE todo
    [] OTHER               -> rest

Quits(f, data) ==
  \/ f \in Checked /\ gotFatalError
  \/ f = "num popular" /\ data[1] # Zero
  \/ f = "ip" /\ data[1] = Last255
  \/ f = "string index" /\ data[1] # NotAString

(* The keys and the rules of an entry are followed by a look at            *)
(* gotFatalError; behind the last part comes BeginQuery.                   *)
GoOn(next) ==
  LET ends == next = <<>> \/ Head(next).name = "rules" IN
  IF ends /\ gotFatalError
    THEN pc' = "done" /\ UNCHANGED <<todo, handled>>
    ELSE /\ UNCHANGED pc
         /\ IF next = <<>>
              THEN todo' = EntryStart /\ Handle([host |-> entry'.host, port |-> entry'.port])
              ELSE todo' = next /\ UNCHANGED handled

Stops(how) == pc' = how /\ UNCHANGED <<parserVars, cipherVars, handled>>

Arrives(data) ==
  LET f == Head(todo).name IN
  IF f \in Indexed /\ data = <<>> THEN Stops("panic")
  ELSE IF Quits(f, data) THEN Stops("done")
  ELSE /\ fields' = IF f = "field type" THEN Append(fields, data[1]) ELSE fields
       /\ defaultPort' = IF f = "default port" THEN data ELSE defaultPort
       /\ entry' = CASE f = "flags" -> [entry EXCEPT !.byte = data[1], !.port = defaultPort]
                     [] f = "ip"    -> [entry EXCEPT !.host = data[1]]
                     [] f = "port"  -> [entry EXCEPT !.port = data]
                     [] OTHER       -> entry
       /\ IF f = "key"    \* enctypex_init
            THEN enctypeXReady' = TRUE /\ enctypeXData' = "live"
            ELSE UNCHANGED cipherVars
       /\ GoOn(After(f, data, Tail(todo)))

-----------------------------------------------------------------------------
(* waitForDataOfLen *)

Need == Head(todo).len

(* Mutant: what one Read returns is taken for the field. *)
ReadFieldOnce(n) ==
  /\ pc = "list"
  /\ waiting = "read"
  /\ Reads(n, Need)
  /\ dataBuffer' = Chunk(n)
  /\ stream' = Remaining(n)
  /\ waiting' = "check"
  /\ UNCHANGED <<session, pc, closed, connClosed, handled, histories, parserVars, cipherVars,
                 shutdownVars, gotFatalError, garbled>>

(* One Read of the loop, which goes on until the field is complete. *)
ReadField(n) ==
  /\ pc = "list"
  /\ waiting = "read"
  /\ Reads(n, Need - Len(dataBuffer))
  /\ dataBuffer' = dataBuffer \o Chunk(n)
  /\ stream' = Remaining(n)
  /\ waiting' = IF Len(dataBuffer') = Need THEN "check" ELSE "read"
  /\ UNCHANGED <<session, pc, closed, connClosed, handled, histories, parserVars, cipherVars,
                 shutdownVars, gotFatalError, garbled>>

ReadFieldFails ==
  /\ pc = "list"
  /\ waiting = "read"
  /\ waiting' = "check"
  /\ gotFatalError' = TRUE
  /\ ReadErr
  /\ UNCHANGED <<pc, handled, parserVars, cipherVars, shutdownVars, dataBuffer, garbled>>

Padding == [i \in 1..(Need - Len(dataBuffer)) |-> Zero]
Garbage == [i \in 1..Len(dataBuffer) |-> Noise]

Returns(data, isGarbage) ==
  /\ waiting' = "read"
  /\ dataBuffer' = <<>>
  /\ garbled' = garbled + (IF isGarbage /\ dataBuffer # <<>> THEN 1 ELSE 0)
  /\ Arrives(data)
  /\ UNCHANGED <<session, networkVars, histories, shutdownVars, gotFatalError>>

(* Without decryption the buffer comes as it was read, zero where nothing  *)
(* was; behind the crypt header that is cipher text.                       *)
CheckReady ==
  /\ pc = "list"
  /\ waiting = "check"
  /\ IF enctypeXReady
       THEN /\ waiting' = "decrypt"
            /\ UNCHANGED <<sessionVars, parserVars, cipherVars, shutdownVars, dataBuffer,
                           gotFatalError, garbled>>
       ELSE IF enctypeXData = "none"
         THEN Returns(dataBuffer \o Padding, FALSE)
         ELSE Returns(Garbage \o Padding, TRUE)

(* enctypex_func6 decrypts what was read, and no more is returned. *)
Decrypt ==
  /\ pc = "list"
  /\ waiting = "decrypt"
  /\ IF enctypeXData = "live" THEN Returns(dataBuffer, FALSE) ELSE Returns(Garbage, TRUE)

-----------------------------------------------------------------------------
(* Shutdown, by the watcher and by main. *)

Steps(c, from, to) == shutdownPc[c] = from /\ shutdownPc' = [shutdownPc EXCEPT ![c] = to]

notShutdown == <<session, pc, stream, closed, handled, histories, parserVars, waiting,
                 dataBuffer, gotFatalError, garbled>>

(* Mutant: the connection is left open. *)
ShutdownLeavesOpen(c) ==
  /\ pc # "panic"
  /\ Steps(c, "idle", "test")
  /\ together' = (together \/ \E d \in Callers \ {c} : shutdownPc[d] \notin {"idle", "done"})
  /\ UNCHANGED <<notShutdown, connClosed, cipherVars, freedTwice>>

ShutdownCloses(c) ==
  /\ pc # "panic"
  /\ Steps(c, "idle", "test")
  /\ connClosed' = TRUE
  /\ together' = (together \/ \E d \in Callers \ {c} : shutdownPc[d] \notin {"idle", "done"})
  /\ UNCHANGED <<notShutdown, cipherVars, freedTwice>>

(* Mutant: the memory is freed if it was ever made. *)
ShutdownTestsData(c) ==
  /\ Steps(c, "test", IF enctypeXData # "none" THEN "clear" ELSE "done")
  /\ UNCHANGED <<notShutdown, connClosed, cipherVars, together, freedTwice>>

ShutdownTests(c) ==
  /\ Steps(c, "test", IF enctypeXReady THEN "clear" ELSE "done")
  /\ UNCHANGED <<notShutdown, connClosed, cipherVars, together, freedTwice>>

ShutdownClears(c) ==
  /\ Steps(c, "clear", "free")
  /\ enctypeXReady' = FALSE
  /\ UNCHANGED <<notShutdown, connClosed, enctypeXData, together, freedTwice>>

ShutdownFrees(c) ==
  /\ Steps(c, "free", "done")
  /\ enctypeXData' = "freed"
  /\ freedTwice' = (freedTwice \/ enctypeXData = "freed")
  /\ UNCHANGED <<notShutdown, connClosed, enctypeXReady, together>>

SBV2Works == CheckReady \/ Decrypt

SBV2Fails == RequestFails \/ ReadFieldFails

SBV2Next ==
  \/ WriteListRequest
  \/ \E n \in 1..Len(stream) : ReadField(n)
  \/ SBV2Works
  \/ SBV2Fails
  \/ \E c \in Callers :
       ShutdownCloses(c) \/ ShutdownTests(c) \/ ShutdownClears(c) \/ ShutdownFrees(c)

-----------------------------------------------------------------------------
(* Properties. *)

(* While the list is read, decryption is on. *)
SBV2InStep == enctypeXData = "none" \/ enctypeXReady

SBV2GotAll == ~lost /\ garbled = 0 /\ session.popular = Zero

SBV2TypeOK ==
  /\ pc \in {"request", "list", "done", "panic"}
  /\ waiting \in {"read", "check", "decrypt"}
  /\ Len(dataBuffer) <= Need
  /\ enctypeXData \in {"none", "live", "freed"}
  /\ enctypeXReady => enctypeXData # "none"
  /\ shutdownPc \in [Callers -> {"idle", "test", "clear", "free", "done"}]

(* Shutdown is called twice: by the watcher when the context of the engine *)
(* ends, by main at the end of the run.  Its flag keeps the cipher state   *)
(* from being freed twice as long as one call is over when the other       *)
(* begins; nothing keeps them apart.                                       *)
FreedOnce == freedTwice => together

(* Shutdown closes the connection before it takes the cipher state away,   *)
(* so that whatever the reader is doing at most one field is returned      *)
(* undecrypted, or decrypted with freed memory.                            *)
GarbledOnce == session.kind = "sbv2" => garbled <= 1

(* What a garbled field spoils is the last server that is queried: all     *)
(* before it are those of the list, in its order.                          *)
OnlyLastStrange ==
  session.kind = "sbv2" =>
    \A i \in 1..Len(handled) : i < Len(handled) => handled[i] = Listing[i]
=============================================================================
