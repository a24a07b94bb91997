-------------------------- MODULE InjectedServerStore --------------------------
(***************************************************************************)
(* What the Redis handlers (Engines/OpenSpy) leave in Redis, for one game: *)
(* the hash and the custom keys of each server, the IPMAP entry of each    *)
(* address and the game's sorted set.  Every Redis command is a step, so   *)
(* that handlers of several query engines and processes, the expiry of     *)
(* keys, failed commands and the end of a process come in between.         *)
(***************************************************************************)
EXTENDS Naturals

CONSTANTS
  Handlers,         \* the output handlers that write at the same time
  Addresses,        \* the addresses answers come from
  NativeAddresses,  \* those whose servers also report to OpenSpy themselves
  Faults,           \* what may go wrong: "crash", "error"
  RefreshMode,      \* whether a process in refresh mode runs, too
  TTL,              \* SERVER_EXPIRE_TIME_SECS, in units of Tick
  MaxKeys           \* bound on the keys getServerKey creates

NoAddress == [origin |-> "nowhere"]

ASSUME StoreAssumption ==
  /\ NoAddress \notin Addresses
  /\ NativeAddresses \subseteq Addresses
  /\ Faults \subseteq {"crash", "error"}
  /\ RefreshMode \in BOOLEAN
  /\ TTL \in Nat \ {0}
  /\ MaxKeys \in Nat

(* "<game>_injected:<n>:", and the key a native server has. *)
InjectedKey(n) == [origin |-> "injected", id |-> n]
NativeKey(a) == [origin |-> "native", id |-> a]
InjectedKeys == {InjectedKey(n) : n \in 1..MaxKeys}
NativeKeys == {NativeKey(a) : a \in NativeAddresses}
Keys == InjectedKeys \cup NativeKeys
NoKey == [origin |-> "none"]

VARIABLES
  hash,         \* time each server hash has left; 0 is absent
  custkeys,     \* the same for its custom keys
  marked,       \* the hashes with the field "injected"
  wanAddress,   \* wan_ip and wan_port of each hash
  ipmap,        \* the key each address is mapped to
  ipmapLeft,    \* time each mapping has left
  game,         \* the members of the game's sorted set
  qrid,         \* the counter QRID
  pc,           \* the command each output handler issues next
  source,       \* the address each output handler works on
  serverKey,    \* the key it works on
  refreshPc,    \* where the scan of the input handler stands
  keys,         \* the members the scan has yet to look at
  itemsToDelete,\* the members the scan will remove
  lapsed        \* history: the keys without a hash at some moment of the scan

redisVars == <<hash, custkeys, marked, wanAddress, ipmap, ipmapLeft, game, qrid>>
handlerVars == <<pc, source, serverKey>>
refreshVars == <<refreshPc, keys, itemsToDelete, lapsed>>
storeVars == <<redisVars, handlerVars, refreshVars>>

(* The time left of a key without an expiry: HSet creates one. *)
Forever == TTL + 1

StoreInit ==
  /\ hash = [k \in Keys |-> 0]
  /\ custkeys = [k \in Keys |-> 0]
  /\ marked = {}
  /\ wanAddress = [k \in Keys |-> NoAddress]
  /\ ipmap = [a \in Addresses |-> NoKey]
  /\ ipmapLeft = [a \in Addresses |-> 0]
  /\ game = {}
  /\ qrid = 0
  /\ pc = [h \in Handlers |-> "idle"]
  /\ source = [h \in Handlers |-> NoAddress]
  /\ serverKey = [h \in Handlers |-> NoKey]
  /\ refreshPc = "idle"
  /\ keys = {}
  /\ itemsToDelete = {}
  /\ lapsed = {}

Idle(h) ==
  /\ pc' = [pc EXCEPT ![h] = "idle"]
  /\ source' = [source EXCEPT ![h] = NoAddress]
  /\ serverKey' = [serverKey EXCEPT ![h] = NoKey]

(* The handler goes from one command to the next. *)
Goes(h, from, to) ==
  /\ pc[h] = from
  /\ pc' = [pc EXCEPT ![h] = to]
  /\ UNCHANGED <<source, refreshVars>>

-----------------------------------------------------------------------------
(* OnServerInfoResponse: getServerKey. *)

Answer(h, a) ==
  /\ pc[h] = "idle"
  /\ pc' = [pc EXCEPT ![h] = "exists"]
  /\ source' = [source EXCEPT ![h] = a]
  /\ UNCHANGED <<redisVars, serverKey, refreshVars>>

Exists(h) ==
  /\ Goes(h, "exists", IF ipmap[source[h]] # NoKey THEN "get" ELSE "incr")
  /\ UNCHANGED <<redisVars, serverKey>>

(* The mapping may be gone since Exists; the key is empty then. *)
Get(h) ==
  /\ Goes(h, "get", "hexists")
  /\ serverKey' = [serverKey EXCEPT ![h] = ipmap[source[h]]]
  /\ UNCHANGED redisVars

(* Mutant: the server found need not be injected. *)
HExistsAny(h) ==
  /\ pc[h] = "hexists"
  /\ IF serverKey[h] # NoKey
       THEN Goes(h, "hexists", "hset") /\ UNCHANGED serverKey
       ELSE Idle(h) /\ UNCHANGED refreshVars
  /\ UNCHANGED redisVars

HExists(h) ==
  /\ pc[h] = "hexists"
  /\ IF serverKey[h] \in marked
       THEN Goes(h, "hexists", "hset") /\ UNCHANGED serverKey
       ELSE Idle(h) /\ UNCHANGED refreshVars
  /\ UNCHANGED redisVars

(* Mutant: the counter is read and written back by different steps, so     *)
(* that two handlers may see the same value.                               *)
IncrStale(h) ==
  /\ qrid < MaxKeys
  /\ Goes(h, "incr", "hset")
  /\ qrid' \in {qrid, qrid + 1} \ {0}
  /\ serverKey' = [serverKey EXCEPT ![h] = InjectedKey(qrid')]
  /\ UNCHANGED <<hash, custkeys, marked, wanAddress, ipmap, ipmapLeft, game>>

Incr(h) ==
  /\ qrid < MaxKeys
  /\ Goes(h, "incr", "hset")
  /\ qrid' = qrid + 1
  /\ serverKey' = [serverKey EXCEPT ![h] = InjectedKey(qrid + 1)]
  /\ UNCHANGED <<hash, custkeys, marked, wanAddress, ipmap, ipmapLeft, game>>

-----------------------------------------------------------------------------
(* OnServerInfoResponse: what is written. *)

(* HSet keeps the expiry of a key that exists. *)
Written(left) == IF left = 0 THEN Forever ELSE left

(* Expire does nothing to a key that does not exist. *)
Renewed(left) == IF left = 0 THEN 0 ELSE TTL

HSet(h) ==
  LET k == serverKey[h] IN
  /\ Goes(h, "hset", "hsetcust")
  /\ hash' = [hash EXCEPT ![k] = Written(@)]
  /\ marked' = marked \cup {k}
  /\ wanAddress' = [wanAddress EXCEPT ![k] = source[h]]
  /\ UNCHANGED <<custkeys, ipmap, ipmapLeft, game, qrid, serverKey>>

HSetCustkeys(h) ==
  /\ Goes(h, "hsetcust", "expire")
  /\ custkeys' = [custkeys EXCEPT ![serverKey[h]] = Written(@)]
  /\ UNCHANGED <<hash, marked, wanAddress, ipmap, ipmapLeft, game, qrid, serverKey>>

(* An answer without properties and no injectKeys: HSet without a field is *)
(* an error.                                                               *)
HSetNoCustkeys(h) ==
  /\ Goes(h, "hsetcust", "expire")
  /\ UNCHANGED <<redisVars, serverKey>>

(* Mutant: the expiry of the custom keys is forgotten. *)
ExpireOnlyHash(h) ==
  /\ Goes(h, "expire", "set")
  /\ hash' = [hash EXCEPT ![serverKey[h]] = Renewed(@)]
  /\ UNCHANGED <<custkeys, marked, wanAddress, ipmap, ipmapLeft, game, qrid, serverKey>>

Expire(h) ==
  /\ Goes(h, "expire", "expirecust")
  /\ hash' = [hash EXCEPT ![serverKey[h]] = Renewed(@)]
  /\ UNCHANGED <<custkeys, marked, wanAddress, ipmap, ipmapLeft, game, qrid, serverKey>>

ExpireCustkeys(h) ==
  /\ Goes(h, "expirecust", "set")
  /\ custkeys' = [custkeys EXCEPT ![serverKey[h]] = Renewed(@)]
  /\ UNCHANGED <<hash, marked, wanAddress, ipmap, ipmapLeft, game, qrid, serverKey>>

(* Mutant: a mapping that exists keeps the time it has left. *)
SetKeepsExpiry(h) ==
  /\ Goes(h, "set", "expireipmap")
  /\ ipmap' = [ipmap EXCEPT ![source[h]] = serverKey[h]]
  /\ ipmapLeft' = [ipmapLeft EXCEPT ![source[h]] = IF @ = 0 THEN TTL ELSE @]
  /\ UNCHANGED <<hash, custkeys, marked, wanAddress, game, qrid, serverKey>>

(* Mutant: the mapping is set without an expiry. *)
SetForever(h) ==
  /\ Goes(h, "set", "expireipmap")
  /\ ipmap' = [ipmap EXCEPT ![source[h]] = serverKey[h]]
  /\ ipmapLeft' = [ipmapLeft EXCEPT ![source[h]] = Forever]
  /\ UNCHANGED <<hash, custkeys, marked, wanAddress, game, qrid, serverKey>>

(* Set gives the mapping its expiry. *)
Set(h) ==
  /\ Goes(h, "set", "expireipmap")
  /\ ipmap' = [ipmap EXCEPT ![source[h]] = serverKey[h]]
  /\ ipmapLeft' = [ipmapLeft EXCEPT ![source[h]] = TTL]
  /\ UNCHANGED <<hash, custkeys, marked, wanAddress, game, qrid, serverKey>>

(* The Expire after Set repeats that; after a Set that failed it renews    *)
(* the mapping of before.                                                  *)
ExpireIpmap(h) ==
  /\ Goes(h, "expireipmap", "zincrby")
  /\ ipmapLeft' = [ipmapLeft EXCEPT ![source[h]] = Renewed(@)]
  /\ UNCHANGED <<hash, custkeys, marked, wanAddress, ipmap, game, qrid, serverKey>>

ZIncrBy(h) ==
  /\ pc[h] = "zincrby"
  /\ game' = game \cup {serverKey[h]}
  /\ Idle(h)
  /\ UNCHANGED <<hash, custkeys, marked, wanAddress, ipmap, ipmapLeft, qrid, refreshVars>>

-----------------------------------------------------------------------------
(* What may go wrong. *)

(* What the handler does next if the command that is due fails: the errors *)
(* of all but Incr are ignored, and those of reads mean "no".              *)
AfterError ==
  [exists |-> "incr", get |-> "hexists", hset |-> "hsetcust",
   hsetcust |-> "expire", expire |-> "expirecust", expirecust |-> "set",
   set |-> "expireipmap", expireipmap |-> "zincrby"]

CommandFails(h) ==
  /\ "error" \in Faults
  /\ pc[h] \in DOMAIN AfterError
  /\ Goes(h, pc[h], AfterError[pc[h]])
  /\ UNCHANGED <<redisVars, serverKey>>

(* The handler is through, or, with Incr, its process ends. *)
LastCommandFails(h) ==
  /\ "error" \in Faults
  /\ pc[h] \in {"hexists", "zincrby", "incr"}
  /\ Idle(h)
  /\ UNCHANGED <<redisVars, refreshVars>>

(* The process ends under the handler: main returns, or another goroutine  *)
(* calls log.Fatal.  The next process starts afresh.                       *)
Crash(h) ==
  /\ "crash" \in Faults
  /\ pc[h] # "idle"
  /\ Idle(h)
  /\ UNCHANGED <<redisVars, refreshVars>>

-----------------------------------------------------------------------------
(* The input handler: refresh mode. *)

(* The scan gives 50 members at a time; the sets of the model are smaller. *)
ZScan ==
  /\ RefreshMode
  /\ refreshPc = "idle"
  /\ refreshPc' = "scan"
  /\ keys' = game
  /\ lapsed' = {k \in Keys : hash[k] = 0}
  /\ UNCHANGED <<redisVars, handlerVars, itemsToDelete>>

(* Mutant: every member looked at will be removed. *)
HMGetDrop(k) ==
  /\ refreshPc = "scan"
  /\ k \in keys
  /\ keys' = keys \ {k}
  /\ itemsToDelete' = itemsToDelete \cup {k}
  /\ UNCHANGED <<redisVars, handlerVars, refreshPc, lapsed>>

(* A member without wan_ip, wan_port or injected will be removed; one that *)
(* has them is asked again.                                                *)
HMGet(k) ==
  /\ refreshPc = "scan"
  /\ k \in keys
  /\ keys' = keys \ {k}
  /\ itemsToDelete' = IF k \in marked THEN itemsToDelete ELSE itemsToDelete \cup {k}
  /\ UNCHANGED <<redisVars, handlerVars, refreshPc, lapsed>>

HMGetFails(k) ==
  /\ "error" \in Faults
  /\ refreshPc = "scan"
  /\ k \in keys
  /\ keys' = keys \ {k}
  /\ UNCHANGED <<redisVars, handlerVars, refreshPc, itemsToDelete, lapsed>>

ZRem ==
  /\ refreshPc = "scan"
  /\ keys = {}
  /\ refreshPc' = "idle"
  /\ game' = game \ itemsToDelete
  /\ itemsToDelete' = {}
  /\ lapsed' = {}
  /\ UNCHANGED <<hash, custkeys, marked, wanAddress, ipmap, ipmapLeft, qrid,
                 handlerVars, keys>>

(* The process ends before ZRem, or ZRem fails. *)
RefreshFails ==
  /\ Faults # {}
  /\ refreshPc = "scan"
  /\ refreshPc' = "idle"
  /\ keys' = {}
  /\ itemsToDelete' = {}
  /\ lapsed' = {}
  /\ UNCHANGED <<redisVars, handlerVars>>

-----------------------------------------------------------------------------
(* Around the handlers. *)

(* One unit of time, which passes between any two commands; a key whose    *)
(* time is over is gone with its fields.                                   *)
Elapsed(left) == IF left \in 1..TTL THEN left - 1 ELSE left

Tick ==
  /\ hash' = [k \in Keys |-> Elapsed(hash[k])]
  /\ custkeys' = [k \in Keys |-> Elapsed(custkeys[k])]
  /\ ipmapLeft' = [a \in Addresses |-> Elapsed(ipmapLeft[a])]
  /\ marked' = {k \in marked : hash'[k] # 0}
  /\ wanAddress' = [k \in Keys |-> IF hash'[k] = 0 THEN NoAddress ELSE wanAddress[k]]
  /\ ipmap' = [a \in Addresses |-> IF ipmapLeft'[a] = 0 THEN NoKey ELSE ipmap[a]]
  /\ lapsed' = IF refreshPc = "scan" THEN lapsed \cup {k \in Keys : hash'[k] = 0} ELSE {}
  /\ UNCHANGED <<game, qrid, handlerVars, refreshPc, keys, itemsToDelete>>

(* OpenSpy's own front end: a server that reports itself has a hash        *)
(* without the field "injected", by which getServerKey tells it apart.     *)
NativeReports(a) ==
  LET k == NativeKey(a) IN
  /\ hash' = [hash EXCEPT ![k] = TTL]
  /\ custkeys' = [custkeys EXCEPT ![k] = TTL]
  /\ wanAddress' = [wanAddress EXCEPT ![k] = a]
  /\ ipmap' = [ipmap EXCEPT ![a] = k]
  /\ ipmapLeft' = [ipmapLeft EXCEPT ![a] = TTL]
  /\ game' = game \cup {k}
  /\ UNCHANGED <<marked, qrid, handlerVars, refreshVars>>

getServerKey(h) == Exists(h) \/ Get(h) \/ HExists(h) \/ Incr(h)

OnServerInfoResponse(h) ==
  \/ getServerKey(h)
  \/ HSet(h) \/ HSetCustkeys(h) \/ HSetNoCustkeys(h)
  \/ Expire(h) \/ ExpireCustkeys(h)
  \/ Set(h) \/ ExpireIpmap(h) \/ ZIncrBy(h)

StoreNext ==
  \/ \E h \in Handlers :
       \/ \E a \in Addresses : Answer(h, a)
       \/ OnServerInfoResponse(h)
       \/ CommandFails(h) \/ LastCommandFails(h) \/ Crash(h)
  \/ ZScan \/ ZRem \/ RefreshFails
  \/ \E k \in Keys : HMGet(k) \/ HMGetFails(k)
  \/ Tick
  \/ \E a \in NativeAddresses : NativeReports(a)

StoreSpec == StoreInit /\ [][StoreNext]_storeVars

-----------------------------------------------------------------------------
(* Properties. *)

Commands == {"exists", "get", "hexists", "incr", "hset", "hsetcust", "expire",
             "expirecust", "set", "expireipmap", "zincrby"}

(* Every variable has its type, a hash has its fields as long as it is     *)
(* there, and a mapping its key.                                           *)
StoreTypeOK ==
  /\ hash \in [Keys -> 0..Forever]
  /\ custkeys \in [Keys -> 0..Forever]
  /\ marked \subseteq {k \in Keys : hash[k] # 0}
  /\ wanAddress \in [Keys -> Addresses \cup {NoAddress}]
  /\ \A k \in Keys : wanAddress[k] = NoAddress <=> hash[k] = 0
  /\ ipmap \in [Addresses -> Keys \cup {NoKey}]
  /\ ipmapLeft \in [Addresses -> 0..TTL]
  /\ \A a \in Addresses : ipmap[a] = NoKey <=> ipmapLeft[a] = 0
  /\ game \subseteq Keys
  /\ qrid \in 0..MaxKeys
  /\ pc \in [Handlers -> {"idle"} \cup Commands]
  /\ source \in [Handlers -> Addresses \cup {NoAddress}]
  /\ serverKey \in [Handlers -> Keys \cup {NoKey}]
  /\ refreshPc \in {"idle", "scan"}
  /\ keys \subseteq Keys
  /\ itemsToDelete \subseteq Keys
  /\ lapsed \subseteq Keys

(* Some handler has written to k and not come to the command that sets    *)
(* this expiry.                                                            *)
Owes(k, commands) == \E h \in Handlers : serverKey[h] = k /\ pc[h] \in commands

(* "set expiry": nothing that was written stays for good, unless a handler *)
(* is just about to give it its expiry.                                    *)
EverythingExpires ==
  \A k \in Keys :
    /\ hash[k] = Forever => Owes(k, {"hsetcust", "expire"})
    /\ custkeys[k] = Forever => Owes(k, {"expire", "expirecust"})

(* The mapping of an address leads to the server at that address, also     *)
(* when several handlers create keys at once and whatever fails: keys are  *)
(* never shared by servers (Incr).                                         *)
IpmapNamesItsServer ==
  \A a \in Addresses :
    (ipmap[a] # NoKey /\ wanAddress[ipmap[a]] # NoAddress) =>
      wanAddress[ipmap[a]] = a

(* As long as a server's hash lives, a new answer finds the mapping of its *)
(* address (Expire before Set), so that it does not get another key.       *)
FoundWhileAlive ==
  \A k \in Keys :
    hash[k] <= (IF wanAddress[k] = NoAddress THEN 0 ELSE ipmapLeft[wanAddress[k]])
      \/ Owes(k, {"hsetcust", "expire", "expirecust", "set"})

(* "if injected, return id": a server is in the list under one key. *)
OneKeyPerServer ==
  \A k, l \in marked \cap game : wanAddress[k] = wanAddress[l] => k = l

(* "this was not an injected server?? just ignore": whatever a handler     *)
(* read before, it never writes to the hash of a native server.            *)
NativeHashUntouched == marked \cap NativeKeys = {}

(* Refresh mode (ZRem of what HMGet found no fields of) takes no injected  *)
(* server off the list whose hash lived all through the scan.  One that a  *)
(* handler has written again since the scan found it gone may well be      *)
(* taken off.                                                              *)
RefreshSparesLive ==
  [][game \ game' \subseteq NativeKeys \cup lapsed]_storeVars

(* "Only refresh existing injected servers": a server that reports to      *)
(* OpenSpy itself stays on the list as long as its hash lives.             *)
NativeStaysListed ==
  \A k \in NativeKeys : hash[k] # 0 => k \in game
=============================================================================
