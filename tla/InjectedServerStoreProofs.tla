----------------------- MODULE InjectedServerStoreProofs -----------------------
(***************************************************************************)
(* Theorems about InjectedServerStore, for every set of handlers and       *)
(* addresses, every expiry time and every bound on the keys.               *)
(*                                                                         *)
(* First what the handlers may do to each other; then what relates the key *)
(* of a server to the other handlers, the scan and the expiry: a server    *)
(* that lives is found, is on the list once, and stays there.              *)
(***************************************************************************)
EXTENDS InjectedServerStore, TLAPS

-----------------------------------------------------------------------------
(* The strengthening of StoreTypeOK. *)

Writing == {"hset", "hsetcust", "expire", "expirecust", "set", "expireipmap",
            "zincrby"}

(* A handler at work has an address, and one that writes has an injected   *)
(* key that was created already.                                           *)
HandlerInv ==
  \A h \in Handlers :
    /\ pc[h] # "idle" => source[h] \in Addresses
    /\ pc[h] \in Writing => serverKey[h] \in InjectedKeys

StoreInv == StoreTypeOK /\ HandlerInv /\ marked \subseteq InjectedKeys

-----------------------------------------------------------------------------
(* Keys. *)

LEMMA KeyFacts ==
  /\ NoKey \notin Keys
  /\ InjectedKeys \subseteq Keys
  /\ NativeKeys \subseteq Keys
  /\ InjectedKeys \cap NativeKeys = {}
<1>1. \A k \in InjectedKeys : k.origin = "injected"
  BY DEF InjectedKeys, InjectedKey
<1>2. \A k \in NativeKeys : k.origin = "native"
  BY DEF NativeKeys, NativeKey
<1>3. NoKey.origin = "none"
  BY DEF NoKey
<1> QED
  BY <1>1, <1>2, <1>3 DEF Keys

LEMMA LeftFacts ==
  /\ TTL \in Nat \ {0}
  /\ \A left \in 0..Forever :
       /\ Written(left) \in 1..Forever
       /\ Renewed(left) \in 0..TTL
       /\ Renewed(left) = 0 <=> left = 0
       /\ Elapsed(left) \in 0..Forever
       /\ left = 0 => Elapsed(left) = 0
       /\ left \in 0..TTL => Elapsed(left) \in 0..TTL
       /\ Elapsed(left) = Forever => left = Forever
BY StoreAssumption DEF Forever, Written, Renewed, Elapsed

-----------------------------------------------------------------------------
(* StoreInv is inductive. *)

LEMMA InitStoreInv ==
  ASSUME StoreInit
  PROVE  StoreInv
<1>1. StoreTypeOK
  BY StoreAssumption, KeyFacts, LeftFacts
  DEF StoreInit, StoreTypeOK, Commands, Forever
<1>2. HandlerInv
  BY DEF StoreInit, HandlerInv, Writing
<1> QED
  BY <1>1, <1>2 DEF StoreInit, StoreInv

(* The part of StoreInv about the handlers. *)
HandlerType ==
  /\ pc \in [Handlers -> {"idle"} \cup Commands]
  /\ source \in [Handlers -> Addresses \cup {NoAddress}]
  /\ serverKey \in [Handlers -> Keys \cup {NoKey}]
  /\ HandlerInv

(* The part of StoreInv about the scan. *)
RefreshType ==
  /\ refreshPc \in {"idle", "scan"}
  /\ keys \subseteq Keys
  /\ itemsToDelete \subseteq Keys
  /\ lapsed \subseteq Keys

(* The part of StoreInv about Redis. *)
RedisType ==
  /\ hash \in [Keys -> 0..Forever]
  /\ custkeys \in [Keys -> 0..Forever]
  /\ marked \subseteq {k \in Keys : hash[k] # 0}
  /\ wanAddress \in [Keys -> Addresses \cup {NoAddress}]
  /\ \A k \in Keys : wanAddress[k] = NoAddress <=> hash[k] = 0
  /\ ipmap \in [Addresses -> Keys \cup {NoKey}]
  /\ ipmapLeft \in [Addresses -> 0..TTL]
  /\ \A a \in Addresses : ipmap[a] = NoKey <=> ipmapLeft[a] = 0
  /\ game \subseteq Keys
  /\ qrid \in 0..MaxKeys
  /\ marked \subseteq InjectedKeys

LEMMA StoreInvParts == StoreInv <=> HandlerType /\ RefreshType /\ RedisType
BY DEF StoreInv, StoreTypeOK, HandlerType, RefreshType, RedisType

LEMMA StoreInvPartsNext == StoreInv' <=> HandlerType' /\ RefreshType' /\ RedisType'
BY DEF StoreInv, StoreTypeOK, HandlerInv, HandlerType, RefreshType, RedisType

(* A handler that is through leaves the other handlers alone. *)
LEMMA IdleType ==
  ASSUME HandlerType, NEW h \in Handlers, Idle(h)
  PROVE  HandlerType'
BY DEF HandlerType, HandlerInv, Idle, Writing, Commands

(* So does one that goes to its next command with the key it has. *)
LEMMA GoesType ==
  ASSUME HandlerType, NEW h \in Handlers, NEW from \in Commands, NEW to \in Commands,
         Goes(h, from, to), UNCHANGED serverKey,
         to \in Writing => serverKey[h] \in InjectedKeys
  PROVE  HandlerType'
BY DEF HandlerType, HandlerInv, Goes, Writing, Commands

(* The same for one that has found its key. *)
LEMMA GoesWithKeyType ==
  ASSUME HandlerType, NEW h \in Handlers, NEW from \in Commands, NEW to \in Commands,
         NEW k \in Keys \cup {NoKey},
         Goes(h, from, to), serverKey' = [serverKey EXCEPT ![h] = k],
         to \in Writing => k \in InjectedKeys
  PROVE  HandlerType'
BY DEF HandlerType, HandlerInv, Goes, Writing, Commands

LEMMA AtWork ==
  ASSUME HandlerType, NEW h \in Handlers
  PROVE  /\ pc[h] # "idle" => source[h] \in Addresses
         /\ pc[h] \in Writing => serverKey[h] \in InjectedKeys /\ serverKey[h] \in Keys
BY KeyFacts DEF HandlerType, HandlerInv

LEMMA NextStoreInv ==
  ASSUME StoreInv, [StoreNext]_storeVars
  PROVE  StoreInv'
<1> USE StoreInvParts, StoreInvPartsNext
<1>1. HandlerType /\ RefreshType /\ RedisType
  OBVIOUS
<1>2. SUFFICES HandlerType' /\ RefreshType' /\ RedisType'
  OBVIOUS
<1>3. ASSUME UNCHANGED handlerVars PROVE HandlerType'
  BY <1>1, <1>3 DEF handlerVars, HandlerType, HandlerInv
<1>4. ASSUME UNCHANGED refreshVars PROVE RefreshType'
  BY <1>1, <1>4 DEF refreshVars, RefreshType
<1>5. ASSUME UNCHANGED redisVars PROVE RedisType'
  BY <1>1, <1>5 DEF redisVars, RedisType
<1>6. ASSUME NEW h \in Handlers, NEW a \in Addresses, Answer(h, a)
      PROVE  HandlerType' /\ RefreshType' /\ RedisType'
  <2>1. HandlerType'
    BY <1>1, <1>6 DEF Answer, HandlerType, HandlerInv, Writing, Commands
  <2> QED
    BY <2>1, <1>4, <1>5, <1>6 DEF Answer
<1>7. ASSUME NEW h \in Handlers, getServerKey(h)
      PROVE  HandlerType' /\ RefreshType' /\ RedisType'
  <2>1. CASE Exists(h)
    <3>1. HandlerType'
      BY <1>1, <2>1, GoesType DEF Exists, Commands, Writing
    <3> QED
      BY <3>1, <1>4, <1>5, <2>1 DEF Exists, Goes
  <2>2. CASE Get(h)
    <3>1. ipmap[source[h]] \in Keys \cup {NoKey}
      BY <1>1, <2>2, AtWork DEF Get, Goes, RedisType
    <3>2. HandlerType'
      BY <1>1, <2>2, <3>1, GoesWithKeyType DEF Get, Commands, Writing
    <3> QED
      BY <3>2, <1>4, <1>5, <2>2 DEF Get, Goes
  <2>3. CASE HExists(h)
    <3>1. HandlerType'
      <4>1. CASE serverKey[h] \in marked
        <5>1. serverKey[h] \in InjectedKeys
          BY <1>1, <4>1 DEF RedisType
        <5> QED
          BY <1>1, <2>3, <4>1, <5>1, GoesType DEF HExists, Commands
      <4>2. CASE serverKey[h] \notin marked
        BY <1>1, <2>3, <4>2, IdleType DEF HExists
      <4> QED
        BY <4>1, <4>2
    <3> QED
      BY <3>1, <1>4, <1>5, <2>3 DEF HExists, Goes
  <2>4. CASE Incr(h)
    <3>1. qrid + 1 \in 1..MaxKeys /\ qrid' \in 0..MaxKeys
      BY <1>1, <2>4, StoreAssumption DEF Incr, RedisType
    <3>2. InjectedKey(qrid + 1) \in InjectedKeys
      BY <3>1 DEF InjectedKeys
    <3>3. HandlerType'
      BY <1>1, <2>4, <3>2, KeyFacts, GoesWithKeyType DEF Incr, Commands
    <3>4. RedisType'
      BY <1>1, <2>4, <3>1 DEF Incr, RedisType
    <3> QED
      BY <3>3, <3>4, <1>4, <2>4 DEF Incr, Goes
  <2> QED
    BY <1>7, <2>1, <2>2, <2>3, <2>4 DEF getServerKey
<1>8. ASSUME NEW h \in Handlers,
             \/ HSet(h) \/ HSetCustkeys(h) \/ HSetNoCustkeys(h)
             \/ Expire(h) \/ ExpireCustkeys(h) \/ Set(h) \/ ExpireIpmap(h)
             \/ ZIncrBy(h)
      PROVE  HandlerType' /\ RefreshType' /\ RedisType'
  <2>1. /\ source[h] \in Addresses
        /\ source[h] # NoAddress
        /\ serverKey[h] \in InjectedKeys
        /\ serverKey[h] \in Keys
        /\ serverKey[h] # NoKey
    BY <1>1, <1>8, AtWork, KeyFacts, StoreAssumption
    DEF HSet, HSetCustkeys, HSetNoCustkeys, Expire, ExpireCustkeys, Set, ExpireIpmap,
        ZIncrBy, Goes, Writing
  <2>2. RefreshType'
    BY <1>4, <1>8
    DEF HSet, HSetCustkeys, HSetNoCustkeys, Expire, ExpireCustkeys, Set, ExpireIpmap,
        ZIncrBy, Goes
  <2>3. HandlerType'
    <3>1. CASE ZIncrBy(h)
      BY <1>1, <3>1, IdleType DEF ZIncrBy
    <3>2. CASE HSet(h)
      BY <1>1, <2>1, <3>2, GoesType DEF HSet, Commands
    <3>3. CASE HSetCustkeys(h)
      BY <1>1, <2>1, <3>3, GoesType DEF HSetCustkeys, Commands
    <3>4. CASE HSetNoCustkeys(h)
      BY <1>1, <2>1, <3>4, GoesType DEF HSetNoCustkeys, Commands
    <3>5. CASE Expire(h)
      BY <1>1, <2>1, <3>5, GoesType DEF Expire, Commands
    <3>6. CASE ExpireCustkeys(h)
      BY <1>1, <2>1, <3>6, GoesType DEF ExpireCustkeys, Commands
    <3>7. CASE Set(h)
      BY <1>1, <2>1, <3>7, GoesType DEF Set, Commands
    <3>8. CASE ExpireIpmap(h)
      BY <1>1, <2>1, <3>8, GoesType DEF ExpireIpmap, Commands
    <3> QED
      BY <1>8, <3>1, <3>2, <3>3, <3>4, <3>5, <3>6, <3>7, <3>8
  <2>4. RedisType'
    <3>1. CASE HSet(h)
      <4> DEFINE left == hash[serverKey[h]]
      <4>1. Written(left) \in 1..Forever /\ Forever \in Nat
        BY <1>1, <2>1, LeftFacts DEF RedisType, Forever
      <4>2. /\ hash' = [hash EXCEPT ![serverKey[h]] = Written(left)]
            /\ marked' = marked \cup {serverKey[h]}
            /\ wanAddress' = [wanAddress EXCEPT ![serverKey[h]] = source[h]]
            /\ UNCHANGED <<custkeys, ipmap, ipmapLeft, game, qrid>>
        BY <3>1 DEF HSet
      <4> QED
        BY <1>1, <2>1, <4>1, <4>2 DEF RedisType
    <3>2. CASE HSetCustkeys(h)
      BY <1>1, <2>1, <3>2, LeftFacts DEF HSetCustkeys, RedisType, Forever
    <3>3. CASE HSetNoCustkeys(h)
      BY <1>5, <3>3 DEF HSetNoCustkeys
    <3>4. CASE Expire(h)
      BY <1>1, <2>1, <3>4, LeftFacts DEF Expire, RedisType, Forever
    <3>5. CASE ExpireCustkeys(h)
      BY <1>1, <2>1, <3>5, LeftFacts DEF ExpireCustkeys, RedisType, Forever
    <3>6. CASE Set(h)
      BY <1>1, <2>1, <3>6, LeftFacts DEF Set, RedisType
    <3>7. CASE ZIncrBy(h)
      BY <1>1, <2>1, <3>7 DEF ZIncrBy, RedisType
    <3>8. CASE ExpireIpmap(h)
      BY <1>1, <2>1, <3>8, StoreAssumption DEF ExpireIpmap, Renewed, RedisType
    <3> QED
      BY <1>8, <3>1, <3>2, <3>3, <3>4, <3>5, <3>6, <3>7, <3>8
  <2> QED
    BY <2>2, <2>3, <2>4
<1>9. ASSUME NEW h \in Handlers, CommandFails(h) \/ LastCommandFails(h) \/ Crash(h)
      PROVE  HandlerType' /\ RefreshType' /\ RedisType'
  <2>1. CASE CommandFails(h)
    <3>1. /\ pc[h] \in Commands
          /\ AfterError[pc[h]] \in Commands
          /\ AfterError[pc[h]] \in Writing => pc[h] \in Writing
      BY <2>1 DEF CommandFails, AfterError, Commands, Writing
    <3>2. AfterError[pc[h]] \in Writing => serverKey[h] \in InjectedKeys
      BY <1>1, <3>1, AtWork
    <3>3. HandlerType'
      BY <1>1, <2>1, <3>1, <3>2, GoesType DEF CommandFails
    <3> QED
      BY <3>3, <1>4, <1>5, <2>1 DEF CommandFails, Goes
  <2>2. CASE LastCommandFails(h)
    BY <1>1, <1>4, <1>5, <2>2, IdleType DEF LastCommandFails
  <2>3. CASE Crash(h)
    BY <1>1, <1>4, <1>5, <2>3, IdleType DEF Crash
  <2> QED
    BY <1>9, <2>1, <2>2, <2>3
<1>10. ASSUME ZScan \/ ZRem \/ RefreshFails
       PROVE  HandlerType' /\ RefreshType' /\ RedisType'
  <2>1. CASE ZScan
    <3>1. RefreshType'
      BY <1>1, <2>1 DEF ZScan, RefreshType, RedisType
    <3> QED
      BY <3>1, <1>3, <1>5, <2>1 DEF ZScan
  <2>2. CASE ZRem
    <3>1. RefreshType' /\ RedisType'
      BY <1>1, <2>2 DEF ZRem, RefreshType, RedisType
    <3> QED
      BY <3>1, <1>3, <2>2 DEF ZRem
  <2>3. CASE RefreshFails
    <3>1. RefreshType'
      BY <1>1, <2>3 DEF RefreshFails, RefreshType
    <3> QED
      BY <3>1, <1>3, <1>5, <2>3 DEF RefreshFails
  <2> QED
    BY <1>10, <2>1, <2>2, <2>3
<1>11. ASSUME NEW k \in Keys, HMGet(k) \/ HMGetFails(k)
       PROVE  HandlerType' /\ RefreshType' /\ RedisType'
  <2>1. RefreshType'
    BY <1>1, <1>11 DEF HMGet, HMGetFails, RefreshType
  <2> QED
    BY <2>1, <1>3, <1>5, <1>11 DEF HMGet, HMGetFails
<1>12. ASSUME Tick
       PROVE  HandlerType' /\ RefreshType' /\ RedisType'
  <2>1. /\ hash' \in [Keys -> 0..Forever]
        /\ custkeys' \in [Keys -> 0..Forever]
    BY <1>1, <1>12, LeftFacts DEF Tick, RedisType
  <2>2. ipmapLeft' \in [Addresses -> 0..TTL]
    BY <1>1, <1>12, LeftFacts DEF Tick, RedisType, Forever
  <2>3. \A k \in Keys : hash[k] = 0 => hash'[k] = 0
    BY <1>1, <1>12, LeftFacts DEF Tick, RedisType
  <2>4. \A a \in Addresses : ipmapLeft[a] = 0 => ipmapLeft'[a] = 0
    BY <1>1, <1>12 DEF Tick, RedisType, Elapsed
  <2>5. /\ wanAddress' \in [Keys -> Addresses \cup {NoAddress}]
        /\ \A k \in Keys : wanAddress'[k] = NoAddress <=> hash'[k] = 0
    BY <1>1, <1>12, <2>3 DEF Tick, RedisType
  <2>6. /\ ipmap' \in [Addresses -> Keys \cup {NoKey}]
        /\ \A a \in Addresses : ipmap'[a] = NoKey <=> ipmapLeft'[a] = 0
    BY <1>1, <1>12, <2>4 DEF Tick, RedisType
  <2>7. /\ marked' \subseteq {k \in Keys : hash'[k] # 0}
        /\ marked' \subseteq InjectedKeys
        /\ UNCHANGED <<game, qrid>>
    BY <1>1, <1>12 DEF Tick, RedisType
  <2>8. RedisType'
    BY <1>1, <2>1, <2>2, <2>5, <2>6, <2>7 DEF RedisType
  <2>9. RefreshType'
    BY <1>1, <1>12 DEF Tick, RefreshType
  <2> QED
    BY <2>8, <2>9, <1>3, <1>12 DEF Tick
<1>13. ASSUME NEW a \in NativeAddresses, NativeReports(a)
       PROVE  HandlerType' /\ RefreshType' /\ RedisType'
  <2> DEFINE k == NativeKey(a)
  <2>1. /\ a \in Addresses
        /\ a # NoAddress
        /\ k \in Keys
        /\ k # NoKey
    BY KeyFacts, StoreAssumption DEF NativeKeys
  <2>2. TTL \in 1..Forever /\ TTL \in 0..TTL
    BY LeftFacts DEF Forever
  <2>3. /\ hash' = [hash EXCEPT ![k] = TTL]
        /\ custkeys' = [custkeys EXCEPT ![k] = TTL]
        /\ wanAddress' = [wanAddress EXCEPT ![k] = a]
        /\ ipmap' = [ipmap EXCEPT ![a] = k]
        /\ ipmapLeft' = [ipmapLeft EXCEPT ![a] = TTL]
        /\ game' = game \cup {k}
        /\ UNCHANGED <<marked, qrid>>
    BY <1>13 DEF NativeReports
  <2> HIDE DEF k
  <2>4. RedisType'
    BY <1>1, <2>1, <2>2, <2>3 DEF RedisType
  <2> QED
    BY <2>4, <1>3, <1>4, <1>13 DEF NativeReports
<1>14. CASE UNCHANGED storeVars
  BY <1>3, <1>4, <1>5, <1>14 DEF storeVars
<1> QED
  BY <1>6, <1>7, <1>8, <1>9, <1>10, <1>11, <1>12, <1>13, <1>14
  DEF StoreNext, OnServerInfoResponse

(* What the handlers and the scan keep of Redis has its type, for every    *)
(* set of handlers and addresses and every combination of faults.          *)
THEOREM StoreTypes == StoreSpec => []StoreTypeOK
<1>1. StoreInit => StoreInv
  BY InitStoreInv
<1>2. StoreInv /\ [StoreNext]_storeVars => StoreInv'
  BY NextStoreInv
<1>3. StoreInv => StoreTypeOK
  BY DEF StoreInv
<1> QED
  BY <1>1, <1>2, <1>3, PTL DEF StoreSpec

(* No handler ever writes to the hash of a native server, whatever other   *)
(* handlers, expiry and faults do between its commands.                    *)
THEOREM StoreNativeHashUntouched == StoreSpec => []NativeHashUntouched
<1>1. StoreInit => StoreInv
  BY InitStoreInv
<1>2. StoreInv /\ [StoreNext]_storeVars => StoreInv'
  BY NextStoreInv
<1>3. StoreInv => NativeHashUntouched
  BY KeyFacts DEF StoreInv, NativeHashUntouched
<1> QED
  BY <1>1, <1>2, <1>3, PTL DEF StoreSpec

-----------------------------------------------------------------------------
(* Everything expires. *)

HashCommands == {"hsetcust", "expire"}
CustkeysCommands == {"expire", "expirecust"}
MappingCommands == {"hsetcust", "expire", "expirecust", "set"}

(* A step of h to the command d, after which it may work on another key. *)
HandlerStep(h, d) ==
  /\ pc' = [pc EXCEPT ![h] = d]
  /\ \A g \in Handlers \ {h} : serverKey'[g] = serverKey[g]

(* A debt is only lost by a step of the handler that has it. *)
LEMMA OwesStep ==
  ASSUME HandlerType, NEW h \in Handlers, NEW d, HandlerStep(h, d),
         NEW k \in Keys,
         NEW S \in {HashCommands, CustkeysCommands, MappingCommands}, Owes(k, S),
         serverKey[h] = k /\ pc[h] \in S => serverKey'[h] = k /\ d \in S
  PROVE  Owes(k, S)'
<1>1. PICK g \in Handlers : serverKey[g] = k /\ pc[g] \in S
  BY DEF Owes
<1>2. CASE g = h
  <2>1. pc'[h] = d
    BY DEF HandlerStep, HandlerType
  <2> QED
    BY <1>1, <1>2, <2>1 DEF Owes
<1>3. CASE g # h
  <2>1. pc'[g] = pc[g] /\ serverKey'[g] = serverKey[g]
    BY <1>3 DEF HandlerStep, HandlerType
  <2> QED
    BY <1>1, <2>1 DEF Owes
<1> QED
  BY <1>2, <1>3

LEMMA IdleStep ==
  ASSUME HandlerType, NEW h \in Handlers, Idle(h)
  PROVE  HandlerStep(h, "idle")
BY DEF HandlerStep, Idle, HandlerType

LEMMA GoesStep ==
  ASSUME HandlerType, NEW h \in Handlers, NEW from, NEW to, Goes(h, from, to),
         \/ UNCHANGED serverKey
         \/ \E k : serverKey' = [serverKey EXCEPT ![h] = k]
  PROVE  HandlerStep(h, to)
BY DEF HandlerStep, Goes, HandlerType

LEMMA NextEverythingExpires ==
  ASSUME Faults = {}, StoreInv, EverythingExpires, [StoreNext]_storeVars
  PROVE  EverythingExpires'
<1>1. HandlerType /\ RedisType
  BY StoreInvParts
<1>2. \A left \in 0..Forever : Renewed(left) # Forever /\ TTL # Forever /\ 0 # Forever
  BY LeftFacts DEF Forever
<1>3. \A k \in Keys :
        /\ hash[k] = Forever => Owes(k, HashCommands)
        /\ custkeys[k] = Forever => Owes(k, CustkeysCommands)
  BY DEF EverythingExpires, HashCommands, CustkeysCommands
<1>4. SUFFICES ASSUME NEW k \in Keys
               PROVE  /\ hash'[k] = Forever => Owes(k, HashCommands)'
                      /\ custkeys'[k] = Forever => Owes(k, CustkeysCommands)'
  BY DEF EverythingExpires, HashCommands, CustkeysCommands
<1>5. ASSUME UNCHANGED handlerVars,
             hash'[k] = Forever => hash[k] = Forever,
             custkeys'[k] = Forever => custkeys[k] = Forever
      PROVE  /\ hash'[k] = Forever => Owes(k, HashCommands)'
             /\ custkeys'[k] = Forever => Owes(k, CustkeysCommands)'
  BY <1>3, <1>5 DEF handlerVars, Owes
<1>6. ASSUME NEW h \in Handlers, NEW d, HandlerStep(h, d),
             pc[h] \notin HashCommands \cup CustkeysCommands,
             UNCHANGED <<hash, custkeys>>
      PROVE  /\ hash'[k] = Forever => Owes(k, HashCommands)'
             /\ custkeys'[k] = Forever => Owes(k, CustkeysCommands)'
  BY <1>1, <1>3, <1>6, OwesStep
<1>7. ASSUME NEW h \in Handlers, NEW a \in Addresses, Answer(h, a)
      PROVE  /\ hash'[k] = Forever => Owes(k, HashCommands)'
             /\ custkeys'[k] = Forever => Owes(k, CustkeysCommands)'
  BY <1>6, <1>7
  DEF Answer, redisVars, HandlerStep, HashCommands, CustkeysCommands
<1>8. ASSUME NEW h \in Handlers, getServerKey(h)
      PROVE  /\ hash'[k] = Forever => Owes(k, HashCommands)'
             /\ custkeys'[k] = Forever => Owes(k, CustkeysCommands)'
  <2>1. /\ \E d : HandlerStep(h, d)
        /\ pc[h] \in {"exists", "get", "hexists", "incr"}
        /\ UNCHANGED <<hash, custkeys>>
    <3>1. CASE Exists(h)
      BY <1>1, <3>1, GoesStep DEF Exists, redisVars, Goes
    <3>2. CASE Get(h)
      BY <1>1, <3>2, GoesStep DEF Get, redisVars, Goes
    <3>3. CASE HExists(h)
      BY <1>1, <3>3, GoesStep, IdleStep DEF HExists, redisVars
    <3>4. CASE Incr(h)
      BY <1>1, <3>4, GoesStep DEF Incr, Goes
    <3> QED
      BY <1>8, <3>1, <3>2, <3>3, <3>4 DEF getServerKey
  <2> QED
    BY <1>6, <2>1 DEF HashCommands, CustkeysCommands
<1>9. ASSUME NEW h \in Handlers, Set(h) \/ ExpireIpmap(h) \/ ZIncrBy(h)
      PROVE  /\ hash'[k] = Forever => Owes(k, HashCommands)'
             /\ custkeys'[k] = Forever => Owes(k, CustkeysCommands)'
  <2>1. /\ \E d : HandlerStep(h, d)
        /\ pc[h] \in {"set", "expireipmap", "zincrby"}
        /\ UNCHANGED <<hash, custkeys>>
    BY <1>1, <1>9, GoesStep, IdleStep DEF Set, ExpireIpmap, ZIncrBy, Goes
  <2> QED
    BY <1>6, <2>1 DEF HashCommands, CustkeysCommands
<1>10. ASSUME NEW h \in Handlers, HSet(h)
       PROVE  /\ hash'[k] = Forever => Owes(k, HashCommands)'
              /\ custkeys'[k] = Forever => Owes(k, CustkeysCommands)'
  <2>1. /\ pc[h] = "hset"
        /\ HandlerStep(h, "hsetcust")
        /\ pc'[h] = "hsetcust"
        /\ serverKey' = serverKey
    BY <1>1, <1>10, GoesStep DEF HSet, Goes, HandlerType
  <2>2. custkeys' = custkeys /\ (k # serverKey[h] => hash'[k] = hash[k])
    BY <1>1, <1>10 DEF HSet, RedisType
  <2>3. CASE k = serverKey[h]
    <3>1. Owes(k, HashCommands)'
      BY <2>1, <2>3 DEF Owes, HashCommands
    <3>2. custkeys'[k] = Forever => Owes(k, CustkeysCommands)'
      BY <1>1, <1>3, <2>1, <2>2, OwesStep DEF CustkeysCommands
    <3> QED
      BY <3>1, <3>2
  <2>4. CASE k # serverKey[h]
    BY <1>1, <1>3, <2>1, <2>2, <2>4, OwesStep
  <2> QED
    BY <2>3, <2>4
<1>11. ASSUME NEW h \in Handlers, HSetCustkeys(h) \/ HSetNoCustkeys(h)
       PROVE  /\ hash'[k] = Forever => Owes(k, HashCommands)'
              /\ custkeys'[k] = Forever => Owes(k, CustkeysCommands)'
  <2>1. /\ pc[h] = "hsetcust"
        /\ HandlerStep(h, "expire")
        /\ pc'[h] = "expire"
        /\ serverKey' = serverKey
    BY <1>1, <1>11, GoesStep DEF HSetCustkeys, HSetNoCustkeys, Goes, HandlerType
  <2>2. hash' = hash /\ (k # serverKey[h] => custkeys'[k] = custkeys[k])
    BY <1>1, <1>11 DEF HSetCustkeys, HSetNoCustkeys, redisVars, RedisType
  <2>3. hash'[k] = Forever => Owes(k, HashCommands)'
    BY <1>1, <1>3, <2>1, <2>2, OwesStep DEF HashCommands
  <2>4. CASE k = serverKey[h]
    BY <2>1, <2>3, <2>4 DEF Owes, CustkeysCommands
  <2>5. CASE k # serverKey[h]
    BY <1>1, <1>3, <2>1, <2>2, <2>3, <2>5, OwesStep
  <2> QED
    BY <2>4, <2>5
<1>12. ASSUME NEW h \in Handlers, Expire(h)
       PROVE  /\ hash'[k] = Forever => Owes(k, HashCommands)'
              /\ custkeys'[k] = Forever => Owes(k, CustkeysCommands)'
  <2>1. /\ pc[h] = "expire"
        /\ HandlerStep(h, "expirecust")
        /\ serverKey' = serverKey
    BY <1>1, <1>12, GoesStep DEF Expire, Goes
  <2>2. /\ custkeys' = custkeys
        /\ k # serverKey[h] => hash'[k] = hash[k]
        /\ k = serverKey[h] => hash'[k] # Forever
    BY <1>1, <1>2, <1>12 DEF Expire, RedisType
  <2>3. custkeys'[k] = Forever => Owes(k, CustkeysCommands)'
    BY <1>1, <1>3, <2>1, <2>2, OwesStep DEF CustkeysCommands
  <2>4. hash'[k] = Forever => Owes(k, HashCommands)'
    BY <1>1, <1>3, <2>1, <2>2, OwesStep
  <2> QED
    BY <2>3, <2>4
<1>13. ASSUME NEW h \in Handlers, ExpireCustkeys(h)
       PROVE  /\ hash'[k] = Forever => Owes(k, HashCommands)'
              /\ custkeys'[k] = Forever => Owes(k, CustkeysCommands)'
  <2>1. /\ pc[h] = "expirecust"
        /\ HandlerStep(h, "set")
        /\ serverKey' = serverKey
    BY <1>1, <1>13, GoesStep DEF ExpireCustkeys, Goes
  <2>2. /\ hash' = hash
        /\ k # serverKey[h] => custkeys'[k] = custkeys[k]
        /\ k = serverKey[h] => custkeys'[k] # Forever
    BY <1>1, <1>2, <1>13 DEF ExpireCustkeys, RedisType
  <2>3. hash'[k] = Forever => Owes(k, HashCommands)'
    BY <1>1, <1>3, <2>1, <2>2, OwesStep DEF HashCommands
  <2>4. custkeys'[k] = Forever => Owes(k, CustkeysCommands)'
    BY <1>1, <1>3, <2>1, <2>2, OwesStep
  <2> QED
    BY <2>3, <2>4
<1>14. ASSUME NEW h \in Handlers
       PROVE  ~CommandFails(h) /\ ~LastCommandFails(h) /\ ~Crash(h)
  BY DEF CommandFails, LastCommandFails, Crash
<1>15. ASSUME \/ ZScan \/ ZRem \/ RefreshFails
              \/ \E l \in Keys : HMGet(l) \/ HMGetFails(l)
       PROVE  /\ hash'[k] = Forever => Owes(k, HashCommands)'
              /\ custkeys'[k] = Forever => Owes(k, CustkeysCommands)'
  BY <1>5, <1>15 DEF ZScan, ZRem, RefreshFails, HMGet, HMGetFails, redisVars
<1>16. ASSUME Tick
       PROVE  /\ hash'[k] = Forever => Owes(k, HashCommands)'
              /\ custkeys'[k] = Forever => Owes(k, CustkeysCommands)'
  <2>1. /\ hash'[k] = Elapsed(hash[k]) /\ custkeys'[k] = Elapsed(custkeys[k])
        /\ UNCHANGED handlerVars
    BY <1>16 DEF Tick
  <2>2. hash[k] \in 0..Forever /\ custkeys[k] \in 0..Forever
    BY <1>1 DEF RedisType
  <2> QED
    BY <1>5, <2>1, <2>2, LeftFacts
<1>17. ASSUME NEW a \in NativeAddresses, NativeReports(a)
       PROVE  /\ hash'[k] = Forever => Owes(k, HashCommands)'
              /\ custkeys'[k] = Forever => Owes(k, CustkeysCommands)'
  <2>1. /\ hash'[k] \in {hash[k], TTL} /\ custkeys'[k] \in {custkeys[k], TTL}
        /\ UNCHANGED handlerVars
    BY <1>1, <1>17 DEF NativeReports, RedisType
  <2>2. TTL # Forever
    BY LeftFacts DEF Forever
  <2> QED
    BY <1>5, <2>1, <2>2
<1>18. CASE UNCHANGED storeVars
  BY <1>5, <1>18 DEF storeVars, redisVars
<1> QED
  BY <1>7, <1>8, <1>9, <1>10, <1>11, <1>12, <1>13, <1>14, <1>15, <1>16, <1>17, <1>18
  DEF StoreNext, OnServerInfoResponse

(* As long as no command fails and no process ends, every hash and every   *)
(* set of custom keys that was written gets its expiry, however handlers   *)
(* and expiry interleave.                                                  *)
THEOREM StoreEverythingExpires ==
  ASSUME Faults = {}
  PROVE  StoreSpec => []EverythingExpires
<1>1. StoreInit => StoreInv
  BY InitStoreInv
<1>2. StoreInit => EverythingExpires
  BY LeftFacts DEF StoreInit, EverythingExpires, Forever
<1>3. StoreInv /\ [StoreNext]_storeVars => StoreInv'
  BY NextStoreInv
<1>4. StoreInv /\ EverythingExpires /\ [StoreNext]_storeVars => EverythingExpires'
  BY NextEverythingExpires
<1> QED
  BY <1>1, <1>2, <1>3, <1>4, PTL DEF StoreSpec

-----------------------------------------------------------------------------
(* The mapping of an address names its server. *)

(* The server key k is used for the address a: by the mapping, by the hash *)
(* or by a handler at work.                                                *)
Claims(k, a) ==
  \/ ipmap[a] = k
  \/ wanAddress[k] = a
  \/ \E h \in Handlers : serverKey[h] = k /\ source[h] = a

(* A key is used for one address, an injected one only after it was        *)
(* created, a native one for its own address.                              *)
ClaimInv ==
  /\ \A k \in Keys : \A a, b \in Addresses : Claims(k, a) /\ Claims(k, b) => a = b
  /\ \A n \in 1..MaxKeys : \A a \in Addresses : Claims(InjectedKey(n), a) => n <= qrid
  /\ \A b \in NativeAddresses : \A a \in Addresses : Claims(NativeKey(b), a) => a = b
  /\ \A h \in Handlers : pc[h] = "idle" => serverKey[h] = NoKey

LEMMA KeysDiffer ==
  /\ \A m, n \in 1..MaxKeys : InjectedKey(m) = InjectedKey(n) => m = n
  /\ \A a, b \in NativeAddresses : NativeKey(a) = NativeKey(b) => a = b
  /\ \A n \in 1..MaxKeys : InjectedKey(n) \in InjectedKeys
  /\ \A a \in NativeAddresses : NativeKey(a) \in NativeKeys
  /\ \A k \in Keys : \/ \E n \in 1..MaxKeys : k = InjectedKey(n)
                     \/ \E a \in NativeAddresses : k = NativeKey(a)
<1>1. \A m, n : InjectedKey(m).id = m /\ NativeKey(n).id = n
  BY DEF InjectedKey, NativeKey
<1> QED
  BY <1>1 DEF Keys, InjectedKeys, NativeKeys

LEMMA InitClaimInv ==
  ASSUME StoreInit
  PROVE  ClaimInv
<1>1. ASSUME NEW k \in Keys, NEW a \in Addresses PROVE ~Claims(k, a)
  BY KeyFacts, StoreAssumption DEF StoreInit, Claims
<1>2. \A n \in 1..MaxKeys : InjectedKey(n) \in Keys
  BY KeyFacts, KeysDiffer
<1>3. \A b \in NativeAddresses : NativeKey(b) \in Keys
  BY KeyFacts, KeysDiffer
<1> QED
  BY <1>1, <1>2, <1>3 DEF StoreInit, ClaimInv

(* A step that gives no handler another key or address makes no claim.     *)
LEMMA HandlerClaims ==
  ASSUME HandlerType, NEW h \in Handlers, NEW k \in Keys, NEW a \in Addresses,
         Idle(h) \/ UNCHANGED <<source, serverKey>>,
         \E g \in Handlers : serverKey'[g] = k /\ source'[g] = a
  PROVE  Claims(k, a)
<1>1. PICK g \in Handlers : serverKey'[g] = k /\ source'[g] = a
  OBVIOUS
<1>2. serverKey'[g] = serverKey[g] /\ source'[g] = source[g]
  BY <1>1, KeyFacts DEF Idle, HandlerType
<1> QED
  BY <1>1, <1>2 DEF Claims

(* Only Incr and the report of a native server make a claim: everything    *)
(* else passes a key on to where its address is used already.              *)
LEMMA ClaimStep ==
  ASSUME StoreInv, ClaimInv, [StoreNext]_storeVars,
         \A h \in Handlers : ~Incr(h),
         NEW k \in Keys, NEW a \in Addresses, Claims(k, a)'
  PROVE  Claims(k, a) \/ (a \in NativeAddresses /\ k = NativeKey(a))
<1>1. HandlerType /\ RedisType
  BY StoreInvParts
<1>2. \/ ipmap'[a] = k
      \/ wanAddress'[k] = a
      \/ \E g \in Handlers : serverKey'[g] = k /\ source'[g] = a
  BY DEF Claims
<1>3. ASSUME NEW h \in Handlers, Idle(h) \/ UNCHANGED <<source, serverKey>>,
             UNCHANGED <<ipmap, wanAddress>>
      PROVE  Claims(k, a)
  BY <1>1, <1>2, <1>3, HandlerClaims DEF Claims
<1>4. ASSUME UNCHANGED <<source, serverKey>>, UNCHANGED <<ipmap, wanAddress>>
      PROVE  Claims(k, a)
  BY <1>2, <1>4 DEF Claims
<1>5. ASSUME NEW h \in Handlers, NEW b \in Addresses, Answer(h, b)
      PROVE  Claims(k, a)
  <2>1. /\ serverKey' = serverKey
        /\ source' = [source EXCEPT ![h] = b]
        /\ UNCHANGED <<ipmap, wanAddress>>
        /\ serverKey[h] = NoKey
    BY <1>5 DEF Answer, redisVars, ClaimInv
  <2>2. \A g \in Handlers : serverKey'[g] = k => g # h /\ source'[g] = source[g]
    BY <1>1, <2>1, KeyFacts DEF HandlerType
  <2> QED
    BY <1>2, <2>1, <2>2 DEF Claims
<1>6. ASSUME NEW h \in Handlers, Get(h)
      PROVE  Claims(k, a)
  <2>1. /\ serverKey' = [serverKey EXCEPT ![h] = ipmap[source[h]]]
        /\ UNCHANGED <<source, ipmap, wanAddress>>
    BY <1>6 DEF Get, Goes, redisVars
  <2>2. \A g \in Handlers :
          serverKey'[g] = k /\ source'[g] = a => serverKey[g] = k \/ ipmap[a] = k
    BY <1>1, <2>1 DEF HandlerType
  <2> QED
    BY <1>2, <2>1, <2>2 DEF Claims
<1>7. ASSUME NEW h \in Handlers, HSet(h)
      PROVE  Claims(k, a)
  <2>1. /\ wanAddress' = [wanAddress EXCEPT ![serverKey[h]] = source[h]]
        /\ UNCHANGED <<source, serverKey, ipmap>>
    BY <1>7 DEF HSet, Goes
  <2>2. wanAddress'[k] = a => wanAddress[k] = a \/ (serverKey[h] = k /\ source[h] = a)
    BY <1>1, <2>1 DEF RedisType
  <2> QED
    BY <1>2, <2>1, <2>2 DEF Claims
<1>8. ASSUME NEW h \in Handlers, Set(h)
      PROVE  Claims(k, a)
  <2>1. /\ ipmap' = [ipmap EXCEPT ![source[h]] = serverKey[h]]
        /\ UNCHANGED <<source, serverKey, wanAddress>>
    BY <1>8 DEF Set, Goes
  <2>2. ipmap'[a] = k => ipmap[a] = k \/ (serverKey[h] = k /\ source[h] = a)
    BY <1>1, <2>1 DEF RedisType
  <2> QED
    BY <1>2, <2>1, <2>2 DEF Claims
<1>9. ASSUME NEW h \in Handlers,
             \/ Exists(h) \/ HExists(h) \/ HSetCustkeys(h) \/ HSetNoCustkeys(h)
             \/ Expire(h) \/ ExpireCustkeys(h) \/ ExpireIpmap(h) \/ ZIncrBy(h)
             \/ CommandFails(h) \/ LastCommandFails(h) \/ Crash(h)
      PROVE  Claims(k, a)
  <2>1. /\ Idle(h) \/ UNCHANGED <<source, serverKey>>
        /\ UNCHANGED <<ipmap, wanAddress>>
    BY <1>9
    DEF Exists, HExists, HSetCustkeys, HSetNoCustkeys, Expire, ExpireCustkeys,
        ExpireIpmap, ZIncrBy, CommandFails, LastCommandFails, Crash, Goes, redisVars
  <2> QED
    BY <1>3, <2>1
<1>10. ASSUME \/ ZScan \/ ZRem \/ RefreshFails
              \/ \E l \in Keys : HMGet(l) \/ HMGetFails(l)
       PROVE  Claims(k, a)
  BY <1>4, <1>10
  DEF ZScan, ZRem, RefreshFails, HMGet, HMGetFails, redisVars, handlerVars
<1>11. ASSUME Tick
       PROVE  Claims(k, a)
  <2>1. /\ ipmap'[a] = k => ipmap[a] = k
        /\ wanAddress'[k] = a => wanAddress[k] = a
        /\ UNCHANGED <<source, serverKey>>
    BY <1>11, KeyFacts, StoreAssumption DEF Tick, handlerVars
  <2> QED
    BY <1>2, <2>1 DEF Claims
<1>12. ASSUME NEW b \in NativeAddresses, NativeReports(b)
       PROVE  Claims(k, a) \/ (a \in NativeAddresses /\ k = NativeKey(a))
  <2>1. /\ ipmap' = [ipmap EXCEPT ![b] = NativeKey(b)]
        /\ wanAddress' = [wanAddress EXCEPT ![NativeKey(b)] = b]
        /\ UNCHANGED <<source, serverKey>>
    BY <1>12 DEF NativeReports, handlerVars
  <2>2. ipmap'[a] = k => ipmap[a] = k \/ (a = b /\ k = NativeKey(b))
    BY <1>1, <2>1 DEF RedisType
  <2>3. wanAddress'[k] = a => wanAddress[k] = a \/ (a = b /\ k = NativeKey(b))
    BY <1>1, <2>1 DEF RedisType
  <2> QED
    BY <1>2, <2>1, <2>2, <2>3 DEF Claims
<1>13. CASE UNCHANGED storeVars
  BY <1>4, <1>13 DEF storeVars, redisVars, handlerVars
<1> QED
  BY <1>5, <1>6, <1>7, <1>8, <1>9, <1>10, <1>11, <1>12, <1>13
  DEF StoreNext, OnServerInfoResponse, getServerKey

(* A handler between two answers holds no key. *)
LEMMA IdleHoldsNoKey ==
  ASSUME StoreInv, ClaimInv, [StoreNext]_storeVars
  PROVE  \A h \in Handlers : pc'[h] = "idle" => serverKey'[h] = NoKey
<1>1. HandlerType
  BY StoreInvParts
<1>2. \A h \in Handlers : pc[h] = "idle" => serverKey[h] = NoKey
  BY DEF ClaimInv
<1>3. ASSUME NEW h \in Handlers, Idle(h)
      PROVE  \A g \in Handlers : pc'[g] = "idle" => serverKey'[g] = NoKey
  BY <1>1, <1>2, <1>3 DEF Idle, HandlerType
<1>4. ASSUME NEW h \in Handlers, NEW d, HandlerStep(h, d), d # "idle"
      PROVE  \A g \in Handlers : pc'[g] = "idle" => serverKey'[g] = NoKey
  BY <1>1, <1>2, <1>4 DEF HandlerStep, HandlerType
<1>5. CASE UNCHANGED handlerVars
  BY <1>2, <1>5 DEF handlerVars
<1>6. ASSUME NEW h \in Handlers, NEW a \in Addresses, Answer(h, a)
      PROVE  \A g \in Handlers : pc'[g] = "idle" => serverKey'[g] = NoKey
  BY <1>4, <1>6 DEF Answer, HandlerStep
<1>7. ASSUME NEW h \in Handlers, OnServerInfoResponse(h)
      PROVE  Idle(h) \/ \E d : HandlerStep(h, d) /\ d # "idle"
  <2>1. CASE Exists(h)
    BY <1>1, <2>1, GoesStep DEF Exists
  <2>2. CASE Get(h)
    <3>1. HandlerStep(h, "hexists")
      BY <1>1, <2>2, GoesStep DEF Get
    <3> QED
      BY <3>1
  <2>3. CASE HExists(h)
    BY <1>1, <2>3, GoesStep DEF HExists
  <2>4. CASE Incr(h)
    <3>1. HandlerStep(h, "hset")
      BY <1>1, <2>4, GoesStep DEF Incr
    <3> QED
      BY <3>1
  <2>5. CASE HSet(h)
    BY <1>1, <2>5, GoesStep DEF HSet
  <2>6. CASE HSetCustkeys(h) \/ HSetNoCustkeys(h)
    BY <1>1, <2>6, GoesStep DEF HSetCustkeys, HSetNoCustkeys
  <2>7. CASE Expire(h) \/ ExpireCustkeys(h)
    BY <1>1, <2>7, GoesStep DEF Expire, ExpireCustkeys
  <2>8. CASE Set(h) \/ ExpireIpmap(h)
    BY <1>1, <2>8, GoesStep DEF Set, ExpireIpmap
  <2>9. CASE ZIncrBy(h)
    BY <2>9 DEF ZIncrBy
  <2> QED
    BY <1>7, <2>1, <2>2, <2>3, <2>4, <2>5, <2>6, <2>7, <2>8, <2>9
    DEF OnServerInfoResponse, getServerKey
<1>8. ASSUME NEW h \in Handlers, CommandFails(h) \/ LastCommandFails(h) \/ Crash(h)
      PROVE  Idle(h) \/ \E d : HandlerStep(h, d) /\ d # "idle"
  <2>1. CASE CommandFails(h)
    <3>1. AfterError[pc[h]] # "idle"
      BY <2>1 DEF CommandFails, AfterError
    <3> QED
      BY <1>1, <2>1, <3>1, GoesStep DEF CommandFails
  <2> QED
    BY <1>8, <2>1 DEF LastCommandFails, Crash
<1>9. CASE \/ ZScan \/ ZRem \/ RefreshFails \/ Tick
           \/ \E k \in Keys : HMGet(k) \/ HMGetFails(k)
           \/ \E a \in NativeAddresses : NativeReports(a)
  <2>1. UNCHANGED handlerVars
    BY <1>9 DEF ZScan, ZRem, RefreshFails, Tick, HMGet, HMGetFails, NativeReports
  <2> QED
    BY <1>5, <2>1
<1>10. CASE UNCHANGED storeVars
  BY <1>5, <1>10 DEF storeVars
<1> QED
  BY <1>3, <1>4, <1>6, <1>7, <1>8, <1>9, <1>10 DEF StoreNext

LEMMA NextClaimInv ==
  ASSUME StoreInv, ClaimInv, [StoreNext]_storeVars
  PROVE  ClaimInv'
<1>1. HandlerType /\ RedisType
  BY StoreInvParts
<1>2. \A n \in 1..MaxKeys : InjectedKey(n) \in Keys
  BY KeyFacts, KeysDiffer
<1>3. \A b \in NativeAddresses : NativeKey(b) \in Keys /\ b \in Addresses
  BY KeyFacts, KeysDiffer, StoreAssumption
<1>4. \A n \in 1..MaxKeys, b \in NativeAddresses : InjectedKey(n) # NativeKey(b)
  BY KeyFacts, KeysDiffer
<1>5. \A h \in Handlers : pc'[h] = "idle" => serverKey'[h] = NoKey
  BY IdleHoldsNoKey
<1>6. CASE \A h \in Handlers : ~Incr(h)
  <2>1. \A k \in Keys, a \in Addresses :
          Claims(k, a)' => Claims(k, a) \/ (a \in NativeAddresses /\ k = NativeKey(a))
    BY <1>6, ClaimStep
  <2>2. qrid' = qrid
    BY <1>6
    DEF StoreNext, storeVars, redisVars, OnServerInfoResponse, getServerKey, Answer,
        Exists, Get, HExists, HSet, HSetCustkeys, HSetNoCustkeys, Expire,
        ExpireCustkeys, Set, ExpireIpmap, ZIncrBy, CommandFails, LastCommandFails, Crash, ZScan,
        ZRem, RefreshFails, HMGet, HMGetFails, Tick, NativeReports
  <2>3. ASSUME NEW k \in Keys, NEW a \in Addresses, NEW b \in Addresses,
               Claims(k, a)', Claims(k, b)'
        PROVE  a = b
    <3>1. CASE Claims(k, a) /\ Claims(k, b)
      BY <3>1 DEF ClaimInv
    <3>2. CASE a \in NativeAddresses /\ k = NativeKey(a)
      BY <2>1, <2>3, <3>2, KeysDiffer DEF ClaimInv
    <3>3. CASE b \in NativeAddresses /\ k = NativeKey(b)
      BY <2>1, <2>3, <3>3, KeysDiffer DEF ClaimInv
    <3> QED
      BY <2>1, <2>3, <3>1, <3>2, <3>3
  <2>4. ASSUME NEW n \in 1..MaxKeys, NEW a \in Addresses, Claims(InjectedKey(n), a)'
        PROVE  n <= qrid'
    <3>1. Claims(InjectedKey(n), a)
      BY <1>2, <1>4, <2>1, <2>4
    <3> QED
      BY <2>2, <3>1 DEF ClaimInv
  <2>5. ASSUME NEW b \in NativeAddresses, NEW a \in Addresses, Claims(NativeKey(b), a)'
        PROVE  a = b
    <3>1. Claims(NativeKey(b), a) \/ a = b
      BY <1>3, <2>1, <2>5, KeysDiffer
    <3> QED
      BY <3>1 DEF ClaimInv
  <2> QED
    BY <1>5, <2>3, <2>4, <2>5 DEF ClaimInv
<1>7. ASSUME NEW h \in Handlers, Incr(h)
      PROVE  ClaimInv'
  <2> DEFINE new == InjectedKey(qrid + 1)
  <2>1. /\ qrid + 1 \in 1..MaxKeys
        /\ qrid \in Nat
        /\ qrid' = qrid + 1
        /\ serverKey' = [serverKey EXCEPT ![h] = new]
        /\ UNCHANGED <<source, ipmap, wanAddress>>
    BY <1>1, <1>7, StoreAssumption DEF Incr, Goes, RedisType
  <2> HIDE DEF new
  <2>2. ASSUME NEW k \in Keys, NEW a \in Addresses, Claims(k, a)'
        PROVE  Claims(k, a) \/ (k = new /\ a = source[h])
    <3>1. \A g \in Handlers : serverKey'[g] = k =>
            serverKey[g] = k \/ (g = h /\ k = new)
      BY <1>1, <2>1 DEF HandlerType
    <3> QED
      BY <2>1, <2>2, <3>1 DEF Claims
  <2>3. \A a \in Addresses : ~Claims(new, a)
    BY <2>1 DEF ClaimInv, new
  <2>4. \A n \in 1..MaxKeys : InjectedKey(n) = new => n = qrid + 1
    BY <2>1, KeysDiffer DEF new
  <2>5. \A b \in NativeAddresses : NativeKey(b) # new
    BY <1>4, <2>1 DEF new
  <2>6. ASSUME NEW k \in Keys, NEW a \in Addresses, NEW b \in Addresses,
               Claims(k, a)', Claims(k, b)'
        PROVE  a = b
    BY <2>2, <2>3, <2>6 DEF ClaimInv
  <2>7. ASSUME NEW n \in 1..MaxKeys, NEW a \in Addresses, Claims(InjectedKey(n), a)'
        PROVE  n <= qrid'
    <3>1. Claims(InjectedKey(n), a) \/ InjectedKey(n) = new
      BY <1>2, <2>2, <2>7
    <3>2. n <= qrid \/ n = qrid + 1
      BY <2>4, <3>1 DEF ClaimInv
    <3> QED
      BY <2>1, <3>2
  <2>8. ASSUME NEW b \in NativeAddresses, NEW a \in Addresses, Claims(NativeKey(b), a)'
        PROVE  a = b
    BY <1>3, <2>2, <2>5, <2>8 DEF ClaimInv
  <2> QED
    BY <1>5, <2>6, <2>7, <2>8 DEF ClaimInv
<1> QED
  BY <1>6, <1>7

(* Whatever fails and whoever else is at work, the mapping of an address   *)
(* never leads to the hash of a server at another address.                 *)
THEOREM StoreIpmapNamesItsServer == StoreSpec => []IpmapNamesItsServer
<1>1. StoreInit => StoreInv /\ ClaimInv
  BY InitStoreInv, InitClaimInv
<1>2. StoreInv /\ ClaimInv /\ [StoreNext]_storeVars => StoreInv' /\ ClaimInv'
  BY NextStoreInv, NextClaimInv
<1>3. StoreInv /\ ClaimInv => IpmapNamesItsServer
  <2>1. SUFFICES ASSUME RedisType, ClaimInv, NEW a \in Addresses, ipmap[a] # NoKey,
                        wanAddress[ipmap[a]] # NoAddress
                 PROVE  wanAddress[ipmap[a]] = a
    BY StoreInvParts DEF IpmapNamesItsServer
  <2>2. ipmap[a] \in Keys /\ wanAddress[ipmap[a]] \in Addresses
    BY <2>1 DEF RedisType
  <2>3. Claims(ipmap[a], a) /\ Claims(ipmap[a], wanAddress[ipmap[a]])
    BY DEF Claims
  <2> QED
    BY <2>1, <2>2, <2>3 DEF ClaimInv
<1> QED
  BY <1>1, <1>2, <1>3, PTL DEF StoreSpec

-----------------------------------------------------------------------------
(* The time a mapping has left. *)

(* The mapping of the address of k outlasts its hash. *)
Outlasted(k) ==
  hash[k] <= (IF wanAddress[k] = NoAddress THEN 0 ELSE ipmapLeft[wanAddress[k]])

LEMMA FoundParts ==
  /\ FoundWhileAlive <=> \A k \in Keys : Outlasted(k) \/ Owes(k, MappingCommands)
  /\ FoundWhileAlive' <=> \A k \in Keys : Outlasted(k)' \/ Owes(k, MappingCommands)'
BY DEF FoundWhileAlive, Outlasted, MappingCommands

(* Nothing takes time from a mapping but time itself. *)
LEMMA OutlastedKept ==
  ASSUME RedisType, RedisType', NEW k \in Keys, Outlasted(k),
         hash'[k] = hash[k], wanAddress'[k] = wanAddress[k],
         \A a \in Addresses : ipmapLeft[a] <= ipmapLeft'[a]
  PROVE  Outlasted(k)'
<1>1. CASE wanAddress[k] = NoAddress
  BY <1>1 DEF Outlasted
<1>2. CASE wanAddress[k] # NoAddress
  <2>1. wanAddress[k] \in Addresses
    BY <1>2 DEF RedisType
  <2>2. /\ hash[k] \in 0..Forever
        /\ ipmapLeft[wanAddress[k]] \in 0..TTL
        /\ ipmapLeft'[wanAddress[k]] \in 0..TTL
        /\ TTL \in Nat
        /\ Forever \in Nat
    BY <2>1, LeftFacts DEF RedisType, Forever
  <2>3. hash[k] <= ipmapLeft[wanAddress[k]]
    BY <1>2 DEF Outlasted
  <2>4. hash[k] <= ipmapLeft'[wanAddress[k]]
    BY <2>1, <2>2, <2>3
  <2> QED
    BY <1>2, <2>4 DEF Outlasted
<1> QED
  BY <1>1, <1>2

(* A hash that lasts no longer than its mapping expires no later. *)
LEMMA ElapsedOrder ==
  ASSUME NEW i \in 0..Forever, NEW j \in 0..TTL, i <= j
  PROVE  Elapsed(i) <= Elapsed(j)
BY LeftFacts DEF Elapsed, Forever

(* Set leads a new answer to the key, unless another handler has made the  *)
(* hash last for good and will set the mapping after this one.             *)
LEMMA SetOutlasts ==
  ASSUME StoreInv, StoreInv', ClaimInv, EverythingExpires,
         NEW h \in Handlers, Set(h), NEW k \in Keys, k = serverKey[h]
  PROVE  Outlasted(k)' \/ Owes(k, MappingCommands)'
<1> DEFINE a == source[h]
<1>1. HandlerType /\ RedisType /\ RedisType'
  BY StoreInvParts, StoreInvPartsNext
<1>2. /\ pc[h] = "set"
      /\ HandlerStep(h, "expireipmap")
      /\ serverKey' = serverKey
      /\ UNCHANGED <<hash, wanAddress>>
      /\ ipmapLeft' = [ipmapLeft EXCEPT ![a] = TTL]
  BY <1>1, GoesStep DEF Set, Goes
<1>3. a \in Addresses
  BY <1>1, <1>2, AtWork DEF Writing
<1>4. ipmapLeft'[a] = TTL
  BY <1>1, <1>2, <1>3 DEF RedisType
<1>5. hash[k] \in 0..Forever /\ TTL \in Nat /\ Forever = TTL + 1
  BY <1>1, <1>3, LeftFacts DEF RedisType, Forever
<1>6. CASE hash[k] = Forever
  <2>1. PICK g \in Handlers : serverKey[g] = k /\ pc[g] \in {"hsetcust", "expire"}
    BY <1>6 DEF EverythingExpires, Owes
  <2>2. g # h
    BY <1>2, <2>1
  <2>3. pc'[g] = pc[g]
    BY <1>1, <1>2, <2>2 DEF HandlerStep, HandlerType
  <2> QED
    BY <1>2, <2>1, <2>3 DEF Owes, MappingCommands
<1>7. CASE hash[k] # Forever
  <2>1. hash[k] <= TTL
    BY <1>5, <1>7
  <2>2. CASE wanAddress[k] = NoAddress
    <3>1. hash[k] = 0
      BY <1>1, <1>3, <2>2 DEF RedisType
    <3> QED
      BY <1>2, <2>2, <3>1 DEF Outlasted
  <2>3. CASE wanAddress[k] # NoAddress
    <3>1. wanAddress[k] \in Addresses
      BY <1>1, <1>3, <2>3 DEF RedisType
    <3>2. Claims(k, a) /\ Claims(k, wanAddress[k])
      BY DEF Claims
    <3>3. wanAddress[k] = a
      BY <1>3, <3>1, <3>2 DEF ClaimInv
    <3> QED
      BY <1>2, <1>4, <2>1, <2>3, <3>3 DEF Outlasted
  <2> QED
    BY <2>2, <2>3
<1> QED
  BY <1>6, <1>7

LEMMA NextFoundWhileAlive ==
  ASSUME Faults = {}, StoreInv, ClaimInv, EverythingExpires, FoundWhileAlive,
         [StoreNext]_storeVars
  PROVE  FoundWhileAlive'
<1>1. HandlerType /\ RedisType /\ RedisType' /\ StoreInv'
  BY NextStoreInv, StoreInvParts, StoreInvPartsNext
<1>2. \A k \in Keys : Outlasted(k) \/ Owes(k, MappingCommands)
  BY FoundParts
<1>3. SUFFICES ASSUME NEW k \in Keys
               PROVE  Outlasted(k)' \/ Owes(k, MappingCommands)'
  BY FoundParts
<1>4. /\ TTL \in Nat /\ Forever = TTL + 1
      /\ hash[k] \in 0..Forever
      /\ \A a \in Addresses : ipmapLeft[a] \in 0..TTL
  BY <1>1, LeftFacts DEF RedisType, Forever
<1>5. ASSUME UNCHANGED <<pc, serverKey>>, hash'[k] = hash[k],
             wanAddress'[k] = wanAddress[k],
             \A a \in Addresses : ipmapLeft[a] <= ipmapLeft'[a]
      PROVE  Outlasted(k)' \/ Owes(k, MappingCommands)'
  BY <1>1, <1>2, <1>5, OutlastedKept DEF Owes
<1>6. ASSUME UNCHANGED <<pc, serverKey, hash, wanAddress, ipmapLeft>>
      PROVE  Outlasted(k)' \/ Owes(k, MappingCommands)'
  BY <1>4, <1>5, <1>6
<1>7. ASSUME NEW h \in Handlers, NEW d, HandlerStep(h, d),
             pc[h] \in MappingCommands /\ serverKey[h] = k
               => serverKey'[h] = k /\ d \in MappingCommands,
             hash'[k] = hash[k], wanAddress'[k] = wanAddress[k],
             \A a \in Addresses : ipmapLeft[a] <= ipmapLeft'[a]
      PROVE  Outlasted(k)' \/ Owes(k, MappingCommands)'
  BY <1>1, <1>2, <1>7, OutlastedKept, OwesStep
<1>8. ASSUME NEW h \in Handlers, NEW d, HandlerStep(h, d),
             pc[h] \notin MappingCommands,
             UNCHANGED <<hash, wanAddress, ipmapLeft>>
      PROVE  Outlasted(k)' \/ Owes(k, MappingCommands)'
  BY <1>4, <1>7, <1>8
<1>9. ASSUME NEW h \in Handlers, NEW a \in Addresses, Answer(h, a)
      PROVE  Outlasted(k)' \/ Owes(k, MappingCommands)'
  BY <1>8, <1>9 DEF Answer, redisVars, HandlerStep, MappingCommands
<1>10. ASSUME NEW h \in Handlers, getServerKey(h) \/ ZIncrBy(h)
       PROVE  Outlasted(k)' \/ Owes(k, MappingCommands)'
  <2>1. /\ \E d : HandlerStep(h, d)
        /\ pc[h] \in {"exists", "get", "hexists", "incr", "zincrby"}
        /\ UNCHANGED <<hash, wanAddress, ipmapLeft>>
    <3>1. CASE Exists(h)
      BY <1>1, <3>1, GoesStep DEF Exists, redisVars, Goes
    <3>2. CASE Get(h)
      BY <1>1, <3>2, GoesStep DEF Get, redisVars, Goes
    <3>3. CASE HExists(h)
      BY <1>1, <3>3, GoesStep, IdleStep DEF HExists, redisVars
    <3>4. CASE Incr(h)
      BY <1>1, <3>4, GoesStep DEF Incr, Goes
    <3>5. CASE ZIncrBy(h)
      BY <1>1, <3>5, IdleStep DEF ZIncrBy
    <3> QED
      BY <1>10, <3>1, <3>2, <3>3, <3>4, <3>5 DEF getServerKey
  <2> QED
    BY <1>8, <2>1 DEF MappingCommands
<1>11. ASSUME NEW h \in Handlers,
              \/ HSet(h) \/ HSetCustkeys(h) \/ HSetNoCustkeys(h)
              \/ Expire(h) \/ ExpireCustkeys(h)
       PROVE  Outlasted(k)' \/ Owes(k, MappingCommands)'
  <2>1. \E d \in MappingCommands : HandlerStep(h, d) /\ pc'[h] = d
    <3>1. CASE HSet(h)
      BY <1>1, <3>1, GoesStep DEF HSet, Goes, HandlerType, MappingCommands
    <3>2. CASE HSetCustkeys(h) \/ HSetNoCustkeys(h)
      BY <1>1, <3>2, GoesStep
      DEF HSetCustkeys, HSetNoCustkeys, Goes, HandlerType, MappingCommands
    <3>3. CASE Expire(h) \/ ExpireCustkeys(h)
      BY <1>1, <3>3, GoesStep
      DEF Expire, ExpireCustkeys, Goes, HandlerType, MappingCommands
    <3> QED
      BY <1>11, <3>1, <3>2, <3>3
  <2>2. UNCHANGED <<serverKey, ipmapLeft>>
    BY <1>11
    DEF HSet, HSetCustkeys, HSetNoCustkeys, Expire, ExpireCustkeys, redisVars
  <2>3. k # serverKey[h] => hash'[k] = hash[k] /\ wanAddress'[k] = wanAddress[k]
    BY <1>1, <1>11
    DEF HSet, HSetCustkeys, HSetNoCustkeys, Expire, ExpireCustkeys, redisVars, RedisType
  <2>4. CASE k = serverKey[h]
    BY <2>1, <2>2, <2>4 DEF Owes
  <2>5. CASE k # serverKey[h]
    BY <1>4, <1>7, <2>1, <2>2, <2>3, <2>5
  <2> QED
    BY <2>4, <2>5
<1>12. ASSUME NEW h \in Handlers, Set(h)
       PROVE  Outlasted(k)' \/ Owes(k, MappingCommands)'
  <2>1. /\ HandlerStep(h, "expireipmap")
        /\ UNCHANGED <<hash, wanAddress>>
        /\ ipmapLeft' = [ipmapLeft EXCEPT ![source[h]] = TTL]
    BY <1>1, <1>12, GoesStep DEF Set, Goes
  <2>2. \A a \in Addresses : ipmapLeft[a] <= ipmapLeft'[a]
    BY <1>1, <1>4, <2>1 DEF RedisType
  <2>3. CASE k = serverKey[h]
    BY <1>1, <1>12, <2>3, SetOutlasts
  <2>4. CASE k # serverKey[h]
    BY <1>7, <2>1, <2>2, <2>4
  <2> QED
    BY <2>3, <2>4
<1>13. ASSUME NEW h \in Handlers
       PROVE  ~CommandFails(h) /\ ~LastCommandFails(h) /\ ~Crash(h)
  BY DEF CommandFails, LastCommandFails, Crash
<1>14. ASSUME \/ ZScan \/ ZRem \/ RefreshFails
              \/ \E l \in Keys : HMGet(l) \/ HMGetFails(l)
       PROVE  Outlasted(k)' \/ Owes(k, MappingCommands)'
  BY <1>6, <1>14
  DEF ZScan, ZRem, RefreshFails, HMGet, HMGetFails, redisVars, handlerVars
<1>15. ASSUME Tick
       PROVE  Outlasted(k)' \/ Owes(k, MappingCommands)'
  <2>1. /\ UNCHANGED <<pc, serverKey>>
        /\ hash'[k] = Elapsed(hash[k])
        /\ wanAddress'[k] = IF hash'[k] = 0 THEN NoAddress ELSE wanAddress[k]
        /\ \A a \in Addresses : ipmapLeft'[a] = Elapsed(ipmapLeft[a])
    BY <1>15 DEF Tick, handlerVars
  <2>2. CASE Owes(k, MappingCommands)
    BY <2>1, <2>2 DEF Owes
  <2>3. CASE hash'[k] = 0
    BY <2>1, <2>3 DEF Outlasted
  <2>4. CASE Outlasted(k) /\ hash'[k] # 0
    <3>1. hash[k] # 0
      BY <1>4, <2>1, <2>4, LeftFacts
    <3>2. wanAddress[k] \in Addresses /\ wanAddress[k] # NoAddress
      BY <1>1, <3>1 DEF RedisType
    <3>3. hash[k] <= ipmapLeft[wanAddress[k]]
      BY <2>4, <3>2 DEF Outlasted
    <3>4. Elapsed(hash[k]) <= Elapsed(ipmapLeft[wanAddress[k]])
      BY <1>4, <3>2, <3>3, ElapsedOrder
    <3> QED
      BY <2>1, <2>4, <3>2, <3>4 DEF Outlasted
  <2> QED
    BY <1>2, <2>2, <2>3, <2>4
<1>16. ASSUME NEW a \in NativeAddresses, NativeReports(a)
       PROVE  Outlasted(k)' \/ Owes(k, MappingCommands)'
  <2>1. /\ hash' = [hash EXCEPT ![NativeKey(a)] = TTL]
        /\ wanAddress' = [wanAddress EXCEPT ![NativeKey(a)] = a]
        /\ ipmapLeft' = [ipmapLeft EXCEPT ![a] = TTL]
        /\ UNCHANGED <<pc, serverKey>>
    BY <1>16 DEF NativeReports, handlerVars
  <2>2. a \in Addresses /\ a # NoAddress
    BY StoreAssumption
  <2>3. \A b \in Addresses : ipmapLeft[b] <= ipmapLeft'[b]
    BY <1>1, <1>4, <2>1 DEF RedisType
  <2>4. CASE k = NativeKey(a)
    <3>1. hash'[k] = TTL /\ wanAddress'[k] = a /\ ipmapLeft'[a] = TTL
      BY <1>1, <2>1, <2>2, <2>4 DEF RedisType
    <3> QED
      BY <1>4, <2>2, <3>1 DEF Outlasted
  <2>5. CASE k # NativeKey(a)
    <3>1. hash'[k] = hash[k] /\ wanAddress'[k] = wanAddress[k]
      BY <1>1, <2>1, <2>5 DEF RedisType
    <3> QED
      BY <1>5, <2>1, <2>3, <3>1
  <2> QED
    BY <2>4, <2>5
<1>17. ASSUME NEW h \in Handlers, ExpireIpmap(h)
       PROVE  Outlasted(k)' \/ Owes(k, MappingCommands)'
  <2>1. /\ HandlerStep(h, "zincrby")
        /\ pc[h] = "expireipmap"
        /\ UNCHANGED <<hash, wanAddress>>
        /\ ipmapLeft' = [ipmapLeft EXCEPT ![source[h]] = Renewed(@)]
    BY <1>1, <1>17, GoesStep DEF ExpireIpmap, Goes
  <2>2. \A a \in Addresses : ipmapLeft[a] <= ipmapLeft'[a]
    BY <1>1, <1>4, <2>1 DEF RedisType, Renewed
  <2> QED
    BY <1>7, <2>1, <2>2 DEF MappingCommands
<1>18. CASE UNCHANGED storeVars
  BY <1>6, <1>18 DEF storeVars, redisVars, handlerVars
<1> QED
  BY <1>9, <1>10, <1>11, <1>12, <1>13, <1>14, <1>15, <1>16, <1>17, <1>18
  DEF StoreNext, OnServerInfoResponse

(* What the theorems without faults share. *)
AliveInv == StoreInv /\ ClaimInv /\ EverythingExpires /\ FoundWhileAlive

LEMMA InitAliveInv ==
  ASSUME StoreInit
  PROVE  AliveInv
<1>1. EverythingExpires
  BY LeftFacts DEF StoreInit, EverythingExpires, Forever
<1>2. FoundWhileAlive
  BY DEF StoreInit, FoundWhileAlive
<1> QED
  BY <1>1, <1>2, InitStoreInv, InitClaimInv DEF AliveInv

LEMMA NextAliveInv ==
  ASSUME Faults = {}, AliveInv, [StoreNext]_storeVars
  PROVE  AliveInv'
BY NextStoreInv, NextClaimInv, NextEverythingExpires, NextFoundWhileAlive DEF AliveInv

(* As long as no command fails and no process ends, the mapping of an      *)
(* address does not expire before the hash of its server, whichever        *)
(* handlers and native servers write it and however the expiry interleaves *)
(* with them: a server that lives is found by the next answer.             *)
THEOREM StoreFoundWhileAlive ==
  ASSUME Faults = {}
  PROVE  StoreSpec => []FoundWhileAlive
<1>1. StoreInit => AliveInv
  BY InitAliveInv
<1>2. AliveInv /\ [StoreNext]_storeVars => AliveInv'
  BY NextAliveInv
<1>3. AliveInv => FoundWhileAlive
  BY DEF AliveInv
<1> QED
  BY <1>1, <1>2, <1>3, PTL DEF StoreSpec

-----------------------------------------------------------------------------
(* One key per server. *)

(* No two hashes of injected servers have the same address, on the list or *)
(* not.                                                                    *)
AddressesDiffer ==
  \A k, l \in marked : wanAddress[k] = wanAddress[l] => k = l

(* A handler that has found no key writes to a server that has none, and   *)
(* one that has a key holds the only one of its server.                    *)
HoldsOnlyKey(h) ==
  /\ pc[h] = "incr" => \A k \in marked : wanAddress[k] # source[h]
  /\ pc[h] \in Writing => \A k \in marked : wanAddress[k] = source[h] => k = serverKey[h]

OneKeyInv == AddressesDiffer /\ \A h \in Handlers : HoldsOnlyKey(h)

(* The hash of an injected server has the address of who holds its key.    *)
LEMMA MarkedAddress ==
  ASSUME StoreInv, ClaimInv, NEW h \in Handlers, pc[h] # "idle",
         serverKey[h] \in marked
  PROVE  wanAddress[serverKey[h]] = source[h]
<1>1. HandlerType /\ RedisType
  BY StoreInvParts
<1>2. source[h] \in Addresses
  BY <1>1, AtWork
<1>3. /\ serverKey[h] \in Keys
      /\ wanAddress[serverKey[h]] \in Addresses
  BY <1>1 DEF RedisType
<1>4. /\ Claims(serverKey[h], source[h])
      /\ Claims(serverKey[h], wanAddress[serverKey[h]])
  BY DEF Claims
<1> QED
  BY <1>2, <1>3, <1>4 DEF ClaimInv

(* A server whose address has no mapping has no hash, or somebody is about *)
(* to set its mapping.                                                     *)
LEMMA UnmappedHasNoHash ==
  ASSUME StoreInv, FoundWhileAlive, NEW a \in Addresses, ipmap[a] = NoKey,
         NEW k \in marked, wanAddress[k] = a
  PROVE  Owes(k, MappingCommands)
<1>1. RedisType
  BY StoreInvParts
<1>2. /\ k \in Keys
      /\ hash[k] \in 1..Forever
      /\ a # NoAddress
      /\ ipmapLeft[a] = 0
  BY <1>1, StoreAssumption DEF RedisType, Forever
<1>3. ~Outlasted(k)
  BY <1>2, LeftFacts DEF Outlasted, Forever
<1> QED
  BY <1>2, <1>3, FoundParts

LEMMA NextOneKeyInv ==
  ASSUME \A g, h \in Handlers : g = h, Faults = {}, AliveInv, OneKeyInv,
         [StoreNext]_storeVars
  PROVE  OneKeyInv'
<1>1. StoreInv /\ ClaimInv /\ FoundWhileAlive
  BY DEF AliveInv
<1>2. HandlerType /\ RedisType /\ HandlerType' /\ RedisType'
  BY <1>1, NextStoreInv, StoreInvParts, StoreInvPartsNext
<1>3. ASSUME marked' \subseteq marked, \A k \in marked' : wanAddress'[k] = wanAddress[k]
      PROVE  AddressesDiffer'
  BY <1>3 DEF OneKeyInv, AddressesDiffer
<1>4. ASSUME marked' \subseteq marked, \A k \in marked' : wanAddress'[k] = wanAddress[k],
             UNCHANGED handlerVars
      PROVE  OneKeyInv'
  BY <1>3, <1>4 DEF OneKeyInv, HoldsOnlyKey, handlerVars
<1>5. ASSUME NEW h \in Handlers, HoldsOnlyKey(h)', UNCHANGED <<marked, wanAddress>>
      PROVE  OneKeyInv'
  BY <1>3, <1>5 DEF OneKeyInv
<1>6. ASSUME NEW h \in Handlers, pc'[h] \notin {"incr"} \cup Writing
      PROVE  HoldsOnlyKey(h)'
  BY <1>6 DEF HoldsOnlyKey
<1>7. ASSUME NEW h \in Handlers, pc[h] \in Writing, pc'[h] \in Writing,
             UNCHANGED <<marked, wanAddress, source, serverKey>>
      PROVE  OneKeyInv'
  <2>1. HoldsOnlyKey(h)'
    BY <1>7 DEF OneKeyInv, HoldsOnlyKey, Writing
  <2> QED
    BY <1>5, <1>7, <2>1
<1>8. ASSUME NEW h \in Handlers, NEW a \in Addresses, Answer(h, a)
      PROVE  OneKeyInv'
  BY <1>2, <1>5, <1>6, <1>8 DEF Answer, redisVars, HandlerType, Writing
<1>9. ASSUME NEW h \in Handlers, Exists(h)
      PROVE  OneKeyInv'
  <2>1. /\ pc[h] = "exists"
        /\ pc'[h] = IF ipmap[source[h]] # NoKey THEN "get" ELSE "incr"
        /\ UNCHANGED <<source, serverKey, marked, wanAddress>>
    BY <1>2, <1>9 DEF Exists, Goes, redisVars, HandlerType
  <2>2. source[h] \in Addresses
    BY <1>2, <2>1, AtWork
  <2>3. CASE ipmap[source[h]] # NoKey
    BY <1>5, <1>6, <2>1, <2>3 DEF Writing
  <2>4. CASE ipmap[source[h]] = NoKey
    <3>1. ASSUME NEW k \in marked, wanAddress[k] = source[h] PROVE FALSE
      <4>1. Owes(k, MappingCommands)
        BY <1>1, <2>2, <2>4, <3>1, UnmappedHasNoHash
      <4> QED
        BY <2>1, <4>1 DEF Owes, MappingCommands
    <3>2. HoldsOnlyKey(h)'
      BY <2>1, <2>4, <3>1 DEF HoldsOnlyKey, Writing
    <3> QED
      BY <1>5, <2>1, <3>2
  <2> QED
    BY <2>3, <2>4
<1>10. ASSUME NEW h \in Handlers, Get(h)
       PROVE  OneKeyInv'
  BY <1>2, <1>5, <1>6, <1>10 DEF Get, Goes, redisVars, HandlerType, Writing
<1>11. ASSUME NEW h \in Handlers, HExists(h)
       PROVE  OneKeyInv'
  <2>1. UNCHANGED <<marked, wanAddress>> /\ pc[h] = "hexists"
    BY <1>11 DEF HExists, redisVars
  <2>2. CASE serverKey[h] \in marked
    <3>1. pc'[h] = "hset" /\ UNCHANGED <<source, serverKey>>
      BY <1>2, <1>11, <2>2 DEF HExists, Goes, HandlerType
    <3>2. wanAddress[serverKey[h]] = source[h]
      BY <1>1, <2>1, <2>2, MarkedAddress
    <3>3. HoldsOnlyKey(h)'
      BY <2>1, <2>2, <3>1, <3>2 DEF HoldsOnlyKey, OneKeyInv, AddressesDiffer
    <3> QED
      BY <1>5, <2>1, <3>3
  <2>3. CASE serverKey[h] \notin marked
    <3>1. pc'[h] = "idle"
      BY <1>2, <1>11, <2>3 DEF HExists, Idle, HandlerType
    <3> QED
      BY <1>5, <1>6, <2>1, <3>1 DEF Writing
  <2> QED
    BY <2>2, <2>3
<1>12. ASSUME NEW h \in Handlers, Incr(h)
       PROVE  OneKeyInv'
  <2>1. /\ pc[h] = "incr" /\ pc'[h] = "hset"
        /\ UNCHANGED <<source, marked, wanAddress>>
    BY <1>2, <1>12 DEF Incr, Goes, HandlerType
  <2>2. HoldsOnlyKey(h)'
    BY <2>1 DEF OneKeyInv, HoldsOnlyKey
  <2> QED
    BY <1>5, <2>1, <2>2
<1>13. ASSUME NEW h \in Handlers, HSet(h)
       PROVE  OneKeyInv'
  <2>1. /\ pc[h] = "hset" /\ pc'[h] = "hsetcust"
        /\ marked' = marked \cup {serverKey[h]}
        /\ wanAddress' = [wanAddress EXCEPT ![serverKey[h]] = source[h]]
        /\ UNCHANGED <<source, serverKey>>
    BY <1>2, <1>13 DEF HSet, Goes, HandlerType
  <2>2. serverKey[h] \in Keys /\ marked \subseteq Keys
    BY <1>2, <2>1, AtWork DEF Writing, RedisType
  <2>3. /\ wanAddress'[serverKey[h]] = source[h]
        /\ \A k \in marked \ {serverKey[h]} : wanAddress'[k] = wanAddress[k]
    BY <1>2, <2>1, <2>2 DEF RedisType
  <2>4. \A k \in marked' : wanAddress'[k] = source[h] => k = serverKey[h]
    BY <2>1, <2>3 DEF OneKeyInv, HoldsOnlyKey, Writing
  <2>5. AddressesDiffer'
    BY <2>1, <2>3, <2>4 DEF OneKeyInv, AddressesDiffer
  <2>6. HoldsOnlyKey(h)'
    BY <2>1, <2>4 DEF HoldsOnlyKey
  <2> QED
    BY <2>5, <2>6 DEF OneKeyInv
<1>14. ASSUME NEW h \in Handlers,
              \/ HSetCustkeys(h) \/ HSetNoCustkeys(h)
              \/ Expire(h) \/ ExpireCustkeys(h) \/ Set(h) \/ ExpireIpmap(h)
       PROVE  OneKeyInv'
  <2>1. /\ pc[h] \in Writing /\ pc'[h] \in Writing
        /\ UNCHANGED <<marked, wanAddress, source, serverKey>>
    BY <1>2, <1>14
    DEF HSetCustkeys, HSetNoCustkeys, Expire, ExpireCustkeys, Set, ExpireIpmap, Goes,
        redisVars, HandlerType, Writing
  <2> QED
    BY <1>7, <2>1
<1>15. ASSUME NEW h \in Handlers, ZIncrBy(h)
       PROVE  OneKeyInv'
  BY <1>2, <1>5, <1>6, <1>15 DEF ZIncrBy, Idle, HandlerType, Writing
<1>16. ASSUME NEW h \in Handlers
       PROVE  ~CommandFails(h) /\ ~LastCommandFails(h) /\ ~Crash(h)
  BY DEF CommandFails, LastCommandFails, Crash
<1>17. CASE \/ ZScan \/ ZRem \/ RefreshFails
            \/ \E l \in Keys : HMGet(l) \/ HMGetFails(l)
  BY <1>4, <1>17 DEF ZScan, ZRem, RefreshFails, HMGet, HMGetFails, redisVars
<1>18. CASE Tick
  <2>1. \A k \in marked' : k \in marked /\ k \in Keys /\ hash'[k] # 0
    BY <1>2, <1>18 DEF Tick, RedisType
  <2>2. \A k \in marked' : wanAddress'[k] = wanAddress[k]
    BY <1>18, <2>1 DEF Tick
  <2> QED
    BY <1>4, <1>18, <2>1, <2>2 DEF Tick
<1>19. ASSUME NEW a \in NativeAddresses, NativeReports(a)
       PROVE  OneKeyInv'
  <2>1. \A k \in marked : k \in Keys /\ k # NativeKey(a)
    BY <1>2, KeyFacts DEF RedisType, NativeKeys
  <2>2. /\ marked' = marked
        /\ \A k \in marked : wanAddress'[k] = wanAddress[k]
        /\ UNCHANGED handlerVars
    BY <1>2, <1>19, <2>1 DEF NativeReports, RedisType
  <2> QED
    BY <1>4, <2>2
<1>20. CASE UNCHANGED storeVars
  BY <1>4, <1>20 DEF storeVars, redisVars
<1> QED
  BY <1>8, <1>9, <1>10, <1>11, <1>12, <1>13, <1>14, <1>15, <1>16, <1>17, <1>18, <1>19,
     <1>20
  DEF StoreNext, OnServerInfoResponse, getServerKey

(* A single handler never lists a server under two keys, whenever its keys *)
(* expire, also between two of its commands: it makes a key only for an    *)
(* address whose last hash is gone.                                        *)
THEOREM StoreOneKeyPerServer ==
  ASSUME Faults = {}, \A g, h \in Handlers : g = h
  PROVE  StoreSpec => []OneKeyPerServer
<1>1. StoreInit => AliveInv /\ OneKeyInv
  <2>1. StoreInit => OneKeyInv
    BY DEF StoreInit, OneKeyInv, AddressesDiffer, HoldsOnlyKey, Writing
  <2> QED
    BY <2>1, InitAliveInv
<1>2. AliveInv /\ OneKeyInv /\ [StoreNext]_storeVars => AliveInv' /\ OneKeyInv'
  BY NextAliveInv, NextOneKeyInv
<1>3. OneKeyInv => OneKeyPerServer
  BY DEF OneKeyInv, AddressesDiffer, OneKeyPerServer
<1> QED
  BY <1>1, <1>2, <1>3, PTL DEF StoreSpec

-----------------------------------------------------------------------------
(* The scan of the refresh mode. *)

(* The scan has picked no injected server whose hash lived all through it. *)
PickedLapsed == itemsToDelete \cap InjectedKeys \subseteq lapsed

(* HMGet tells the scan of a server whose hash is gone: the hash of an     *)
(* injected server has its fields as long as it is there (HSet writes all  *)
(* of them), and one that is gone while the scan is on is in lapsed.       *)
ScanInv ==
  /\ PickedLapsed
  /\ \A k \in InjectedKeys : hash[k] # 0 => k \in marked
  /\ refreshPc = "scan" => {k \in Keys : hash[k] = 0} \subseteq lapsed
  /\ refreshPc = "idle" => itemsToDelete = {}

(* A handler brings no hash to its end, and writes none without its fields. *)
LEMMA HandlerWrites ==
  ASSUME StoreInv, NEW h \in Handlers,
         \/ \E a \in Addresses : Answer(h, a)
         \/ OnServerInfoResponse(h)
         \/ CommandFails(h) \/ LastCommandFails(h) \/ Crash(h)
  PROVE  /\ UNCHANGED refreshVars
         /\ game \subseteq game'
         /\ marked \subseteq marked'
         /\ \A k \in Keys : hash[k] # 0 => hash'[k] # 0
         /\ \A k \in Keys : hash'[k] # 0 => hash[k] # 0 \/ k \in marked'
<1>1. HandlerType /\ RedisType
  BY StoreInvParts
<1>2. CASE HSet(h)
  <2>1. /\ hash' = [hash EXCEPT ![serverKey[h]] = Written(@)]
        /\ marked' = marked \cup {serverKey[h]}
        /\ game' = game
        /\ UNCHANGED refreshVars
    BY <1>2 DEF HSet, Goes
  <2>2. \A k \in Keys : Written(hash[k]) # 0
    BY <1>1, LeftFacts DEF RedisType
  <2> QED
    BY <1>1, <2>1, <2>2 DEF RedisType
<1>3. CASE Expire(h)
  <2>1. /\ hash' = [hash EXCEPT ![serverKey[h]] = Renewed(@)]
        /\ UNCHANGED <<marked, game, refreshVars>>
    BY <1>3 DEF Expire, Goes
  <2>2. \A k \in Keys : Renewed(hash[k]) = 0 <=> hash[k] = 0
    BY <1>1, LeftFacts DEF RedisType
  <2> QED
    BY <1>1, <2>1, <2>2 DEF RedisType
<1>4. CASE ZIncrBy(h)
  BY <1>4 DEF ZIncrBy, refreshVars
<1>5. CASE HSetCustkeys(h) \/ HSetNoCustkeys(h) \/ ExpireCustkeys(h) \/ Set(h) \/ ExpireIpmap(h)
  BY <1>5 DEF HSetCustkeys, HSetNoCustkeys, ExpireCustkeys, Set, ExpireIpmap, Goes, redisVars
<1>6. CASE getServerKey(h)
  BY <1>6 DEF getServerKey, Exists, Get, HExists, Incr, Goes, redisVars
<1>7. CASE (\E a \in Addresses : Answer(h, a)) \/ CommandFails(h) \/ LastCommandFails(h) \/ Crash(h)
  BY <1>7 DEF Answer, CommandFails, LastCommandFails, Crash, Goes, redisVars
<1> QED
  BY <1>2, <1>3, <1>4, <1>5, <1>6, <1>7 DEF OnServerInfoResponse

LEMMA NextScanInv ==
  ASSUME StoreInv, ScanInv, [StoreNext]_storeVars
  PROVE  ScanInv'
<1>1. RedisType /\ RefreshType
  BY StoreInvParts
<1>2. ASSUME NEW h \in Handlers,
             \/ \E a \in Addresses : Answer(h, a)
             \/ OnServerInfoResponse(h)
             \/ CommandFails(h) \/ LastCommandFails(h) \/ Crash(h)
      PROVE  ScanInv'
  <2>1. /\ UNCHANGED refreshVars
        /\ marked \subseteq marked'
        /\ \A k \in Keys : hash[k] # 0 => hash'[k] # 0
        /\ \A k \in Keys : hash'[k] # 0 => hash[k] # 0 \/ k \in marked'
    BY <1>2, HandlerWrites
  <2>2. \A k \in InjectedKeys : hash'[k] # 0 => k \in marked'
    BY <2>1, KeyFacts DEF ScanInv
  <2> QED
    BY <2>1, <2>2 DEF ScanInv, PickedLapsed, refreshVars
<1>3. CASE ZScan \/ ZRem \/ RefreshFails
  BY <1>3 DEF ZScan, ZRem, RefreshFails, redisVars, ScanInv, PickedLapsed
<1>4. ASSUME NEW k \in Keys, HMGet(k) \/ HMGetFails(k)
      PROVE  ScanInv'
  <2>1. /\ UNCHANGED <<hash, marked, refreshPc, lapsed>>
        /\ refreshPc = "scan"
        /\ itemsToDelete' \subseteq itemsToDelete \cup ({k} \ marked)
    BY <1>4 DEF HMGet, HMGetFails, redisVars
  <2>2. k \in InjectedKeys \ marked => k \in lapsed
    BY <2>1 DEF ScanInv
  <2> QED
    BY <2>1, <2>2 DEF ScanInv, PickedLapsed
<1>5. CASE Tick
  <2>1. /\ marked' = {k \in marked : hash'[k] # 0}
        /\ lapsed' = IF refreshPc = "scan" THEN lapsed \cup {k \in Keys : hash'[k] = 0} ELSE {}
        /\ UNCHANGED <<refreshPc, itemsToDelete>>
    BY <1>5 DEF Tick
  <2>2. \A k \in Keys : hash'[k] # 0 => hash[k] # 0
    BY <1>1, <1>5, LeftFacts DEF Tick, RedisType
  <2>3. \A k \in InjectedKeys : hash'[k] # 0 => k \in marked'
    BY <2>1, <2>2, KeyFacts DEF ScanInv
  <2>4. refreshPc \in {"idle", "scan"}
    BY <1>1 DEF RefreshType
  <2> QED
    BY <2>1, <2>3, <2>4 DEF ScanInv, PickedLapsed
<1>6. ASSUME NEW a \in NativeAddresses, NativeReports(a)
      PROVE  ScanInv'
  <2>1. /\ hash' = [hash EXCEPT ![NativeKey(a)] = TTL]
        /\ UNCHANGED <<marked, refreshVars>>
    BY <1>6 DEF NativeReports
  <2>2. \A k \in InjectedKeys : k # NativeKey(a)
    BY KeyFacts DEF NativeKeys
  <2>3. \A k \in Keys : hash'[k] = 0 => hash[k] = 0
    BY <1>1, <2>1, LeftFacts DEF RedisType
  <2>4. \A k \in InjectedKeys : hash'[k] = hash[k]
    BY <1>1, <2>1, <2>2, KeyFacts DEF RedisType
  <2> QED
    BY <2>1, <2>3, <2>4 DEF ScanInv, PickedLapsed, refreshVars
<1>7. CASE UNCHANGED storeVars
  BY <1>7 DEF storeVars, redisVars, refreshVars, ScanInv, PickedLapsed
<1> QED
  BY <1>2, <1>3, <1>4, <1>5, <1>6, <1>7 DEF StoreNext

(* Only ZRem takes servers off the list, those the scan has picked. *)
LEMMA RemovedWerePicked ==
  ASSUME StoreInv, [StoreNext]_storeVars
  PROVE  game \ game' \subseteq itemsToDelete
<1>1. ASSUME NEW h \in Handlers,
             \/ \E a \in Addresses : Answer(h, a)
             \/ OnServerInfoResponse(h)
             \/ CommandFails(h) \/ LastCommandFails(h) \/ Crash(h)
      PROVE  game \subseteq game'
  BY <1>1, HandlerWrites
<1>2. CASE ZRem
  BY <1>2 DEF ZRem
<1>3. CASE \/ ZScan \/ RefreshFails \/ Tick
           \/ \E k \in Keys : HMGet(k) \/ HMGetFails(k)
           \/ \E a \in NativeAddresses : NativeReports(a)
           \/ UNCHANGED storeVars
  <2>1. game \subseteq game'
    BY <1>3
    DEF ZScan, RefreshFails, Tick, HMGet, HMGetFails, NativeReports, storeVars, redisVars
  <2> QED
    BY <2>1
<1> QED
  BY <1>1, <1>2, <1>3 DEF StoreNext

(* Refresh mode takes an injected server off the list only if its hash was *)
(* gone at some moment of the scan, whichever handlers write meanwhile,    *)
(* between whichever of their commands keys expire, and whatever fails.    *)
THEOREM StoreRefreshSparesLive == StoreSpec => RefreshSparesLive
<1>1. StoreInit => StoreInv /\ ScanInv
  <2>1. ASSUME StoreInit PROVE ScanInv
    BY <2>1, KeyFacts DEF StoreInit, ScanInv, PickedLapsed
  <2> QED
    BY <2>1, InitStoreInv
<1>2. StoreInv /\ ScanInv /\ [StoreNext]_storeVars => StoreInv' /\ ScanInv'
  BY NextStoreInv, NextScanInv
<1>3. StoreInv /\ ScanInv /\ [StoreNext]_storeVars
        => [game \ game' \subseteq NativeKeys \cup lapsed]_storeVars
  <2>1. ASSUME StoreInv, ScanInv, [StoreNext]_storeVars
        PROVE  game \ game' \subseteq NativeKeys \cup lapsed
    <3>1. game \ game' \subseteq itemsToDelete
      BY <2>1, RemovedWerePicked
    <3>2. game \subseteq NativeKeys \cup InjectedKeys
      BY <2>1 DEF StoreInv, StoreTypeOK, Keys
    <3> QED
      BY <2>1, <3>1, <3>2 DEF ScanInv, PickedLapsed
  <2> QED
    BY <2>1
<1> QED
  BY <1>1, <1>2, <1>3, PTL DEF StoreSpec, RefreshSparesLive
=============================================================================
