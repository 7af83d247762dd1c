---------------------------- MODULE RegistryProofs ----------------------------
(***************************************************************************)
(* When commands about a gateway never overlap, its copy in Redis is right *)
(* whenever nothing is under way, and connections survive crashes, for any *)
(* number of gateways. The set of gateways beside the store of keys does   *)
(* what GatewayState says, so all this holds there, too; and the key of a  *)
(* gateway that sends one is in Redis before the gateway is.               *)
(***************************************************************************)
EXTENDS Registry, TLAPS

-----------------------------------------------------------------------------
(* The set of connected gateways and its copy *)

NoWrite == [op \in Ops |-> 0]
One(o) == [op \in Ops |-> IF op = o THEN 1 ELSE 0]

\* At most one command of a gateway is under way.
Calm == \A g \in Gateways : writes[g] \in {NoWrite, One("add"), One("rem")}

\* What Redis will say of a gateway once it has had the command under way: it
\* lists the connected ones, and may list others only while they are to be
\* connected.
Listed(g) == IF writes[g] = NoWrite THEN g \in db ELSE writes[g] = One("add")

\* Inductive: PersistedAgrees speaks of gateways at rest, this of all of them.
StateInv ==
  /\ TypeOK
  /\ Calm
  /\ up => \A g \in Gateways : /\ g \in gateways => Listed(g)
                               /\ Listed(g) => g \in gateways \union restore
  /\ ~up => gateways = {} /\ \A g \in Gateways : writes[g] = NoWrite

\* The set of faults of a behaviour does not change.
LEMMA FaultsStay == [Next]_vars => faults' = faults
BY DEF Next, vars, Add, ForceAdd, Remove, Apply, Lose, Crash, Restart

\* Every step keeps the variables within their types.
LEMMA TypeStep == TypeOK /\ [Next]_vars => TypeOK'
<1> SUFFICES ASSUME TypeOK, [Next]_vars PROVE TypeOK'
  OBVIOUS
<1> USE DEF TypeOK
<1>0. \A g \in Gateways, op \in Ops : writes[g][op] \in Nat
  OBVIOUS
<1>1. ASSUME NEW g \in Gateways, NEW op \in Ops, Write(g, op)
      PROVE  writes' \in [Gateways -> [Ops -> Nat]]
  BY <1>0, <1>1 DEF Write
<1>2. ASSUME NEW g \in Gateways, Add(g) PROVE TypeOK'
  BY <1>1, <1>2 DEF Add, Ops
<1>3. ASSUME NEW g \in Gateways, ForceAdd(g) PROVE TypeOK'
  BY <1>1, <1>3 DEF ForceAdd, Ops
<1>4. ASSUME NEW g \in Gateways, Remove(g) PROVE TypeOK'
  BY <1>1, <1>4 DEF Remove, Ops
<1>5. ASSUME NEW g \in Gateways, NEW op \in Ops, Apply(g, op) \/ Lose(g, op) PROVE TypeOK'
  <2>1. writes' \in [Gateways -> [Ops -> Nat]]
    BY <1>0, <1>5 DEF Apply, Lose
  <2> QED
    BY <1>5, <2>1 DEF Apply, Lose
<1>6. CASE Crash
  <2>1. writes' \in [Gateways -> [Ops -> Nat]]
    BY <1>6 DEF Crash
  <2>2. up' \in BOOLEAN
    BY <1>6 DEF Crash
  <2> QED
    BY <1>6, <2>1, <2>2 DEF Crash
<1>7. CASE Restart
  BY <1>7 DEF Restart
<1>8. CASE UNCHANGED vars
  BY <1>8 DEF vars
<1> HIDE DEF TypeOK
<1> QED
  BY <1>2, <1>3, <1>4, <1>5, <1>6, <1>7, <1>8 DEF Next

\* The set, its copy and the commands under way are well formed (state.go).
THEOREM TypeCorrect == Spec => []TypeOK
<1>1. Init => TypeOK
  BY DEF Init, TypeOK
<1> QED
  BY <1>1, TypeStep, PTL DEF Spec

\* The commands NoWrite, One("add") and One("rem") are told apart.
LEMMA Distinct == NoWrite # One("add") /\ NoWrite # One("rem") /\ One("add") # One("rem")
<1>1. NoWrite["add"] = 0 /\ One("add")["add"] = 1 /\ One("rem")["add"] = 0
  BY DEF NoWrite, One, Ops
<1>2. NoWrite["rem"] = 0 /\ One("rem")["rem"] = 1
  BY DEF NoWrite, One, Ops
<1> QED
  BY <1>1, <1>2

\* A command that starts is the only one of its gateway.
LEMMA WriteStep ==
  ASSUME TypeOK, NEW g \in Gateways, Quiet(g), NEW op \in Ops, Write(g, op)
  PROVE  writes' = [writes EXCEPT ![g] = One(op)]
<1>1. writes[g] = NoWrite
  BY DEF Quiet, NoWrite
<1>2. [writes[g] EXCEPT ![op] = @ + 1] = One(op)
  BY <1>1 DEF NoWrite, One
<1> QED
  BY <1>2 DEF Write, TypeOK

\* A command that ends leaves none of its gateway.
LEMMA EndStep ==
  ASSUME TypeOK, Calm, NEW g \in Gateways, NEW op \in Ops, writes[g][op] > 0,
         writes' = [writes EXCEPT ![g][op] = @ - 1]
  PROVE  writes[g] = One(op) /\ writes' = [writes EXCEPT ![g] = NoWrite]
<1>1. writes[g] = One(op)
  BY DEF Calm, NoWrite, One, Ops
<1>2. [writes[g] EXCEPT ![op] = @ - 1] = NoWrite
  BY <1>1 DEF NoWrite, One
<1> QED
  BY <1>1, <1>2 DEF TypeOK

\* Without overlaps and lost commands, every step keeps Redis right about the
\* gateways, as soon as the command under way has reached it.
LEMMA StateStep ==
  ASSUME faults \intersect {"overlap", "redis"} = {}
  PROVE  StateInv /\ [Next]_vars => StateInv'
<1> SUFFICES ASSUME StateInv, [Next]_vars PROVE StateInv'
  OBVIOUS
<1>0. TypeOK'
  BY TypeStep DEF StateInv
<1> USE Distinct DEF StateInv
<1>1. ASSUME NEW g \in Gateways, MayWrite(g), NEW op \in Ops, Write(g, op)
      PROVE  writes' = [writes EXCEPT ![g] = One(op)]
  BY <1>1, WriteStep DEF MayWrite
<1>2. ASSUME NEW g \in Gateways, Add(g) PROVE StateInv'
  <2>1. writes' = [writes EXCEPT ![g] = One("add")]
    BY <1>1, <1>2 DEF Add, Ops
  <2> QED
    BY <1>0, <1>2, <2>1 DEF Add, MayWrite, TypeOK, Calm, Listed
<1>3. ASSUME NEW g \in Gateways, ForceAdd(g) PROVE StateInv'
  <2>1. CASE g \in gateways
    BY <1>0, <1>3, <2>1 DEF ForceAdd, TypeOK, Calm, Listed
  <2>2. CASE g \notin gateways
    <3>1. writes' = [writes EXCEPT ![g] = One("add")]
      BY <1>1, <1>3, <2>2 DEF ForceAdd, Ops
    <3> QED
      BY <1>0, <1>3, <2>2, <3>1 DEF ForceAdd, MayWrite, TypeOK, Calm, Listed
  <2> QED
    BY <2>1, <2>2
<1>4. ASSUME NEW g \in Gateways, Remove(g) PROVE StateInv'
  <2>1. writes' = [writes EXCEPT ![g] = One("rem")]
    BY <1>1, <1>4 DEF Remove, Ops
  <2> QED
    BY <1>0, <1>4, <2>1 DEF Remove, TypeOK, Calm, Listed
<1>5. ASSUME NEW g \in Gateways, NEW op \in Ops, Apply(g, op) PROVE StateInv'
  <2>1. writes[g] = One(op) /\ writes' = [writes EXCEPT ![g] = NoWrite]
    BY <1>5, EndStep DEF Apply
  <2>2. CASE op = "add"
    BY <1>0, <1>5, <2>1, <2>2 DEF Apply, TypeOK, Calm, Listed
  <2>3. CASE op = "rem"
    BY <1>0, <1>5, <2>1, <2>3 DEF Apply, TypeOK, Calm, Listed
  <2> QED
    BY <2>2, <2>3 DEF Ops
<1>6. CASE Crash
  BY <1>0, <1>6 DEF Crash, Calm, NoWrite, TypeOK
<1>7. CASE Restart
  BY <1>0, <1>7 DEF Restart, Calm, Listed
<1>8. CASE UNCHANGED vars
  BY <1>0, <1>8 DEF vars, Calm, Listed
<1> HIDE DEF StateInv
<1> QED
  BY <1>2, <1>3, <1>4, <1>5, <1>6, <1>7, <1>8 DEF Next, Lose

\* In Redis a gateway is listed if and only if it is connected, as soon as
\* nothing about it is under way: what InitRedisState returns to the next bridge
\* is right (state.go:29-62), for any number of gateways, crashes included.
THEOREM Persisted == Spec => []PersistedAgrees
<1> DEFINE Good == faults \intersect {"overlap", "redis"} = {}
<1>1. Init => (Good => StateInv)
  BY Distinct DEF Init, StateInv, TypeOK, Calm, Listed, NoWrite
<1>2. (Good => StateInv) /\ [Next]_vars => (Good => StateInv)'
  BY StateStep, FaultsStay
<1>3. (Good => StateInv) => PersistedAgrees
  BY Distinct DEF StateInv, PersistedAgrees, Listed, Quiet, NoWrite
<1> HIDE DEF Good
<1> QED
  BY <1>1, <1>2, <1>3, PTL DEF Spec

\* A gateway whose connection is on record stays listed in Redis until it is
\* removed, and is connected or about to be whenever the bridge runs.
KeepInv ==
  /\ TypeOK
  /\ Calm
  /\ \A g \in owed : writes[g] # One("rem")
  /\ owed \subseteq db
  /\ up => owed \subseteq gateways \union restore

\* Every step keeps a gateway on record until it is removed, lost commands
\* included.
LEMMA KeepStep ==
  ASSUME faults \intersect {"overlap"} = {}
  PROVE  KeepInv /\ [Next]_vars => KeepInv'
<1> SUFFICES ASSUME KeepInv, [Next]_vars PROVE KeepInv'
  OBVIOUS
<1>0. TypeOK'
  BY TypeStep DEF KeepInv
<1> USE Distinct DEF KeepInv
<1>1. ASSUME NEW g \in Gateways, MayWrite(g), NEW op \in Ops, Write(g, op)
      PROVE  writes' = [writes EXCEPT ![g] = One(op)]
  BY <1>1, WriteStep DEF MayWrite
<1>2. ASSUME NEW g \in Gateways, Add(g) PROVE KeepInv'
  <2>1. writes' = [writes EXCEPT ![g] = One("add")]
    BY <1>1, <1>2 DEF Add, Ops
  <2> QED
    BY <1>0, <1>2, <2>1 DEF Add, TypeOK, Calm
<1>3. ASSUME NEW g \in Gateways, ForceAdd(g) PROVE KeepInv'
  <2>1. CASE g \in gateways
    BY <1>0, <1>3, <2>1 DEF ForceAdd, TypeOK, Calm
  <2>2. CASE g \notin gateways
    <3>1. writes' = [writes EXCEPT ![g] = One("add")]
      BY <1>1, <1>3, <2>2 DEF ForceAdd, Ops
    <3> QED
      BY <1>0, <1>3, <2>2, <3>1 DEF ForceAdd, TypeOK, Calm
  <2> QED
    BY <2>1, <2>2
<1>4. ASSUME NEW g \in Gateways, Remove(g) PROVE KeepInv'
  <2>1. writes' = [writes EXCEPT ![g] = One("rem")]
    BY <1>1, <1>4 DEF Remove, Ops
  <2> QED
    BY <1>0, <1>4, <2>1 DEF Remove, TypeOK, Calm
<1>5. ASSUME NEW g \in Gateways, NEW op \in Ops, Apply(g, op) PROVE KeepInv'
  <2>1. writes[g] = One(op) /\ writes' = [writes EXCEPT ![g] = NoWrite]
    BY <1>5, EndStep DEF Apply
  <2>2. CASE op = "add"
    BY <1>0, <1>5, <2>1, <2>2 DEF Apply, TypeOK, Calm
  <2>3. CASE op = "rem"
    BY <1>0, <1>5, <2>1, <2>3 DEF Apply, TypeOK, Calm
  <2> QED
    BY <2>2, <2>3 DEF Ops
<1>6. ASSUME NEW g \in Gateways, NEW op \in Ops, Lose(g, op) PROVE KeepInv'
  <2>1. writes[g] = One(op) /\ writes' = [writes EXCEPT ![g] = NoWrite]
    BY <1>6, EndStep DEF Lose
  <2> QED
    BY <1>0, <1>6, <2>1 DEF Lose, TypeOK, Calm
<1>7. CASE Crash
  BY <1>0, <1>7 DEF Crash, Calm, NoWrite, TypeOK
<1>8. CASE Restart
  \* Nobody is owed anything after a start that could not read the set.
  BY <1>0, <1>8 DEF Restart, Calm
<1>9. CASE UNCHANGED vars
  BY <1>0, <1>9 DEF vars, Calm
<1> HIDE DEF KeepInv
<1> QED
  BY <1>2, <1>3, <1>4, <1>5, <1>6, <1>7, <1>8, <1>9 DEF Next

\* A gateway whose connection reached Redis is connected again after any number
\* of crashes, though Redis may lose commands, unless it disconnected or a start
\* could not read the set.
THEOREM Restarted == Spec => []RestartKeeps
<1> DEFINE Good == faults \intersect {"overlap"} = {}
<1>1. Init => (Good => KeepInv)
  BY DEF Init, KeepInv, TypeOK, Calm, NoWrite
<1>2. (Good => KeepInv) /\ [Next]_vars => (Good => KeepInv)'
  BY KeepStep, FaultsStay
<1>3. (Good => KeepInv) => RestartKeeps
  BY DEF KeepInv, RestartKeeps
<1> HIDE DEF Good
<1> QED
  BY <1>1, <1>2, <1>3, PTL DEF Spec

-----------------------------------------------------------------------------
(* Beside the store of keys *)

\* What the handler has in hand.
WorkShape ==
  \/ work = Rest
  \/ /\ work.at \in {"setkey", "add", "validate", "remove"}
     /\ work = [at |-> work.at, gw |-> work.gw, key |-> work.key]
     /\ work.gw \in Gateways /\ work.key \in Keys \union {None}
     /\ work.at = "setkey" => work.key # None

\* Inductive: the gateways RestoredHasKey speaks of come from the handler, from
\* commands under way and from what was read at the start.
Known(g) ==
  \/ g \in db \union gateways \union restore
  \/ writes[g]["add"] > 0
  \/ work.at = "add" /\ work.gw = g

KeyInv ==
  /\ TypeOK
  /\ WorkShape
  /\ key \in [Gateways -> Keys \union {None}]
  /\ store = "redis" /\ "redis" \notin faults =>
       \A g \in Gateways \ keyless : Known(g) => key[g] # None

\* The handler always has a gateway and what its message says, or nothing.
LEMMA WorkStep == WorkShape /\ [RegistryNext]_registryVars => WorkShape'
<1> SUFFICES ASSUME WorkShape, [RegistryNext]_registryVars PROVE WorkShape'
  OBVIOUS
<1>1. ASSUME NEW at \in {"rest", "add", "remove"}, work # Rest, Goto(at) PROVE WorkShape'
  <2>1. CASE at = "rest"
    BY <1>1, <2>1 DEF Goto, WorkShape
  <2>2. CASE at # "rest"
    <3>1. work' = [at |-> at, gw |-> work.gw, key |-> work.key]
      BY <1>1, <2>2 DEF Goto, WorkShape
    <3> QED
      BY <1>1, <2>2, <3>1 DEF WorkShape
  <2> QED
    BY <2>1, <2>2
<1>2. ASSUME work = Rest PROVE work.at = "rest"
  BY <1>2 DEF Rest
<1>3. ASSUME NEW g \in Gateways, NEW k \in Keys \union {None}, Connect(g, k) \/ Disconnect(g, k) PROVE WorkShape'
  BY <1>3, RegistryNoneAssumption DEF Connect, Disconnect, WorkShape
<1>4. CASE Handler
  BY <1>1, <1>2, <1>4 DEF Handler, SetKey, AddGateway, ValidateKey, RemoveGateway
<1>5. CASE CrashAll
  BY <1>5 DEF CrashAll, WorkShape
<1>6. ASSUME UNCHANGED work PROVE WorkShape'
  BY <1>6 DEF WorkShape, Rest
<1>7. ASSUME NEW c \in Getters, GetterStep(c) \/ \E g \in Gateways : GetToken(c, g) PROVE UNCHANGED work
  BY <1>7 DEF GetterStep, Read, Exchange, StoreToken, Served, GetToken
<1>8. ASSUME NEW g \in Gateways, Expire(g) PROVE UNCHANGED work
  BY <1>8 DEF Expire
<1>9. CASE StateAlone
  BY <1>6, <1>9 DEF StateAlone
<1>10. CASE UNCHANGED registryVars
  BY <1>6, <1>10 DEF registryVars
<1> QED
  BY <1>3, <1>4, <1>5, <1>6, <1>7, <1>8, <1>9, <1>10 DEF RegistryNext

\* A step of the composition is one of GatewayState, or leaves its variables.
LEMMA StepMaps == WorkShape /\ [RegistryNext]_registryVars => [Next]_vars
<1> SUFFICES ASSUME WorkShape, [RegistryNext]_registryVars PROVE [Next]_vars
  OBVIOUS
<1> USE DEF vars, stateVars
<1>1. ASSUME NEW g \in Gateways, NEW k \in Keys \union {None}, Connect(g, k) \/ Disconnect(g, k) PROVE UNCHANGED vars
  BY <1>1 DEF Connect, Disconnect
<1>2. CASE Handler
  <2>1. CASE SetKey \/ ValidateKey
    BY <2>1 DEF SetKey, ValidateKey
  <2>2. CASE AddGateway
    BY <2>2 DEF AddGateway, Next, WorkShape, Rest
  <2>3. CASE RemoveGateway
    BY <2>3 DEF RemoveGateway, Next, WorkShape, Rest
  <2> QED
    BY <1>2, <2>1, <2>2, <2>3 DEF Handler
<1>3. ASSUME NEW c \in Getters, GetterStep(c) \/ \E g \in Gateways : GetToken(c, g) PROVE UNCHANGED vars
  BY <1>3 DEF GetterStep, Read, Exchange, StoreToken, Served, GetToken
<1>4. ASSUME NEW g \in Gateways, Expire(g) PROVE UNCHANGED vars
  BY <1>4 DEF Expire
<1>5. CASE CrashAll
  BY <1>5 DEF CrashAll, Next
<1>6. CASE StateAlone
  BY <1>6 DEF StateAlone, Next
<1>7. CASE UNCHANGED registryVars
  BY <1>7 DEF registryVars
<1> QED
  BY <1>1, <1>2, <1>3, <1>4, <1>5, <1>6, <1>7 DEF RegistryNext

\* The registry implements GatewayState: with keys, tokens and a handler around
\* it, the set of gateways and its copy do nothing that module does not allow.
THEOREM Implements == RegistrySpec => Spec
<1>1. RegistryInit => Init /\ WorkShape
  BY DEF RegistryInit, WorkShape
<1> QED
  BY <1>1, WorkStep, StepMaps, PTL DEF RegistrySpec, Spec

\* What Redis lists agrees with the set beside the stores of keys, too.
THEOREM RegistryPersisted == RegistrySpec => []PersistedAgrees
BY Implements, Persisted, PTL

\* Restarts keep connections beside the stores of keys, too.
THEOREM RegistryRestarted == RegistrySpec => []RestartKeeps
BY Implements, Restarted, PTL

\* The kind of store does not change.
LEMMA StoreStays == [RegistryNext]_registryVars => store' = store
BY DEF RegistryNext, registryVars, keyVars, Connect, Disconnect, Handler, SetKey, AddGateway, ValidateKey,
       RemoveGateway, GetterStep, Read, Exchange, StoreToken, Served, GetToken, Expire, CrashAll, StateAlone

\* A key that is on record stays, or is replaced by another.
LEMMA KeyStays ==
  ASSUME WorkShape, key \in [Gateways -> Keys \union {None}], [RegistryNext]_registryVars
  PROVE  /\ key' \in [Gateways -> Keys \union {None}]
         /\ \A g \in Gateways : key[g] # None => key'[g] # None
<1>1. CASE SetKey
  <2>1. work.gw \in Gateways /\ work.key \in Keys /\ work.key # None
    BY <1>1, RegistryNoneAssumption DEF SetKey, WorkShape, Rest
  <2> QED
    BY <1>1, <2>1 DEF SetKey
<1>2. CASE ~SetKey
  <2>1. key' = key
    BY <1>2 DEF RegistryNext, registryVars, keyVars, Connect, Disconnect, Handler, AddGateway, ValidateKey,
       RemoveGateway, GetterStep, Read, Exchange, StoreToken, Served, GetToken, Expire, CrashAll, StateAlone
  <2> QED
    BY <2>1
<1> QED
  BY <1>1, <1>2

\* Whom a step of GatewayState makes known was known.
LEMMA KnownStays ==
  ASSUME TypeOK, NEW g \in Gateways, [Next]_vars,
         g \in db' \union gateways' \union restore' \/ writes'[g]["add"] > 0
  PROVE  \/ g \in db \union gateways \union restore \/ writes[g]["add"] > 0
         \/ Add(g)
<1> USE DEF TypeOK
<1>1. ASSUME NEW h \in Gateways, NEW op \in Ops, Write(h, op), op = "rem" \/ h # g
      PROVE  writes'[g]["add"] = writes[g]["add"]
  BY <1>1 DEF Write, Ops
<1>2. ASSUME NEW h \in Gateways, Add(h) PROVE h = g \/ g \in db \union gateways \union restore \/ writes[g]["add"] > 0
  BY <1>1, <1>2 DEF Add, Ops
<1>3. ASSUME NEW h \in Gateways, ForceAdd(h) PROVE g \in db \union gateways \union restore \/ writes[g]["add"] > 0
  BY <1>1, <1>3 DEF ForceAdd, Ops
<1>4. ASSUME NEW h \in Gateways, Remove(h) PROVE g \in db \union gateways \union restore \/ writes[g]["add"] > 0
  BY <1>1, <1>4 DEF Remove, Ops
<1>5. ASSUME NEW h \in Gateways, NEW op \in Ops, Apply(h, op) \/ Lose(h, op)
      PROVE  g \in db \union gateways \union restore \/ writes[g]["add"] > 0
  <2>1. writes'[g]["add"] > 0 => writes[g]["add"] > 0
    <3>1. writes[g]["add"] \in Nat /\ writes[h][op] \in Nat
      BY DEF Ops
    <3>2. writes'[g]["add"] = IF h = g /\ op = "add" THEN writes[g]["add"] - 1 ELSE writes[g]["add"]
      BY <1>5 DEF Apply, Lose, Ops
    <3> QED
      BY <3>1, <3>2
  <2> QED
    BY <1>5, <2>1 DEF Apply, Lose
<1>6. CASE Crash \/ Restart
  <2>1. Crash => writes'[g]["add"] = 0
    BY DEF Crash, Ops
  <2> QED
    BY <1>6, <2>1 DEF Crash, Restart
<1>7. CASE UNCHANGED vars
  BY <1>7 DEF vars
<1> QED
  BY <1>2, <1>3, <1>4, <1>5, <1>6, <1>7 DEF Next

\* Who sent a connect message without a key stays noted.
LEMMA KeylessStays == [RegistryNext]_registryVars => keyless \subseteq keyless'
BY DEF RegistryNext, registryVars, keyVars, Connect, Disconnect, Handler, SetKey, AddGateway, ValidateKey,
       RemoveGateway, GetterStep, Read, Exchange, StoreToken, Served, GetToken, Expire, CrashAll, StateAlone

\* Every step keeps the keys of all that are known and have sent one.
LEMMA KeyStep == KeyInv /\ [RegistryNext]_registryVars => KeyInv'
<1> SUFFICES ASSUME KeyInv, [RegistryNext]_registryVars PROVE KeyInv'
  OBVIOUS
<1>1. [Next]_vars /\ TypeOK' /\ WorkShape'
  BY StepMaps, TypeStep, WorkStep DEF KeyInv
<1>2. /\ key' \in [Gateways -> Keys \union {None}]
      /\ \A g \in Gateways : key[g] # None => key'[g] # None
  BY KeyStays DEF KeyInv
<1>3. store' = store /\ faults' = faults
  BY <1>1, StoreStays, FaultsStay
<1>4. ASSUME store = "redis", "redis" \notin faults, NEW g \in Gateways \ keyless', Known(g)'
      PROVE  key'[g] # None
  <2>0. g \in Gateways \ keyless
    BY KeylessStays
  <2>1. CASE Known(g)
    BY <1>2, <1>4, <2>0, <2>1 DEF KeyInv
  <2>2. CASE ~Known(g)
    <3>1. ~Add(g)
      \* Add is a step of AddGateway only, for the gateway it has in hand.
      <4>1. ASSUME Add(g) PROVE FALSE
        <5>1. gateways' = gateways \union {g} /\ g \notin gateways /\ g \notin restore /\ restore' = restore /\ up' = up
          BY <2>2, <4>1 DEF Add, Known
        <5>2. CASE AddGateway
          <6>1. work.at = "add" /\ work.gw # g /\ work.gw \in Gateways
            BY <2>2, <5>2 DEF AddGateway, Known, KeyInv, WorkShape, Rest
          <6> QED
            BY <5>1, <5>2, <6>1 DEF AddGateway, stateVars, Add
        <5>3. CASE StateAlone
          <6>1. ASSUME NEW h \in Gateways, ForceAdd(h) PROVE FALSE
            BY <5>1, <6>1 DEF ForceAdd
          <6> QED
            BY <5>1, <5>3, <6>1 DEF StateAlone, Apply, Lose, Restart
        <5>4. CASE RemoveGateway
          BY <5>1, <5>4 DEF RemoveGateway, Remove, stateVars
        <5>5. CASE CrashAll
          BY <5>1, <5>5 DEF CrashAll, Crash
        <5>6. CASE ~(AddGateway \/ StateAlone \/ RemoveGateway \/ CrashAll)
          <6>1. gateways' = gateways
            BY <5>6 DEF RegistryNext, registryVars, stateVars, Connect, Disconnect, Handler, SetKey, ValidateKey,
                        GetterStep, Read, Exchange, StoreToken, Served, GetToken, Expire
          <6> QED
            BY <5>1, <6>1
        <5> QED
          BY <5>2, <5>3, <5>4, <5>5, <5>6
      <4> QED
        BY <4>1
    <3>2. work'.at = "add" /\ work'.gw = g
      BY <1>1, <1>4, <2>2, <3>1, KnownStays DEF Known, KeyInv
    <3>3. work # work'
      BY <2>2, <3>2 DEF Known
    <3>4. CASE SetKey
      <4>1. work.gw = g /\ work.key \in Keys /\ work.key # None
        BY <3>2, <3>4, RegistryNoneAssumption DEF SetKey, Goto, Rest, WorkShape, KeyInv
      <4> QED
        BY <1>4, <3>4, <4>1 DEF SetKey, KeyInv
    <3>5. CASE ~SetKey
      <4>1. work'.at # "add"
        <5>1. ASSUME NEW at \in {"rest", "remove"}, work # Rest, Goto(at) PROVE work'.at # "add"
          <6>1. CASE at = "rest"
            BY <5>1, <6>1 DEF Goto, Rest
          <6>2. CASE at = "remove"
            BY <5>1, <6>2 DEF Goto, WorkShape, KeyInv
          <6> QED
            BY <5>1, <6>1, <6>2
        <5>2. CASE AddGateway \/ ValidateKey \/ RemoveGateway
          BY <5>1, <5>2 DEF AddGateway, ValidateKey, RemoveGateway, Rest
        <5>3. ASSUME NEW h \in Gateways, NEW k \in Keys \union {None}, Connect(h, k) \/ Disconnect(h, k) PROVE work'.at # "add"
          \* Only a message without a key goes there at once, and its gateway is noted.
          <6>1. Connect(h, None) => h \in keyless'
            BY DEF Connect
          <6> QED
            BY <3>2, <5>3, <6>1 DEF Connect, Disconnect
        <5>4. CASE CrashAll
          BY <5>4 DEF CrashAll, Rest
        <5>5. CASE StateAlone \/ (\E c \in Getters : GetterStep(c) \/ \E h \in Gateways : GetToken(c, h))
                   \/ (\E h \in Gateways : Expire(h)) \/ UNCHANGED registryVars
          <6>1. work' = work
            BY <5>5 DEF StateAlone, GetterStep, Read, Exchange, StoreToken, Served, GetToken, Expire, registryVars
          <6> QED
            BY <3>3, <6>1
        <5> QED
          BY <3>5, <5>2, <5>3, <5>4, <5>5 DEF RegistryNext, Handler
      <4> QED
        BY <3>2, <4>1
    <3> QED
      BY <3>4, <3>5
  <2> QED
    BY <2>1, <2>2
<1> QED
  BY <1>1, <1>2, <1>3, <1>4 DEF KeyInv

\* A gateway that a bridge finds in Redis when it starts has its key there, unless
\* it sent a connect message without one, wherever the bridge before crashed
\* (exchange.go:225-233).
THEOREM RestoredKeys == RegistrySpec => []RestoredHasKey
<1>1. RegistryInit => KeyInv
  BY DEF RegistryInit, Init, KeyInv, TypeOK, WorkShape, Known, Rest, Ops
<1>2. KeyInv => RestoredHasKey
  BY DEF KeyInv, RestoredHasKey, Known, TypeOK
<1> QED
  BY <1>1, <1>2, KeyStep, PTL DEF RegistrySpec
=============================================================================
