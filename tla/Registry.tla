------------------------------- MODULE Registry -------------------------------
(***************************************************************************)
(* Keys and tokens of gateways (package auth) beside the set of connected  *)
(* gateways of GatewayState: a handler of the exchange stores the key of a *)
(* connect message before it adds the gateway, and validates that of a     *)
(* disconnect message before it removes it; streams to the router ask for  *)
(* tokens (GetToken), which are fetched for the key on record.             *)
(*                                                                         *)
(* Both packages use Redis, or neither does. Redis runs each command at    *)
(* once and keeps what it has over crashes. Memory keeps a lock for the    *)
(* map, taken for reading by GetToken and ValidateKey and for writing by   *)
(* SetKey, and one per gateway; the set of gateways is left out then.      *)
(* A token is named by the key it was exchanged for. SetToken, but for     *)
(* what GetToken stores, and Delete are called by nobody.                  *)
(***************************************************************************)
EXTENDS GatewayState

CONSTANTS
  Keys,
  Getters, \* slots for calls of GetToken
  Stores,  \* "redis", "memory": a behaviour uses one
  None     \* no key, no token

ASSUME RegistryNoneAssumption == None \notin Keys \union Gateways
ASSUME RegistryStoresAssumption == Stores \subseteq {"redis", "memory"}

VARIABLES
  store,  \* the kind of store of this behaviour
  key,    \* per gateway, the key on record
  token,  \* per gateway, the token on record
  valid,  \* gateways whose token has not expired
  work,   \* what the handler does: the message and where it is
  get,    \* per call of GetToken: where it is, the key it read, what it returns
  keyless \* history: gateways that a connect message without a key named

stateVars == <<up, gateways, db, writes, restore, owed, faults>>
keyVars == <<store, key, token, valid, keyless>>
registryVars == <<stateVars, keyVars, work, get>>

Rest == [at |-> "rest", gw |-> None, key |-> None]
NoCall == [at |-> "out", gw |-> None, key |-> None, token |-> None]

RegistryInit ==
  /\ Init
  /\ store \in Stores
  /\ store = "memory" => faults = CHOOSE f \in FaultSets : TRUE \* there is no Redis then
  /\ key = [g \in Gateways |-> None] /\ token = [g \in Gateways |-> None]
  /\ valid = {}
  /\ work = Rest
  /\ get = [c \in Getters |-> NoCall]
  /\ keyless = {}

\* A call of GetToken in Memory holds the lock of the map from its start, and
\* that of the gateway from its look at the token, to its end.
ReadLocked == \E c \in Getters : get[c].at \in {"read", "exchange", "store"}
GatewayLocked(g) == \E c \in Getters : get[c].gw = g /\ get[c].at \in {"exchange", "store"}

-----------------------------------------------------------------------------
(* Connect and disconnect messages *)

Goto(at) == work' = IF at = "rest" THEN Rest ELSE [work EXCEPT !.at = at]

\* Mutant: the key is not stored.
ConnectAdds(g, k) ==
  /\ up /\ work = Rest
  /\ work' = [at |-> "add", gw |-> g, key |-> k]
  /\ keyless' = IF k = None THEN keyless \union {g} ELSE keyless
  /\ UNCHANGED <<stateVars, store, key, token, valid, get>>

\* The messages of packet forwarders have no key: none is stored then. (In Memory,
\* they change nothing here.)
Connect(g, k) ==
  /\ up /\ work = Rest
  /\ store = "memory" => k # None
  /\ work' = [at |-> IF k = None THEN "add" ELSE "setkey", gw |-> g, key |-> k]
  /\ keyless' = IF k = None THEN keyless \union {g} ELSE keyless
  /\ UNCHANGED <<stateVars, store, key, token, valid, get>>

\* An error of the store is only logged. The token on record stays.
SetKey ==
  /\ work.at = "setkey"
  /\ store = "memory" => ~ReadLocked
  /\ \/ key' = [key EXCEPT ![work.gw] = work.key]
     \/ store = "redis" /\ "redis" \in faults /\ UNCHANGED key
  /\ Goto(IF store = "memory" THEN "rest" ELSE "add")
  /\ UNCHANGED <<stateVars, store, token, valid, keyless, get>>

AddGateway ==
  /\ work.at = "add"
  /\ IF work.gw \in gateways THEN UNCHANGED stateVars ELSE Add(work.gw)
  /\ Goto("rest")
  /\ UNCHANGED <<keyVars, get>>

Disconnect(g, k) ==
  /\ up /\ work = Rest
  /\ store = "redis" => g \in gateways
  /\ work' = [at |-> "validate", gw |-> g, key |-> k]
  /\ UNCHANGED <<stateVars, keyVars, get>>

\* A key that is not there, or that Redis does not deliver, passes.
ValidateKey ==
  /\ work.at = "validate"
  /\ store = "memory" => ~GatewayLocked(work.gw)
  /\ \/ /\ key[work.gw] \in {None, work.key} \/ (store = "redis" /\ "redis" \in faults)
        /\ Goto(IF store = "memory" THEN "rest" ELSE "remove")
     \/ key[work.gw] \notin {None, work.key} /\ Goto("rest")
  /\ UNCHANGED <<stateVars, keyVars, get>>

\* The gateway stays if the middleware takes too long.
RemoveGateway ==
  /\ work.at = "remove"
  /\ Remove(work.gw) \/ UNCHANGED stateVars
  /\ Goto("rest")
  /\ UNCHANGED <<keyVars, get>>

-----------------------------------------------------------------------------
(* GetToken *)

Move(c, at) == get' = [get EXCEPT ![c].at = at]

\* In Memory the lock is not to be had for reading while SetKey waits for it.
GetToken(c, g) ==
  /\ up /\ get[c] = NoCall
  /\ store = "memory" => work.at # "setkey"
  /\ get' = [get EXCEPT ![c] = [at |-> "read", gw |-> g, key |-> None, token |-> None]]
  /\ UNCHANGED <<stateVars, keyVars, work>>

Return(c, t) == get' = [get EXCEPT ![c].at = "done", ![c].key = None, ![c].token = t]

\* Mutant: a token is served whether or not it has expired.
ReadAnyToken(c) ==
  LET g == get[c].gw IN
  /\ get[c].at = "read"
  /\ store = "memory" => ~GatewayLocked(g)
  /\ IF token[g] # None THEN Return(c, token[g])
     ELSE IF key[g] = None THEN Return(c, None)
     ELSE get' = [get EXCEPT ![c].at = "exchange", ![c].key = key[g]]
  /\ UNCHANGED <<stateVars, keyVars, work>>

\* Or Redis does not answer.
Read(c) ==
  LET g == get[c].gw IN
  /\ get[c].at = "read"
  /\ store = "memory" => ~GatewayLocked(g)
  /\ \/ IF g \in valid THEN Return(c, token[g])
        ELSE IF key[g] = None THEN Return(c, None)
        ELSE get' = [get EXCEPT ![c].at = "exchange", ![c].key = key[g]]
     \/ store = "redis" /\ "redis" \in faults /\ Return(c, None)
  /\ UNCHANGED <<stateVars, keyVars, work>>

\* The account server answers, or fails.
Exchange(c) ==
  /\ get[c].at = "exchange"
  /\ Move(c, "store") \/ Return(c, None)
  /\ UNCHANGED <<stateVars, keyVars, work>>

\* Mutant: Memory stores the token with SetToken, too, which takes the lock for writing.
StoreTokenLocks(c) ==
  LET g == get[c].gw IN
  /\ get[c].at = "store"
  /\ store = "memory" => ~ReadLocked
  /\ token' = [token EXCEPT ![g] = get[c].key] /\ valid' = valid \union {g}
  /\ Return(c, get[c].key)
  /\ UNCHANGED <<stateVars, store, key, keyless, work>>

\* Redis may not take the token; it is served all the same.
StoreToken(c) ==
  LET g == get[c].gw IN
  /\ get[c].at = "store"
  /\ \/ token' = [token EXCEPT ![g] = get[c].key] /\ valid' = valid \union {g}
     \/ store = "redis" /\ "redis" \in faults /\ UNCHANGED <<token, valid>>
  /\ Return(c, get[c].key)
  /\ UNCHANGED <<stateVars, store, key, keyless, work>>

Served(c) ==
  /\ get[c].at = "done"
  /\ get' = [get EXCEPT ![c] = NoCall]
  /\ UNCHANGED <<stateVars, keyVars, work>>

Expire(g) ==
  /\ g \in valid
  /\ valid' = valid \ {g}
  /\ UNCHANGED <<stateVars, store, key, token, keyless, work, get>>

-----------------------------------------------------------------------------
(* Crashes, and what GatewayState does by itself *)

CrashAll ==
  /\ store = "redis"
  /\ Crash
  /\ work' = Rest
  /\ get' = [c \in Getters |-> NoCall]
  /\ UNCHANGED keyVars

StateAlone ==
  /\ store = "redis"
  /\ \/ \E g \in Gateways : ForceAdd(g) \/ \E op \in Ops : Apply(g, op) \/ Lose(g, op)
     \/ Restart
  /\ UNCHANGED <<keyVars, work, get>>

Handler == SetKey \/ AddGateway \/ ValidateKey \/ RemoveGateway
GetterStep(c) == Read(c) \/ Exchange(c) \/ StoreToken(c) \/ Served(c)

RegistryNext ==
  \/ \E g \in Gateways, k \in Keys \union {None} : Connect(g, k) \/ Disconnect(g, k)
  \/ Handler
  \/ \E c \in Getters : GetterStep(c) \/ \E g \in Gateways : GetToken(c, g)
  \/ \E g \in Gateways : Expire(g)
  \/ CrashAll
  \/ StateAlone

\* Handlers and calls go on, the account server answers, Redis gets its
\* commands, tokens expire; nobody needs to connect or to ask for a token. A
\* handler gets a lock that is free again and again: a Mutex hands itself over to
\* a goroutine that has waited for a millisecond.
RegistrySpec ==
  /\ RegistryInit
  /\ [][RegistryNext]_registryVars
  /\ SF_registryVars(Handler) /\ WF_registryVars(StateAlone)
  /\ \A c \in Getters : WF_registryVars(GetterStep(c))
  /\ \A g \in Gateways : WF_registryVars(Expire(g))

-----------------------------------------------------------------------------
(* Properties *)

\* Of the gateways that a bridge finds in Redis when it starts, those that sent a
\* key with every connect message have one: it is there before the gateway is
\* (exchange.go:225-233), wherever the process crashes in between. Gateways of the
\* packet forwarder send none (pktfwd.go:95), and are restored without.
RestoredHasKey ==
  store = "redis" /\ "redis" \notin faults =>
    \A g \in (db \union gateways) \ keyless : key[g] # None

\* When the key of a gateway no longer changes, calls of GetToken come to return
\* tokens for that key only, though SetKey leaves the old token on record and a
\* call under way may store one for the old key after it (redis_auth.go:58-60,
\* 101); a token without expiry would stay for ever.
NewKeyTakesOver ==
  \A g \in Gateways, k \in Keys :
    <>[](key[g] = k) =>
      <>[](\A c \in Getters : get[c].gw = g /\ get[c].at = "done" => get[c].token \in {None, k})

\* Connect and disconnect messages are handled although Memory's locks are held
\* while the account server is asked (memory_auth.go:93-110), however many
\* streams ask.
HandlerReturns == work.at # "rest" ~> work.at = "rest"
=============================================================================
