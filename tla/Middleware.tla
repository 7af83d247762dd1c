------------------------------ MODULE Middleware ------------------------------
(***************************************************************************)
(* The middleware of the bridge (middleware/): the chain that cmd.go puts   *)
(* together, the goroutine each Execute runs it in, and what blacklist,     *)
(* deduplicate, ratelimit and gatewayinfo keep per gateway. The workers of  *)
(* the exchange execute the chain for every message and go on when it       *)
(* refuses the message or takes too long; in the latter case its goroutine  *)
(* runs on. debug and inject, which change fields of the message in hand,   *)
(* are left out.                                                            *)
(***************************************************************************)
EXTENDS Integers, Sequences, FiniteSets

CONSTANTS
  Gateways,   \* IDs as messages spell them
  Lower,      \* strings.ToLower of each
  Uplinks,    \* uplink messages that differ in payload or timestamp
  Junk,       \* those that are not LoRaWAN uplink
  Lists,      \* locations of blacklists
  Limits,     \* per counted kind of message: how many a minute, 0 for no limit
  NWorkers,   \* workers of the exchange
  Jobs,       \* slots for goroutines of Execute; reused when they end
  Limiters,   \* slots for limits; reused when nothing refers to them
  MaxFetches, \* bound on the fetches and the unsets under way for a gateway
  FaultSets,  \* what may happen, see FaultKinds: a behaviour keeps to one of the sets
  None

\* "parallel": a connect or disconnect message is handled beside other messages
\* of its gateway; "late": messages of a gateway that is not connected; "slow":
\* a gateway disconnects while its information is fetched; "stored": Redis had
\* information when the bridge started; "timeout": the chain takes too long;
\* "backend": no backend takes an uplink message; "expire": gateway information
\* expires; "write": blacklists are written; "counter": Redis, where the counters
\* of ratelimit may be, returns an error; "spelling": connect and disconnect
\* messages spell the gateway's ID in any way.
FaultKinds ==
  {"parallel", "late", "slow", "stored", "timeout", "backend", "expire", "write",
   "counter", "spelling"}
Counted == {"uplink", "downlink", "status"}
Kinds == Counted \union {"connect", "disconnect"}

ASSUME MiddlewareSetsAssumption ==
  /\ Junk \subseteq Uplinks /\ FaultSets \subseteq SUBSET FaultKinds
  /\ None \notin Uplinks \union Limiters \union {"fresh", "expired"}
ASSUME MiddlewareLowerAssumption ==
  Lower \in [Gateways -> Gateways] /\ \A g \in Gateways : Lower[Lower[g]] = Lower[g]
ASSUME MiddlewareNumbersAssumption ==
  NWorkers \in Nat /\ MaxFetches \in Nat /\ Limits \in [Counted -> Nat]

VARIABLES
  connected,       \* the exchange's gateways
  job,             \* per slot: the message, the middleware still to run, and a place
  listed, lookup,  \* blacklist: lists, idLookup and ipLookup
  last,            \* deduplicate: lastMessage
  limits, count,   \* ratelimit: gateways, and the counters of each limits
  info,            \* gatewayinfo: None, "fresh" or "expired"
  fetching, unsets,\* gatewayinfo: goroutines of get and of HandleDisconnect
  handled, passed, \* history, since the gateway's last connect or disconnect message:
                   \* uplink published or over the limit; messages within the limit
  faults           \* the set of this behaviour

listVars == <<listed, lookup>>
limitVars == <<limits, count, passed>>
infoVars == <<info, fetching, unsets>>
vars == <<connected, job, listVars, last, limitVars, infoVars, handled, faults>>

\* The IDs the exchange keeps, and activates backends with: messages other than
\* connect and disconnect have these. Lists and what is stored have them too;
\* entries with others, which match nothing, are left out.
Names == {g \in Gateways : Lower[g] = g}

NoneCounted == [k \in Counted |-> 0]

\* The lookups are made anew from all lists.
LookupOf(lists) == UNION {lists[l] : l \in Lists}

Init ==
  /\ connected = [g \in Gateways |-> FALSE]
  /\ job = [j \in Jobs |-> None]
  /\ listed \in [Lists -> SUBSET Names] /\ lookup = LookupOf(listed)
  /\ last = [g \in Gateways |-> None]
  /\ limits = [g \in Gateways |-> None]
  /\ count = [l \in Limiters |-> NoneCounted]
  /\ faults \in FaultSets
  /\ \E stored \in SUBSET IF "stored" \in faults THEN Names ELSE {} :
       info = [g \in Gateways |-> IF g \in stored THEN "fresh" ELSE None]
  /\ fetching = [g \in Gateways |-> 0] /\ unsets = [g \in Gateways |-> 0]
  /\ handled = [g \in Gateways |-> {}]
  /\ passed = [g \in Gateways |-> NoneCounted]

-----------------------------------------------------------------------------
(* The chain *)

\* Mutant: uplink is deduplicated before it is filtered.
ChainSwapped == <<"deduplicate", "lorafilter", "blacklist", "ratelimit", "gatewayinfo">>

\* The order in which cmd.go appends.
Chain == <<"lorafilter", "blacklist", "deduplicate", "ratelimit", "gatewayinfo">>

\* The kinds of messages a middleware has a handler for.
Handles(m) ==
  CASE m = "lorafilter"  -> {"uplink"}
    [] m = "blacklist"   -> {"uplink", "status"}
    [] m = "deduplicate" -> {"uplink", "disconnect"}
    [] m = "ratelimit"   -> Kinds
    [] m = "gatewayinfo" -> {"connect", "disconnect", "status"}

\* filterConnect, filterUplink, ...: the places in the chain that have a handler.
ChainFor(kind) == {n \in DOMAIN Chain : kind \in Handles(Chain[n])}

\* The first of the places that are left, if any.
First(ns) == {n \in ns : \A o \in ns : n <= o}

\* A message, what is left of its chain, where in a handler it is, and the limits
\* it counts on.
JobType ==
  [kind : Kinds, gw : Gateways, msg : Uplinks \union {None}, rest : SUBSET DOMAIN Chain,
   at : {"start", "lock", "count"}, hold : Limiters \union {None}, waited : BOOLEAN]

ASSUME MiddlewareJobAssumption == None \notin JobType

Running == {j \in Jobs : job[j] # None}
Of(g) == {j \in Running : job[j].gw = g}
Waiting == {j \in Running : job[j].waited}
InHand(g) == {j \in Waiting : Lower[job[j].gw] = Lower[g]}
\* The jobs whose next handler is m's.
Runs(j, m) == j \in Running /\ \E n \in First(job[j].rest) : Chain[n] = m

\* The handler returns nil, or an error.
Pass(j) == job' = [job EXCEPT ![j].rest = @ \ First(@), ![j].at = "start", ![j].hold = None]
Refuse(j) == job' = [job EXCEPT ![j] = None]

\* A worker takes a message and executes the chain in a goroutine of its own.
Execute(j, kind, g, m) ==
  /\ job[j] = None /\ Cardinality(Waiting) < NWorkers
  /\ job' = [job EXCEPT ![j] =
       [kind |-> kind, gw |-> g, msg |-> m, rest |-> ChainFor(kind),
        at |-> "start", hold |-> None, waited |-> TRUE]]
  /\ UNCHANGED <<listVars, last, limitVars, infoVars, handled, faults>>

\* The exchange keeps the gateway in lower case; the middleware gets the message
\* as it came.
Connect(j, g) ==
  /\ "spelling" \in faults \/ g \in Names
  /\ ~connected[Lower[g]]
  /\ "parallel" \in faults \/ InHand(g) = {}
  /\ connected' = [connected EXCEPT ![Lower[g]] = TRUE]
  /\ Execute(j, "connect", g, None)

Disconnect(j, g) ==
  /\ "spelling" \in faults \/ g \in Names
  /\ connected[Lower[g]]
  /\ "parallel" \in faults \/ InHand(g) = {}
  /\ "slow" \in faults \/ fetching[g] = 0
  /\ Execute(j, "disconnect", g, None)
  /\ UNCHANGED connected

Message(j, kind, g, m) ==
  /\ g \in Names
  /\ kind = "uplink" <=> m # None
  /\ "late" \in faults \/ connected[g]
  /\ "parallel" \in faults \/ \A i \in InHand(g) : job[i].kind \in Counted
  /\ Execute(j, kind, g, m)
  /\ UNCHANGED connected

\* The worker gives up and drops the message; the goroutine runs on.
Timeout(j) ==
  /\ "timeout" \in faults
  /\ j \in Waiting
  /\ job' = [job EXCEPT ![j].waited = FALSE]
  /\ UNCHANGED <<connected, listVars, last, limitVars, infoVars, handled, faults>>

\* ConnectGateway, for gateways on record, does not execute the chain.
ConnectGateway(g) ==
  /\ g \in Names
  /\ ~connected[g]
  /\ "parallel" \in faults \/ InHand(g) = {}
  /\ connected' = [connected EXCEPT ![g] = TRUE]
  /\ UNCHANGED <<job, listVars, last, limitVars, infoVars, handled, faults>>

\* The chain ends without error: the worker removes the gateway or publishes the
\* message. A goroutine nobody waits for blocks on its unbuffered channel for
\* ever, having nothing in hand: its slot is reused.
Finish(j) ==
  /\ j \in Running /\ job[j].rest = {}
  /\ LET J == job[j] IN
       /\ connected' = IF J.waited /\ J.kind = "disconnect"
                         THEN [connected EXCEPT ![Lower[J.gw]] = FALSE] ELSE connected
       /\ \/ handled' = IF J.waited /\ J.kind = "uplink"
                          THEN [handled EXCEPT ![J.gw] = @ \union {J.msg}] ELSE handled
          \/ "backend" \in faults /\ J.kind = "uplink" /\ handled' = handled
  /\ job' = [job EXCEPT ![j] = None]
  /\ UNCHANGED <<listVars, last, limitVars, infoVars, faults>>

-----------------------------------------------------------------------------
(* lorafilter and blacklist *)

LoraFilter(j) ==
  /\ Runs(j, "lorafilter")
  /\ IF job[j].msg \in Junk THEN Refuse(j) ELSE Pass(j)
  /\ UNCHANGED <<connected, listVars, last, limitVars, infoVars, handled, faults>>

Check(j) ==
  /\ Runs(j, "blacklist")
  /\ IF job[j].gw \in lookup THEN Refuse(j) ELSE Pass(j)
  /\ UNCHANGED <<connected, listVars, last, limitVars, infoVars, handled, faults>>

\* A list was written, and is read.
Read(l, contents) ==
  /\ "write" \in faults
  /\ listed' = [listed EXCEPT ![l] = contents]
  /\ lookup' = LookupOf(listed')
  /\ UNCHANGED <<connected, job, last, limitVars, infoVars, handled, faults>>

-----------------------------------------------------------------------------
(* deduplicate *)

Deduplicate(j) ==
  /\ Runs(j, "deduplicate") /\ job[j].kind = "uplink"
  /\ LET g == job[j].gw IN
       IF last[g] = job[j].msg
         THEN Refuse(j) /\ UNCHANGED last
         ELSE Pass(j) /\ last' = [last EXCEPT ![g] = job[j].msg]
  /\ UNCHANGED <<connected, listVars, limitVars, infoVars, handled, faults>>

DeduplicateDisconnect(j) ==
  /\ Runs(j, "deduplicate") /\ job[j].kind = "disconnect"
  /\ last' = [last EXCEPT ![job[j].gw] = None]
  /\ handled' = [handled EXCEPT ![job[j].gw] = {}]
  /\ Pass(j)
  /\ UNCHANGED <<connected, listVars, limitVars, infoVars, faults>>

-----------------------------------------------------------------------------
(* ratelimit *)

FreeLimiters ==
  Limiters \ ({limits[g] : g \in Gateways} \union {job[j].hold : j \in Running})
NewLimiter == CHOOSE l \in FreeLimiters : TRUE

\* The limits l made by newLimits are those of g.
NewLimits(g, l) ==
  /\ FreeLimiters # {} /\ l = NewLimiter
  /\ limits' = [limits EXCEPT ![g] = l]
  /\ count' = [count EXCEPT ![l] = NoneCounted]

LimitConnect(j) ==
  /\ Runs(j, "ratelimit") /\ job[j].kind = "connect"
  /\ \E l \in Limiters : NewLimits(job[j].gw, l)
  /\ passed' = [passed EXCEPT ![job[j].gw] = NoneCounted]
  /\ Pass(j)
  /\ UNCHANGED <<connected, listVars, last, infoVars, handled, faults>>

\* Mutant: the limits outlive the connection.
LimitDisconnectKeeps(j) ==
  /\ Runs(j, "ratelimit") /\ job[j].kind = "disconnect"
  /\ passed' = [passed EXCEPT ![job[j].gw] = NoneCounted]
  /\ Pass(j)
  /\ UNCHANGED <<limits, connected, listVars, last, count, infoVars, handled, faults>>

LimitDisconnect(j) ==
  /\ Runs(j, "ratelimit") /\ job[j].kind = "disconnect"
  /\ limits' = [limits EXCEPT ![job[j].gw] = None]
  /\ passed' = [passed EXCEPT ![job[j].gw] = NoneCounted]
  /\ Pass(j)
  /\ UNCHANGED <<connected, listVars, last, count, infoVars, handled, faults>>

Hold(j, l) == job' = [job EXCEPT ![j].at = "count", ![j].hold = l]

\* get with the lock held for reading ...
LimitRead(j) ==
  /\ Runs(j, "ratelimit") /\ job[j].kind \in Counted /\ job[j].at = "start"
  /\ IF limits[job[j].gw] # None
       THEN Hold(j, limits[job[j].gw])
       ELSE job' = [job EXCEPT ![j].at = "lock"]
  /\ UNCHANGED <<connected, listVars, last, limitVars, infoVars, handled, faults>>

\* Mutant: the map is not looked at again.
LimitMakeUnread(j) ==
  /\ Runs(j, "ratelimit") /\ job[j].at = "lock"
  /\ \E l \in Limiters : NewLimits(job[j].gw, l) /\ Hold(j, l)
  /\ UNCHANGED <<passed, connected, listVars, last, infoVars, handled, faults>>

\* ... and for writing, in between which others may have made limits.
LimitMake(j) ==
  /\ Runs(j, "ratelimit") /\ job[j].at = "lock"
  /\ LET g == job[j].gw IN
       IF limits[g] # None
         THEN Hold(j, limits[g]) /\ UNCHANGED <<limits, count>>
         ELSE \E l \in Limiters : NewLimits(g, l) /\ Hold(j, l)
  /\ UNCHANGED <<passed, connected, listVars, last, infoVars, handled, faults>>

\* Limit() of the limits in hand, be they the gateway's or not: there is room and
\* the message counts, or there is none ...
Room(J) == count[J.hold][J.kind] < Limits[J.kind] \/ Limits[J.kind] = 0
CountIn(J) ==
  count' = [count EXCEPT ![J.hold][J.kind] = IF Limits[J.kind] = 0 THEN 0 ELSE @ + 1]

Limit(j) ==
  /\ Runs(j, "ratelimit") /\ job[j].at = "count"
  /\ LET J == job[j] IN
       IF Room(J)
         THEN /\ CountIn(J)
              /\ passed' = [passed EXCEPT ![J.gw][J.kind] = IF Limits[J.kind] = 0 THEN 0 ELSE @ + 1]
              /\ Pass(j)
              /\ UNCHANGED handled
         ELSE /\ Refuse(j)
              /\ handled' = IF J.kind = "uplink"
                              THEN [handled EXCEPT ![J.gw] = @ \union {J.msg}] ELSE handled
              /\ UNCHANGED <<count, passed>>
  /\ UNCHANGED <<limits, connected, listVars, last, infoVars, faults>>

\* ... or the counter returns an error, having counted the message or not.
LimitFails(j) ==
  /\ "counter" \in faults
  /\ Runs(j, "ratelimit") /\ job[j].at = "count"
  /\ LET J == job[j] IN
       /\ Limits[J.kind] # 0
       /\ UNCHANGED count \/ (Room(J) /\ CountIn(J))
  /\ Refuse(j)
  /\ UNCHANGED <<limits, passed, handled, connected, listVars, last, infoVars, faults>>

-----------------------------------------------------------------------------
(* gatewayinfo *)

\* get, for connect and status messages: what is not there or has expired is
\* fetched in the background; what has expired counts as updated meanwhile.
Get(j) ==
  /\ Runs(j, "gatewayinfo") /\ job[j].kind # "disconnect"
  /\ LET g == job[j].gw IN
       IF info[g] = "fresh"
         THEN UNCHANGED <<info, fetching>>
         ELSE /\ fetching[g] < MaxFetches
              /\ fetching' = [fetching EXCEPT ![g] = @ + 1]
              /\ info' = [info EXCEPT ![g] = IF @ = None THEN None ELSE "fresh"]
  /\ Pass(j)
  /\ UNCHANGED <<unsets, connected, listVars, last, limitVars, handled, faults>>

\* set or setErr, both of which leave an entry that was updated now.
Fetched(g) ==
  /\ fetching[g] > 0
  /\ fetching' = [fetching EXCEPT ![g] = @ - 1]
  /\ info' = [info EXCEPT ![g] = "fresh"]
  /\ UNCHANGED <<unsets, connected, job, listVars, last, limitVars, handled, faults>>

InfoDisconnect(j) ==
  /\ Runs(j, "gatewayinfo") /\ job[j].kind = "disconnect"
  /\ unsets[job[j].gw] < MaxFetches
  /\ unsets' = [unsets EXCEPT ![job[j].gw] = @ + 1]
  /\ Pass(j)
  /\ UNCHANGED <<info, fetching, connected, listVars, last, limitVars, handled, faults>>

Unset(g) ==
  /\ unsets[g] > 0
  /\ unsets' = [unsets EXCEPT ![g] = @ - 1]
  /\ info' = [info EXCEPT ![g] = None]
  /\ UNCHANGED <<fetching, connected, job, listVars, last, limitVars, handled, faults>>

Expire(g) ==
  /\ "expire" \in faults
  /\ info[g] = "fresh"
  /\ info' = [info EXCEPT ![g] = "expired"]
  /\ UNCHANGED <<fetching, unsets, connected, job, listVars, last, limitVars, handled, faults>>

-----------------------------------------------------------------------------
Next ==
  \/ \E j \in Jobs, g \in Gateways :
       \/ Connect(j, g) \/ Disconnect(j, g)
       \/ \E k \in Counted, m \in Uplinks \union {None} : Message(j, k, g, m)
  \/ \E j \in Jobs :
       \/ Timeout(j) \/ Finish(j)
       \/ LoraFilter(j) \/ Check(j) \/ Deduplicate(j) \/ DeduplicateDisconnect(j)
       \/ LimitConnect(j) \/ LimitDisconnect(j) \/ LimitRead(j) \/ LimitMake(j) \/ Limit(j)
       \/ LimitFails(j)
       \/ Get(j) \/ InfoDisconnect(j)
  \/ \E g \in Gateways : ConnectGateway(g) \/ Fetched(g) \/ Unset(g) \/ Expire(g)
  \/ \E l \in Lists, contents \in SUBSET Names : Read(l, contents)

Spec == Init /\ [][Next]_vars

-----------------------------------------------------------------------------
(* Properties *)

\* Types, and the lookups of the blacklist are what its lists say, in whatever
\* order they were read (blacklist.go:105-161).
TypeOK ==
  /\ connected \in [Gateways -> BOOLEAN]
  /\ job \in [Jobs -> JobType \union {None}]
  /\ listed \in [Lists -> SUBSET Gateways] /\ lookup = UNION {listed[l] : l \in Lists}
  /\ last \in [Gateways -> Uplinks \union {None}]
  /\ limits \in [Gateways -> Limiters \union {None}]
  /\ count \in [Limiters -> [Counted -> Nat]]
  /\ \A l \in Limiters, k \in Counted : count[l][k] <= Limits[k]
  /\ info \in [Gateways -> {None, "fresh", "expired"}]
  /\ fetching \in [Gateways -> 0 .. MaxFetches] /\ unsets \in [Gateways -> 0 .. MaxFetches]
  /\ handled \in [Gateways -> SUBSET Uplinks]
  /\ passed \in [Gateways -> [Counted -> Nat]]
  /\ faults \in FaultSets

\* What deduplicate refuses as already handled was: the message on record was
\* published or over the limit, or is on its way (deduplicate.go:39-53, cmd.go:96-120).
\* A message whose chain times out, that no backend takes or whose counter returns
\* an error stays on record, and its retransmission is refused.
KnownWasHandled ==
  faults \intersect {"timeout", "backend", "counter"} = {} =>
    \A g \in Gateways : last[g] # None =>
      last[g] \in handled[g] \union
        {job[j].msg : j \in {i \in Of(g) : job[i].kind = "uplink" /\ ~Runs(i, "lorafilter")
                                           /\ ~Runs(i, "blacklist") /\ ~Runs(i, "deduplicate")}}

\* No more messages of a kind pass than the limit allows, counted from the
\* gateway's last connect or disconnect message, however many workers find no
\* limits at once (ratelimit.go:111-133). A worker, or a goroutine that timed out,
\* beside a connect message counts on limits that are no longer the gateway's.
WithinLimit ==
  faults \intersect {"parallel", "timeout"} = {} =>
    \A g \in Gateways, k \in Counted : passed[g][k] <= Limits[k]

\* Nothing is kept of a gateway that has disconnected (deduplicate.go:31-37,
\* ratelimit.go:103-109, gatewayinfo.go:186-202): no last message and no limits if
\* its messages are handled in order and in time, no information if moreover
\* nothing was being fetched. What is kept under the ID in lower case stays if the
\* disconnect message spells it otherwise, as the middleware gets the message as
\* it came (exchange.go:254-265).
Forgotten ==
  \A g \in Gateways :
    ~connected[g] /\ Of(g) = {} /\ unsets[g] = 0
      /\ faults \intersect {"parallel", "late", "timeout", "spelling"} = {} =>
        /\ last[g] = None /\ limits[g] = None
        /\ faults \intersect {"slow", "stored"} = {} => info[g] = None
=============================================================================
