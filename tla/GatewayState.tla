---------------------------- MODULE GatewayState ----------------------------
(***************************************************************************)
(* The set of connected gateways and its copy in Redis (exchange/state.go) *)
(* over crashes and restarts of the bridge. Add and Remove change the set  *)
(* at once and write to Redis from a goroutine of their own, whose result  *)
(* nobody reads; a bridge that starts connects the gateways it finds in    *)
(* Redis (InitRedisState and ConnectGateway in cmd/cmd.go).                *)
(***************************************************************************)
EXTENDS Naturals

CONSTANTS
  Gateways,  \* gateway IDs; the ID "" is never written to Redis
  FaultSets, \* what may happen, see FaultKinds: a behaviour keeps to one of the sets
  MaxWrites  \* bound: writes of one gateway under way at a time

\* "overlap": a gateway is added or removed again while a write about it is
\* under way; "redis": Redis fails, and a write is lost or the read at the start finds
\* nothing; "crash": the bridge crashes.
FaultKinds == {"overlap", "redis", "crash"}
Ops == {"add", "rem"}

ASSUME StateFaultsAssumption == FaultSets \subseteq SUBSET FaultKinds
ASSUME MaxWritesAssumption == MaxWrites \in Nat \ {0}

VARIABLES
  up,        \* whether the bridge runs
  gateways,  \* gatewayState: the gateways that are connected
  db,        \* the set in Redis
  writes,    \* per gateway and command, the goroutines that have yet to reach Redis
  restore,   \* the IDs that ConnectGateway has yet to connect
  owed,      \* history: gateways whose connection was on record, until they disconnect
             \* or a start that could not read the record loses them
  faults     \* the set of this behaviour

vars == <<up, gateways, db, writes, restore, owed, faults>>

Init ==
  /\ up = TRUE
  /\ gateways = {} /\ db = {}
  /\ writes = [g \in Gateways |-> [op \in Ops |-> 0]]
  /\ restore = {} /\ owed = {}
  /\ faults \in FaultSets

Quiet(g) == writes[g] = [op \in Ops |-> 0]

MayWrite(g) ==
  /\ up
  /\ "overlap" \in faults \/ Quiet(g)
  /\ writes[g]["add"] + writes[g]["rem"] < MaxWrites

\* go client.SAdd(...) or go client.SRem(...)
Write(g, op) == writes' = [writes EXCEPT ![g][op] = @ + 1]

\* Add, for a connect message; nothing changes if the gateway is there.
Add(g) ==
  /\ MayWrite(g)
  /\ g \notin gateways
  /\ gateways' = gateways \union {g}
  /\ Write(g, "add")
  /\ UNCHANGED <<up, db, restore, owed, faults>>

\* Mutant: what was read from Redis is not written again, and not connected.
ForceAddNothing(g) ==
  /\ MayWrite(g)
  /\ g \in restore
  /\ restore' = restore \ {g}
  /\ UNCHANGED <<up, gateways, writes, db, owed, faults>>

\* Add, for ConnectGateway.
ForceAdd(g) ==
  /\ g \in restore
  /\ restore' = restore \ {g}
  /\ IF g \in gateways
       THEN UNCHANGED <<gateways, writes>>
       ELSE /\ MayWrite(g)
            /\ gateways' = gateways \union {g}
            /\ Write(g, "add")
  /\ UNCHANGED <<up, db, owed, faults>>

\* Mutant: the set in Redis is left alone.
RemoveMemory(g) ==
  /\ MayWrite(g)
  /\ g \in gateways
  /\ gateways' = gateways \ {g}
  /\ owed' = owed \ {g}
  /\ UNCHANGED <<up, db, writes, restore, faults>>

\* Remove, by a worker that found the gateway connected (that two workers may
\* do so is in Exchange).
Remove(g) ==
  /\ MayWrite(g)
  /\ g \in gateways
  /\ gateways' = gateways \ {g}
  /\ Write(g, "rem")
  /\ owed' = owed \ {g}
  /\ UNCHANGED <<up, db, restore, faults>>

\* A command reaches Redis.
Apply(g, op) ==
  /\ writes[g][op] > 0
  /\ writes' = [writes EXCEPT ![g][op] = @ - 1]
  /\ db' = IF op = "add" THEN db \union {g} ELSE db \ {g}
  /\ owed' = IF op = "add" /\ g \in gateways THEN owed \union {g} ELSE owed
  /\ UNCHANGED <<up, gateways, restore, faults>>

\* A command fails; its result is dropped.
Lose(g, op) ==
  /\ "redis" \in faults
  /\ writes[g][op] > 0
  /\ writes' = [writes EXCEPT ![g][op] = @ - 1]
  /\ UNCHANGED <<up, gateways, db, restore, owed, faults>>

\* What had not reached Redis is lost with the process.
Crash ==
  /\ "crash" \in faults
  /\ up
  /\ up' = FALSE
  /\ gateways' = {}
  /\ writes' = [g \in Gateways |-> [op \in Ops |-> 0]]
  /\ restore' = {}
  /\ UNCHANGED <<db, owed, faults>>

\* InitRedisState reads the set, with --reconnect-gateways. An error is dropped:
\* nothing is connected then.
Restart ==
  /\ ~up
  /\ up' = TRUE
  /\ \/ restore' = db /\ UNCHANGED owed
     \/ "redis" \in faults /\ restore' = {} /\ owed' = {}
  /\ UNCHANGED <<gateways, db, writes, faults>>

Next ==
  \/ \E g \in Gateways : Add(g) \/ ForceAdd(g) \/ Remove(g)
  \/ \E g \in Gateways, op \in Ops : Apply(g, op) \/ Lose(g, op)
  \/ Crash \/ Restart

Spec == Init /\ [][Next]_vars

-----------------------------------------------------------------------------
(* Properties *)

TypeOK ==
  /\ up \in BOOLEAN
  /\ gateways \subseteq Gateways /\ db \subseteq Gateways
  /\ writes \in [Gateways -> [Ops -> Nat]]
  /\ restore \subseteq Gateways /\ owed \subseteq Gateways
  /\ faults \in FaultSets

\* Once nothing about a gateway is under way, Redis lists it if and only if it
\* is connected: what another bridge would find there ("It should not return
\* the gateway", state_test.go:64-74). The goroutines of a connect and of the
\* disconnect after it may reach Redis in the other order (state.go:52, 60), and
\* a command that fails is not repeated; nor is the read at the start (state.go:39).
PersistedAgrees ==
  faults \intersect {"overlap", "redis"} = {} /\ up =>
    \A g \in Gateways \ restore : Quiet(g) => (g \in db <=> g \in gateways)

\* A gateway whose connection reached Redis is connected again after a crash,
\* unless it disconnected or a start could not read the set (cmd.go:334-337):
\* lost commands alone lose nobody, nor does a start that failed lose those that
\* connect after it.
RestartKeeps == "overlap" \notin faults /\ up => owed \subseteq gateways \union restore
=============================================================================
