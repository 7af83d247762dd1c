------------------------------ MODULE Exchange ------------------------------
(***************************************************************************)
(* The control plane of the exchange (exchange/exchange.go): gateways      *)
(* connect and disconnect, and every connected gateway gets one goroutine  *)
(* per backend (an activation) that carries its messages to the workers.   *)
(*                                                                         *)
(* Processes of the code and their actions here:                           *)
(*   subscribeSouthbound, one per southbound backend     Offer             *)
(*   a handler goroutine of handleChannels (a worker)    Receive .. Quit   *)
(*   activateNorthbound / activateSouthbound             Subscribe .. Free *)
(*   ConnectGateway, called while the bridge starts      ForceAdd, ...     *)
(*   Stop                                                CloseDone, Sweep  *)
(* A step ends where another goroutine can see or disturb what was done:   *)
(* at a channel operation, a lock, or a call into the gateway set, the key *)
(* store or a backend.                                                     *)
(***************************************************************************)
EXTENDS Integers, FiniteSets, Functions

CONSTANTS
  Gateways,    \* gateway IDs that occur in messages (lower-cased, non-empty)
  Wildcard,    \* the ID "" of --route-unknown-gateways
  Keys, NoKey, \* access keys, and the empty key
  North, South,\* the backends of the two sides
  Workers,     \* handler goroutines (Start's parameter, and the watchdog's replacements)
  Chans,       \* done channels, each with the activation that made it; reused once free
  Restore,     \* IDs ConnectGateway is called with when the bridge starts
  FaultSets,   \* what may happen, see FaultKinds: a behaviour keeps to one of the sets
  MaxDrift,    \* bound: how far below zero the gauge may be when a gateway connects
  NoMsg, NoTask, NoId, NoChan

Ids == Gateways \union {Wildcard}
Backends == North \union South
Messages == [kind : {"connect", "disconnect"}, gw : Gateways, key : Keys \union {NoKey}]

\* "auth": the key store fails; "middleware": the chain fails or times out;
\* "late": a message about a gateway arrives, or ConnectGateway is called with
\* it, while its activations still start or end; "parallel": a message is
\* handled while another one, or ConnectGateway, is; "backend": a subscription
\* with a backend fails; "stop": the exchange is stopped.
FaultKinds == {"auth", "middleware", "late", "parallel", "backend", "stop"}

ASSUME BackendsAssumption == North \intersect South = {}
ASSUME IdsAssumption == /\ Wildcard \notin Gateways
                        /\ Restore \subseteq Ids
                        /\ NoId \notin Ids
ASSUME FaultsAssumption == FaultSets \subseteq SUBSET FaultKinds
ASSUME DriftAssumption == MaxDrift \in Nat
ASSUME NullAssumption == /\ NoMsg \notin Messages
                         /\ NoTask \notin Backends \X Ids
                         /\ NoChan \notin Chans
                         /\ NoKey \notin Keys

VARIABLES
  gateways,   \* Exchange.gateways: the connected IDs
  keys,       \* the key store of auth.Interface
  gauge,      \* the connectedGateways metric
  wpc, wmsg,  \* per worker: where it is in the select loop, the message it handles
  held,       \* per southbound backend: the message subscribeSouthbound is sending
  apc, task,  \* per activation: where it is, and its <<backend, gateway>>
  closed,     \* the done channels that have been closed
  northDone, southDone,  \* the done channels registered per gateway
  sub,        \* per backend and gateway: the activation that reads its messages
  restore, booting,      \* ConnectGateway: the IDs to do, and the ID in hand
  phase,      \* "running", "closing" (b.done closed), "stopped" (Stop returned)
  faults      \* the set of this behaviour

workerVars == <<wpc, wmsg>>
actVars == <<apc, task, sub>>
doneVars == <<closed, northDone, southDone>>
bootVars == <<restore, booting>>
vars == <<gateways, keys, gauge, wpc, wmsg, held, apc, task, closed, northDone,
          southDone, sub, restore, booting, phase, faults>>

-----------------------------------------------------------------------------
(* Helpers *)

\* The backends a connected ID is activated on: "" has no northbound side.
BackendsOf(id) == IF id = Wildcard THEN South ELSE Backends

FreeChans == {c \in Chans : apc[c] = "free"}

\* The activations that serve an ID.
Of(id) == {c \in Chans : task[c] # NoTask /\ task[c][2] = id}

Registered == {c \in Chans : \E i \in Ids : c \in northDone[i] \union southDone[i]}

\* Mutant of Append: the list is replaced.
AppendOverwrites(lists, id, c) == [lists EXCEPT ![id] = {c}]

\* The done list of one gateway gains the channel of a new activation.
Append(lists, id, c) == [lists EXCEPT ![id] = @ \union {c}]

\* Mutant of Delete: the entry stays in the map.
DeleteNothing(lists, id) == lists

\* The done list of one gateway is deleted from the map.
Delete(lists, id) == [lists EXCEPT ![id] = {}]

\* No connect or disconnect message is being handled.
AllIdle == \A w \in Workers : wmsg[w] = NoMsg

\* Every activation of the ID has started and none is ending.
Settled(id) == \A c \in Of(id) : apc[c] \in {"run", "send"} /\ c \notin closed

\* Bounds: a connect message is only offered while there are done channels
\* left for every connect message under way, and the gauge, which repeated
\* connects can make drift down for ever, is within MaxDrift.
Room ==
  LET connecting == {w \in Workers : wpc[w] \in {"setkey", "add", "activate"}}
      coming     == {s \in South : held[s] # NoMsg /\ held[s].kind = "connect"}
      forced     == restore \union ({booting} \ {NoId})
  IN /\ gauge >= -MaxDrift
     /\ Cardinality(FreeChans) >= Cardinality(Backends) *
          (1 + Cardinality(connecting) + Cardinality(coming) + Cardinality(forced))

-----------------------------------------------------------------------------
Init ==
  /\ gateways = {}
  /\ keys = [g \in Gateways |-> NoKey]
  /\ gauge = 0
  /\ wpc = [w \in Workers |-> "idle"]
  /\ wmsg = [w \in Workers |-> NoMsg]
  /\ held = [s \in South |-> NoMsg]
  /\ apc = [c \in Chans |-> "free"]
  /\ task = [c \in Chans |-> NoTask]
  /\ closed = {}
  /\ northDone = [i \in Ids |-> {}]
  /\ southDone = [i \in Ids |-> {}]
  /\ sub = [r \in Backends \X Ids |-> NoChan]
  /\ restore = Restore
  /\ booting = NoId
  /\ phase = "running"
  /\ faults \in FaultSets

Goto(w, pc) == wpc' = [wpc EXCEPT ![w] = pc]

\* The worker is done with its message and back at the select.
Done(w) == Goto(w, "idle") /\ wmsg' = [wmsg EXCEPT ![w] = NoMsg]

\* One `go activate...(backend, gatewayID)` per backend, and the gauge goes up.
\* A goroutine that was started and has not run yet has no effect, so the
\* loop over the backends is one step.
Activate(id) ==
  /\ \E f \in [BackendsOf(id) -> FreeChans] :
       /\ IsInjective(f)
       /\ apc' = [c \in Chans |-> IF c \in Range(f) THEN "subscribe" ELSE apc[c]]
       /\ task' = [c \in Chans |-> IF c \in Range(f)
                                   THEN <<CHOOSE be \in BackendsOf(id) : f[be] = c, id>>
                                   ELSE task[c]]
  /\ gauge' = gauge + 1

-----------------------------------------------------------------------------
(* subscribeSouthbound: take a message off the backend, send it on *)

\* (Also when done is closed, as long as the select chooses the message.)
Offer(s, m) ==
  /\ held[s] = NoMsg
  /\ m.kind = "connect" => Room
  /\ held' = [held EXCEPT ![s] = m]
  /\ UNCHANGED <<gateways, keys, gauge, workerVars, actVars, doneVars, bootVars, phase, faults>>

\* The send on b.connect or b.disconnect meets a worker at its select.
Receive(s, w) ==
  /\ held[s] # NoMsg
  /\ wpc[w] = "idle"
  /\ "late" \in faults \/ Settled(held[s].gw)
  /\ "parallel" \in faults \/ (AllIdle /\ booting = NoId)
  /\ wmsg' = [wmsg EXCEPT ![w] = held[s]]
  /\ Goto(w, IF held[s].kind = "connect" THEN "setkey" ELSE "contains")
  /\ held' = [held EXCEPT ![s] = NoMsg]
  /\ UNCHANGED <<gateways, keys, gauge, actVars, doneVars, bootVars, phase, faults>>

-----------------------------------------------------------------------------
(* A worker handling a connect message *)

\* auth.SetKey, for a non-empty key; an error is only logged.
SetKey(w) ==
  /\ wpc[w] = "setkey"
  /\ \/ /\ wmsg[w].key # NoKey
        /\ keys' = [keys EXCEPT ![wmsg[w].gw] = wmsg[w].key]
     \/ /\ wmsg[w].key = NoKey \/ "auth" \in faults
        /\ UNCHANGED keys
  /\ Goto(w, "add")
  /\ UNCHANGED <<gateways, gauge, wmsg, held, actVars, doneVars, bootVars, phase, faults>>

\* gateways.Add refuses an ID that is in the set: the message is dropped.
AddGateway(w) ==
  /\ wpc[w] = "add"
  /\ IF wmsg[w].gw \in gateways
       THEN Done(w) /\ UNCHANGED gateways
       ELSE /\ gateways' = gateways \union {wmsg[w].gw}
            /\ Goto(w, "activate")
            /\ UNCHANGED wmsg
  /\ UNCHANGED <<keys, gauge, held, actVars, doneVars, bootVars, phase, faults>>

\* middleware.Execute fails: the message is dropped, the ID stays in the set.
ConnectRefused(w) ==
  /\ wpc[w] = "activate"
  /\ "middleware" \in faults
  /\ Done(w)
  /\ UNCHANGED <<gateways, keys, gauge, held, actVars, doneVars, bootVars, phase, faults>>

\* Mutant: nothing is activated while "" is routed.
ActivateUnlessRouted(w) ==
  /\ wpc[w] = "activate"
  /\ IF Wildcard \in gateways THEN UNCHANGED <<apc, task, gauge>> ELSE Activate(wmsg[w].gw)
  /\ Done(w)
  /\ UNCHANGED <<gateways, keys, held, sub, doneVars, bootVars, phase, faults>>

ActivateGateway(w) ==
  /\ wpc[w] = "activate"
  /\ Activate(wmsg[w].gw)
  /\ Done(w)
  /\ UNCHANGED <<gateways, keys, held, sub, doneVars, bootVars, phase, faults>>

-----------------------------------------------------------------------------
(* A worker handling a disconnect message *)

\* Mutant: a disconnect message of an unknown gateway is handled.
ContainsUnchecked(w) ==
  /\ wpc[w] = "contains"
  /\ Goto(w, "validate")
  /\ UNCHANGED <<gateways, keys, gauge, wmsg, held, actVars, doneVars, bootVars, phase, faults>>

ContainsGateway(w) ==
  /\ wpc[w] = "contains"
  /\ IF wmsg[w].gw \in gateways THEN Goto(w, "validate") /\ UNCHANGED wmsg
                                ELSE Done(w)
  /\ UNCHANGED <<gateways, keys, gauge, held, actVars, doneVars, bootVars, phase, faults>>

\* No key on record, or the key on record; Redis's also passes when it cannot be read.
KeyMatches(m) == keys[m.gw] \in {NoKey, m.key}

ValidateKey(w) ==
  /\ wpc[w] = "validate"
  /\ \/ /\ KeyMatches(wmsg[w]) \/ "auth" \in faults
        /\ Goto(w, "north")
        /\ UNCHANGED wmsg
     \/ ~KeyMatches(wmsg[w]) /\ Done(w)
  /\ UNCHANGED <<gateways, keys, gauge, held, actVars, doneVars, bootVars, phase, faults>>

\* middleware.Execute fails: the gateway stays connected.
DisconnectRefused(w) ==
  /\ wpc[w] = "north"
  /\ "middleware" \in faults
  /\ Done(w)
  /\ UNCHANGED <<gateways, keys, gauge, held, actVars, doneVars, bootVars, phase, faults>>

\* Mutant: the entry is dropped, its channels are not closed.
DropNorth(w) ==
  /\ wpc[w] = "north"
  /\ northDone' = Delete(northDone, wmsg[w].gw)
  /\ Goto(w, "south")
  /\ UNCHANGED <<gateways, keys, gauge, wmsg, held, actVars, closed, southDone, bootVars, phase, faults>>

\* Under doneLock, close the registered done channels and drop the entry.
DeactivateNorth(w) ==
  /\ wpc[w] = "north"
  /\ closed' = closed \union northDone[wmsg[w].gw]
  /\ northDone' = Delete(northDone, wmsg[w].gw)
  /\ Goto(w, "south")
  /\ UNCHANGED <<gateways, keys, gauge, wmsg, held, actVars, southDone, bootVars, phase, faults>>

\* Mutant: the handler returns early when there is nothing to close.
DeactivateSouthEarly(w) ==
  /\ wpc[w] = "south"
  /\ closed' = closed \union southDone[wmsg[w].gw]
  /\ southDone' = Delete(southDone, wmsg[w].gw)
  /\ IF southDone[wmsg[w].gw] = {} THEN Done(w) ELSE Goto(w, "remove") /\ UNCHANGED wmsg
  /\ UNCHANGED <<gateways, keys, gauge, held, actVars, northDone, bootVars, phase, faults>>

DeactivateSouth(w) ==
  /\ wpc[w] = "south"
  /\ closed' = closed \union southDone[wmsg[w].gw]
  /\ southDone' = Delete(southDone, wmsg[w].gw)
  /\ Goto(w, "remove")
  /\ UNCHANGED <<gateways, keys, gauge, wmsg, held, actVars, northDone, bootVars, phase, faults>>

\* gateways.Remove, and the gauge goes down whether or not the ID was there.
RemoveGateway(w) ==
  /\ wpc[w] = "remove"
  /\ gateways' = gateways \ {wmsg[w].gw}
  /\ gauge' = gauge - 1
  /\ Done(w)
  /\ UNCHANGED <<keys, held, actVars, doneVars, bootVars, phase, faults>>

-----------------------------------------------------------------------------
(* A worker handling an uplink, downlink or status message *)

\* Mutant: the message is sent again.
HandoffRepeats(c, w) ==
  /\ apc[c] = "send"
  /\ wpc[w] = "idle"
  /\ Goto(w, "route")
  /\ UNCHANGED <<gateways, keys, gauge, wmsg, held, actVars, doneVars, bootVars, phase, faults>>

\* The activation's send on b.uplink, b.downlink or b.status meets a worker.
Handoff(c, w) ==
  /\ apc[c] = "send"
  /\ wpc[w] = "idle"
  /\ apc' = [apc EXCEPT ![c] = "run"]
  /\ Goto(w, "route")
  /\ UNCHANGED <<gateways, keys, gauge, wmsg, held, task, sub, doneVars, bootVars, phase, faults>>

\* Middleware and the Publish call of every backend; errors are only logged.
Route(w) ==
  /\ wpc[w] = "route"
  /\ Goto(w, "idle")
  /\ UNCHANGED <<gateways, keys, gauge, wmsg, held, actVars, doneVars, bootVars, phase, faults>>

\* b.done is closed, so handleChannels returns and closes doneCh.
Quit(w) ==
  /\ phase # "running"
  /\ wpc[w] = "idle"
  /\ Goto(w, "quit")
  /\ UNCHANGED <<gateways, keys, gauge, wmsg, held, actVars, doneVars, bootVars, phase, faults>>

-----------------------------------------------------------------------------
(* An activation: activateNorthbound or activateSouthbound *)

\* The backend keeps one subscription per gateway: a second one replaces it.
Subscribe(c) ==
  /\ apc[c] = "subscribe"
  /\ sub' = [sub EXCEPT ![task[c]] = c]
  /\ apc' = [apc EXCEPT ![c] = "register"]
  /\ UNCHANGED <<gateways, keys, gauge, workerVars, held, task, doneVars, bootVars, phase, faults>>

\* An error is only logged: the activation runs on without messages.
SubscribeFails(c) ==
  /\ "backend" \in faults
  /\ apc[c] = "subscribe"
  /\ apc' = [apc EXCEPT ![c] = "register"]
  /\ UNCHANGED <<gateways, keys, gauge, workerVars, held, task, sub, doneVars, bootVars, phase, faults>>

\* Under doneLock, append the new done channel to the gateway's list.
Register(c) ==
  /\ apc[c] = "register"
  /\ \/ /\ task[c][1] \in North
        /\ northDone' = Append(northDone, task[c][2], c)
        /\ UNCHANGED southDone
     \/ /\ task[c][1] \in South
        /\ southDone' = Append(southDone, task[c][2], c)
        /\ UNCHANGED northDone
  /\ apc' = [apc EXCEPT ![c] = "run"]
  /\ UNCHANGED <<gateways, keys, gauge, workerVars, held, task, sub, closed, bootVars, phase, faults>>

\* A message of the gateway arrives on the subscription.
Take(c) ==
  /\ apc[c] = "run"
  /\ sub[task[c]] = c
  /\ apc' = [apc EXCEPT ![c] = "send"]
  /\ UNCHANGED <<gateways, keys, gauge, workerVars, held, task, sub, doneVars, bootVars, phase, faults>>

\* The select finds done closed.
Leave(c) ==
  /\ apc[c] = "run"
  /\ c \in closed
  /\ apc' = [apc EXCEPT ![c] = "unsubscribe"]
  /\ UNCHANGED <<gateways, keys, gauge, workerVars, held, task, sub, doneVars, bootVars, phase, faults>>

\* The backend drops the gateway's subscription, whoever made it; the
\* goroutine ends and its slot is free for reuse.
Unsubscribe(c) ==
  /\ apc[c] = "unsubscribe"
  /\ sub' = [sub EXCEPT ![task[c]] = NoChan]
  /\ apc' = [apc EXCEPT ![c] = "free"]
  /\ task' = [task EXCEPT ![c] = NoTask]
  /\ closed' = closed \ {c}
  /\ UNCHANGED <<gateways, keys, gauge, workerVars, held, northDone, southDone, bootVars, phase, faults>>

-----------------------------------------------------------------------------
(* ConnectGateway and Stop, called by runBridge *)

ForceAdd(id) ==
  /\ booting = NoId
  /\ id \in restore
  /\ "late" \in faults \/ Settled(id)
  /\ "parallel" \in faults \/ AllIdle
  /\ restore' = restore \ {id}
  /\ gateways' = gateways \union {id}
  /\ booting' = IF id \in gateways THEN NoId ELSE id
  /\ UNCHANGED <<keys, gauge, workerVars, held, actVars, doneVars, phase, faults>>

ForceActivate ==
  /\ booting # NoId
  /\ Activate(booting)
  /\ booting' = NoId
  /\ UNCHANGED <<gateways, keys, workerVars, held, sub, doneVars, restore, phase, faults>>

\* close(b.done); runBridge has returned from ConnectGateway by then.
CloseDone ==
  /\ "stop" \in faults
  /\ phase = "running"
  /\ restore = {} /\ booting = NoId
  /\ phase' = "closing"
  /\ UNCHANGED <<gateways, keys, gauge, workerVars, held, actVars, doneVars, bootVars, faults>>

\* Under doneLock, close every registered channel and make new maps.
Sweep ==
  /\ phase = "closing"
  /\ closed' = closed \union Registered
  /\ northDone' = [i \in Ids |-> {}]
  /\ southDone' = [i \in Ids |-> {}]
  /\ phase' = "stopped"
  /\ UNCHANGED <<gateways, keys, gauge, workerVars, held, actVars, bootVars, faults>>

-----------------------------------------------------------------------------
WorkerStep(w) ==
  \/ SetKey(w) \/ AddGateway(w) \/ ConnectRefused(w) \/ ActivateGateway(w)
  \/ ContainsGateway(w) \/ ValidateKey(w) \/ DisconnectRefused(w)
  \/ DeactivateNorth(w) \/ DeactivateSouth(w) \/ RemoveGateway(w)
  \/ Route(w) \/ Quit(w)

ActivationStep(c) ==
  \/ Subscribe(c) \/ SubscribeFails(c) \/ Register(c) \/ Take(c) \/ Leave(c)
  \/ Unsubscribe(c)

Boot == (\E id \in Ids : ForceAdd(id)) \/ ForceActivate

Next ==
  \/ \E s \in South, m \in Messages : Offer(s, m)
  \/ \E s \in South, w \in Workers : Receive(s, w)
  \/ \E w \in Workers : WorkerStep(w)
  \/ \E c \in Chans, w \in Workers : Handoff(c, w)
  \/ \E c \in Chans : ActivationStep(c)
  \/ Boot
  \/ CloseDone
  \/ Sweep

Spec == Init /\ [][Next]_vars

\* Goroutines keep running, and Go's select picks a ready case at random and
\* serves the senders waiting on a channel in order: a case that is ready
\* again and again is taken.
Fairness ==
  /\ \A w \in Workers : WF_vars(WorkerStep(w))
  /\ \A s \in South : SF_vars(\E w \in Workers : Receive(s, w))
  /\ \A c \in Chans : /\ WF_vars(Subscribe(c) \/ SubscribeFails(c) \/ Register(c) \/ Unsubscribe(c))
                      /\ SF_vars(Leave(c))
                      /\ SF_vars(\E w \in Workers : Handoff(c, w))
  /\ WF_vars(Boot)

FairSpec == Spec /\ Fairness

-----------------------------------------------------------------------------
(* Properties *)

TypeOK ==
  /\ gateways \subseteq Ids
  /\ keys \in [Gateways -> Keys \union {NoKey}]
  /\ gauge \in Int
  /\ wpc \in [Workers -> {"idle", "setkey", "add", "activate", "contains", "validate",
                          "north", "south", "remove", "route", "quit"}]
  /\ wmsg \in [Workers -> Messages \union {NoMsg}]
  /\ held \in [South -> Messages \union {NoMsg}]
  /\ apc \in [Chans -> {"free", "subscribe", "register", "run", "send", "unsubscribe"}]
  /\ task \in [Chans -> (Backends \X Ids) \union {NoTask}]
  /\ closed \subseteq Chans
  /\ northDone \in [Ids -> SUBSET Chans]
  /\ southDone \in [Ids -> SUBSET Chans]
  /\ sub \in [Backends \X Ids -> Chans \union {NoChan}]
  /\ restore \subseteq Ids
  /\ booting \in Ids \union {NoId}
  /\ phase \in {"running", "closing", "stopped"}
  /\ faults \in FaultSets

\* An activation that will carry messages, or does, and was not told to end.
Live(c) == apc[c] \in {"subscribe", "register", "run", "send"} /\ c \notin closed
Active(c) == apc[c] \in {"run", "send"} /\ c \notin closed

Connecting(id) ==
  booting = id \/ \E w \in Workers : wpc[w] = "activate" /\ wmsg[w].gw = id
Disconnecting(id) ==
  \E w \in Workers : wpc[w] \in {"south", "remove"} /\ wmsg[w].gw = id
Served(id) ==
  \A be \in BackendsOf(id) : \E c \in Chans : task[c] = <<be, id>> /\ Live(c)

\* close(done) never meets a closed channel (it would panic): a registered
\* channel is open, and in the list of its own gateway and side only.
CloseOnce ==
  \A i \in Ids :
    /\ \A c \in northDone[i] : c \notin closed /\ task[c] \in North \X {i}
    /\ \A c \in southDone[i] : c \notin closed /\ task[c] \in South \X {i}

\* The done channel of an activation is closed only after the activation has
\* registered it, it is ended only through that channel, and what a handler has
\* in hand is a message of its case: a reused slot inherits nothing.
SlotShape ==
  \A c \in Chans :
    /\ apc[c] = "free" <=> task[c] = NoTask
    /\ c \in closed => apc[c] \in {"run", "send", "unsubscribe"}
    /\ c \in Registered => apc[c] \in {"run", "send"}
    /\ apc[c] = "unsubscribe" => c \in closed

HandlerShape ==
  \A w \in Workers :
    /\ wpc[w] \in {"setkey", "add", "activate"} =>
         wmsg[w] \in Messages /\ wmsg[w].kind = "connect"
    /\ wpc[w] \in {"contains", "validate", "north", "south", "remove"} =>
         wmsg[w] \in Messages /\ wmsg[w].kind = "disconnect"

ActivationShape == SlotShape /\ HandlerShape

\* Every activation in its loop can be ended: its done channel is closed, or
\* is in the list the next deactivate call or Stop will close.
Stoppable == \A c \in Chans : apc[c] \in {"run", "send"} => c \in closed \union Registered

\* A connected gateway has an activation on every backend, except while the
\* goroutine that added it is about to start them or one that removes it is
\* at work; for any number of workers. A middleware that fails leaves the ID in
\* the set without activations, for ever (exchange.go:238-241).
ConnectedIsServed ==
  phase = "running" /\ "middleware" \notin faults =>
    \A id \in gateways : Connecting(id) \/ Disconnecting(id) \/ Served(id)

\* Messages of a gateway are carried only while it is connected: "routed until
\* a disconnection message is received" (exchange.go:29-33).
RoutedUntilDisconnected == \A c \in Chans : Active(c) => task[c][2] \in gateways

\* That is so when messages about one gateway are handled one after the other,
\* and after its activations have started or ended.
Orderly == faults \intersect {"late", "parallel"} = {}
DisconnectedIsSilent == Orderly => RoutedUntilDisconnected

\* The activation that runs for a connected gateway is the one the backend
\* delivers to, and there is one per backend. In a hurried reconnect the old
\* activation's Unsubscribe takes the new one's subscription away
\* (exchange.go:456, 498); a failed subscription is not tried again (465-472).
ActiveIsSubscribed == Orderly /\ "backend" \notin faults => \A c \in Chans : Active(c) => sub[task[c]] = c

\* The gauge counts the connected gateways, but for those being connected.
\* Two handlers of one disconnect each take one off it (exchange.go:257-272); a
\* refused connect message leaves its gateway in the set, uncounted (238-241).
GaugeExact ==
  faults \intersect {"parallel", "middleware"} = {} =>
    gauge + Cardinality({w \in Workers : wpc[w] = "activate"})
          + Cardinality({booting} \ {NoId})
      = Cardinality(gateways)

\* An activation whose done channel is closed ends.
ClosedEnds == \A c \in Chans : c \in closed ~> apc[c] = "free"

\* A connected gateway comes to be read on every backend, or is disconnected,
\* if its messages are handled orderly, no middleware refuses one and no
\* subscription fails.
Read(id) == \A be \in BackendsOf(id) : \E c \in Chans :
              task[c] = <<be, id>> /\ Active(c) /\ sub[<<be, id>>] = c
ConnectedIsRead ==
  \A id \in Ids :
    Orderly /\ faults \intersect {"middleware", "backend"} = {} /\ id \in gateways ~> id \notin gateways \/ Read(id)
=============================================================================
