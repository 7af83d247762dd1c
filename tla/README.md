# TLA+ models of the gateway connector bridge

The gateway connector bridge routes messages between LoRaWAN gateways (the
southbound side) and network servers (the northbound side). It is a Go program
of many goroutines that share maps, mutexes, channels and connections, and its
hard part is not what it does with a message but when a gateway's messages are
routed at all: gateways connect and disconnect while activations start and end,
connections to brokers come and go, the table of UDP gateways expires entries,
and the process may crash. These modules model that control; the contents of
messages are left out unless a property needs them.

Line numbers are those of the Go files at the modelled commit. `PROJECT.json`
maps every definition to the lines it stands for, lists the runs, the mutant
each property is known to catch, the hazards and the theorems.

## 1. Inventory

| Component | Code | State | Operations | Model |
|---|---|---|---|---|
| Exchange | `exchange/exchange.go`, `watchdog.go`, `metrics.go` | set of connected gateways, lists of done channels per gateway, gauge, one goroutine per gateway and backend (activation), worker goroutines | connect and disconnect messages, `ConnectGateway`, `Start`, `Stop`, uplink/downlink/status hand-over | `Exchange` |
| Gateway state | `exchange/state.go` | the set in memory and its copy in Redis | `Add`, `Remove`, `InitRedisState` | `GatewayState` |
| Key and token store | `auth/*.go` | per gateway a key, a token and its expiry (memory or Redis) | `SetKey`, `ValidateKey`, `GetToken`; `SetToken`, `Delete` | `Registry`; keys also in `Exchange` |
| Packet forwarder: table | `backend/pktfwd/backend.go` 40-96, 148-155, 297-336 | MAC to address and time of the last PULL_DATA | `get`, `set`, `cleanup` with callbacks | `GatewayTable` (announcements), `UdpServer` (addresses) |
| Packet forwarder: routing | `backend/pktfwd/pktfwd.go` | maps of channels per gateway, an RWMutex | two loops, Subscribe and Unsubscribe | `PacketRouting` |
| Packet forwarder: source locks | `backend/pktfwd/security.go` | MAC to address and time | `Set`, cleanup goroutine | `SourceLocks`, `SourceLease` |
| Packet forwarder: data plane | `backend/pktfwd/backend.go` 127-605, `structs.go` | three source locks, the table, a goroutine per packet | datagrams to packets, acknowledgements and messages; `Send` | `UdpServer`, `Packets` |
| MQTT backend | `backend/mqtt/mqtt.go` | subscriptions, the client's handlers, a flag | subscribe, unsubscribe, on-connect and connection-lost handlers | `MqttSubscriptions` |
| AMQP backend | `backend/amqp/amqp.go` | subscriptions, consumers, publish channel, connection | subscribe, unsubscribe, reconnect, publish | `AmqpSubscriptions`, `AmqpConnection` |
| TTN router backend | `backend/ttn/router.go` | a `gatewayConn` with streams per gateway | publish, subscribe, `CleanupGateway` | `TtnRouter` |
| Debug page | `backend/dummy/*.go`, `assets/script.js` | channels per gateway, a list of gateways, events, a web page | the backend interface, `ConnectedGateways` | `DebugPage` |
| Middleware | `middleware/**` | chain; rate-limit buckets, last messages, gateway information, lists | `Execute` with a time-out, one handler per message type | `Middleware`; its outcome in `Exchange` |
| Start-up | `cmd/cmd.go` | none | makes all of it, `Start`, `ConnectGateway`, `Stop` | its order in `Exchange`, `GatewayState` |

How they interact: a southbound backend sends connect and disconnect messages on
a channel each; `subscribeSouthbound` passes them to the workers of
`handleChannels`. A connect message starts one activation per backend, which
subscribes with the backend, registers a done channel with the exchange and
passes the gateway's messages to the workers, which call the middleware and
publish to the other side. A disconnect message closes the done channels. The
packet forwarder announces gateways from callbacks that run under its table's
lock, and sends messages to activations under its routing lock: both locks are
also wanted by the goroutines that should take what is sent.

### What is hard here, and what makes each part correct

* **Exchange.** Two workers may handle a connect and a disconnect of the same
  gateway at once; activations register their done channel late; Stop races
  both. Correct: no done channel is closed twice, every activation can be
  ended, a connected gateway is served and comes to be read, a disconnected one
  is silent, the gauge counts.
* **Gateway state.** Redis is written from goroutines nobody waits for. Correct:
  Redis agrees with memory when nothing is under way, and a crash loses no
  connection that was on record, unless the record cannot be read.
* **Gateway table.** Announcements under the lock against handlers that need
  the lock, resolved only by the watchdog. Correct: every arrival and expiry is
  announced once, nothing waits for ever, the exchange agrees with the table but
  for gateways it has another reason to keep.
* **Routing.** A reader that sends while a writer waits. Correct: a channel is
  never used after it was closed nor for another gateway, and the loops return.
* **Source locks.** Two time limits, one for refusing and one for deleting.
  Correct: together they are a lease.
* **Data plane.** A goroutine per packet asks a lock, stores an address,
  acknowledges and passes on, in steps that other packets get between, while
  locks and table age by clocks of their own. Correct: downlink goes to the holder
  of the lease and to nobody else, a gateway that keeps its addresses is never
  refused, what is accepted is acknowledged whatever the rest of the bridge does.
* **MQTT, AMQP.** Subscriptions have to survive lost connections while calls come
  in. Correct: what is subscribed comes to be subscribed with the broker and
  reaches the channel the exchange reads, what is unsubscribed is gone, calls
  return, no closed channel is sent on, what is published leaves the buffer.
* **Debug page.** Channels by gateway ID, and a list that changes beside the
  events about it. Correct: a running activation reads its own open channels, the list
  has the active gateways, the page shows the list.
* **TTN router.** A gateway's streams are made by whoever comes first, and read
  without the lock. Correct: a running activation reads open streams with
  downlink and, unless activations overlap, no streams are left open that nobody
  will close.
* **Middleware.** Four maps that connect, disconnect and message handlers share,
  chains that run on after a time-out, fetches in the background. Correct: what
  is kept agrees with what was handled, limits count every worker, nothing is
  kept of a gateway that is gone.
* **Keys and tokens.** A token is fetched with a key that may change meanwhile,
  with the store's locks held while the account server is asked; keys and the set
  of gateways are written one after the other. Correct: the token of an old key
  goes out of use, handlers return, a restored gateway has its key if it sent one
  with every connect message.

## 2. Conventions

Each model has one action per step that another goroutine can see or disturb: a
step ends at a channel operation, a lock, or a call into a shared component.
Goroutines, channels and entries that come and go are *slots* from a finite set
(`Chans`, `Acts`, `Insts`, `Calls`), reused once nothing refers to them.

**What may happen is part of the state.** `FaultSets` (in `PacketRouting`
`RaceSets`, in
`MqttSubscriptions` `MqttFaultSets`) is a set of sets of fault kinds; `Init` chooses one of them for the
behaviour (`faults`, `mqttFaults`, `race`, in `UdpServer` `traffic`; never changed). A run checks several at once, and a property
that the code keeps only in calmer behaviours names the faults it excludes:
`"middleware" \notin faults => ...`. So every such condition is a statement
about the code, written next to the property, with the line that breaks it.
Each condition is needed: without it TLC finds the behaviour the comment tells.
The conditions in one place:

| Property | Excludes | What happens otherwise |
|---|---|---|
| `ConnectedIsServed` | middleware | a refused connect leaves the gateway in the set (exchange.go:238-241) |
| `DisconnectedIsSilent` | late, parallel | activations register after the disconnect (439) |
| `ActiveIsSubscribed` | late, parallel, backend | the last session's Unsubscribe takes the next one's subscription (456, 498); a failed one is not retried (465-472) |
| `GaugeExact` | parallel, middleware | two workers count one disconnect (257-272) |
| `ConnectedIsRead` | late, parallel, middleware, backend | as above |
| `QuietAgrees` | several or replaced handlers; gateways in `kept` | a replaced handler finishes late (193-196, 371-376); a gateway that ConnectGateway restored, or whose disconnect message was refused or timed out (261-268), is connected beside the table |
| `LoopReturnsCalm` | packets that race a connect or a disconnect | deadlock on `f.mu` (pktfwd.go:59-61, 135, 146) |
| `RouteFollowsLease` | stall | a goroutine that takes longer than the session stores an address after its time (backend.go:303, 322) |
| `OwnPortsPass` | move | a source that is not the holder is refused, as it should |
| `PersistedAgrees` | overlap, redis | SREM before SADD (state.go:52, 60); errors are dropped, that of the read at the start, too (39) |
| `RestartKeeps` | overlap; what was on record before a start that could not read it | SREM before SADD; such a start restores nothing (state.go:39) |
| `RestoredHasKey` | redis; gateways in `keyless` | SetKey's error is only logged (exchange.go:226-231), and it is not called without a key, as of the packet forwarder (pktfwd.go:95) |
| `ReadsOpen`, `ListedIsActive` | overlap | the end of one activation closes the channels of the next (dummy.go:147-156, 179-221) |
| `PageAgrees` | hasty, reorder | the event is sent before the list changes (http.go:149-155) |
| `RestoredUnlessLostAgain`, `ComesBack` | again | the flag is reset after it was set again (mqtt.go:58) |
| `HandlesOpen` | inhand | the channel is closed before the client is told (mqtt.go:174-178) |
| `OneConsumer` | rush, cut | unsubscribed before it is there, or while the connection is away, a consumer comes back beside the next one (amqp.go:375-383) |
| `BufferDrains` | early, blind, giveup | the goroutine that publishes ends and is not started again (amqp.go:278-288, 323) |
| `UnsubscribeReturns` | rush, giveup, blind, down | it waits, with the lock read, for a set-up that needs the lock or gave up (amqp.go:371-383, 437-439) |
| `ComesToConsume` | all failures but cut | the goroutine ends instead of retrying (amqp.go:391-400) |
| `StreamsAccounted` | overlap | new streams go into a `gatewayConn` that was dropped (router.go:155-160) |
| `DownlinkServed` | overlap | a late unsubscribe closes the next session's streams (router.go:122-129) |
| `KnownWasHandled` | timeout, backend, counter | a message is on record before it is taken (deduplicate.go:52); the error of a counter refuses it (ratelimit.go:141-144) |
| `WithinLimit` | parallel, timeout | a goroutine counts on limits that were replaced (ratelimit.go:99, 117) |
| `Forgotten` | parallel, late, timeout, spelling; for information also slow, stored | entries are made again after the disconnect (ratelimit.go:130, deduplicate.go:52, gatewayinfo.go:126); they have the ID in lower case, which a disconnect message may spell otherwise (exchange.go:254, 265); Redis keeps them (gatewayinfo.go:153) |

A comment `Mutant:` marks an operator that no specification uses: a plausible
wrong version of the definition after it. Replacing the definition by it makes
TLC refute the property `PROJECT.json` names, so the property is about the code.

## 3. The modules

### Exchange

State: `gateways`, `keys`, `gauge` and the lists `northDone`, `southDone` are the
fields of the struct and of the stores it calls; `wpc`, `wmsg` are the workers of
`handleChannels`; `held` the message that `subscribeSouthbound` has read and is
sending; `apc`, `task`, `closed` the activations with their done channels; `sub`
what the backends keep. The wildcard gateway "" of `--route-unknown-gateways` is
`Wildcard`: it has no northbound side.

| Code | Actions |
|---|---|
| `subscribeSouthbound` | `Offer`, `Receive` |
| connect case of `handleChannels` | `SetKey`, `AddGateway`, `ConnectRefused`, `ActivateGateway` |
| disconnect case | `ContainsGateway`, `ValidateKey`, `DisconnectRefused`, `DeactivateNorth`, `DeactivateSouth`, `RemoveGateway` |
| uplink, downlink, status cases | `Handoff`, `Route` |
| `activateNorthbound`, `activateSouthbound` | `Subscribe`, `SubscribeFails`, `Register`, `Take`, `Handoff`, `Leave`, `Unsubscribe` |
| `ConnectGateway` | `ForceAdd`, `ForceActivate` |
| `Stop` | `CloseDone`, `Sweep`, `Quit` |

`late` and `parallel` are not failures: without `late` a message about a gateway
is received only when its activations have started or ended, without `parallel`
only when no other connect or disconnect message is being handled; both hold of
`ConnectGateway`, too, which without `late` waits for the last session's activations to have ended. They split
the behaviours by what the environment and the number of workers allow. `Offer` goes on after
Stop: a `select` that finds `done` closed and a message ready takes either.

### GatewayTable

The table with its RWMutex (`holder`), PULL_DATA goroutines, the cleanup loop, and
the exchange's handlers and watchdog as far as they matter to the lock. `fresh`
are the gateways heard of within the session time: expiry is the step `Expire`,
at any time. A handler with a downlink waits for the lock which an announcing
goroutine holds until a handler takes its message; `Watchdog` starts a
replacement, as the code does after its time-out, when a handler is stuck.
`connected` is the exchange's set: `ConnectGateway` adds what was found in Redis (`onRecord`), a connect
message adds its gateway whatever the middleware says, a disconnect message may be refused for its key or
by the middleware and then leaves it. `kept` is history: the gateways connected for these other reasons.

### PacketRouting

The two loops of `Connect`, `f.mu` with Go's rule that a waiting writer keeps new
readers out, and `activateSouthbound` with its two channels.

### SourceLocks, SourceLease

`SourceLocks` is the map with time stamps (`age`) and the cleanup goroutine.
`SourceLease` says what it promises: per gateway a holder and the time left, no
map, no cleanup. `IsLease` is the refinement (`OwnerOf`, `LeftOf`, `ReplyOf`): an entry
that is older than `cacheTime` is nobody's, so deleting it early or late is not
visible.

### GatewayState

Memory, Redis and the goroutines under way (`writes`). `Crash` loses memory and
what is under way; `Restart` reads Redis as `InitRedisState` does, or fails to, which it does
not notice, and `ForceAdd` is `ConnectGateway` for what was read. `owed` is history: what was on record
and not disconnected since, from the last start that could not read on.

### Registry

`GatewayState` composed with the stores of keys and tokens, which use Redis when it does, else
memory (`store`). A handler of the exchange (`work`) stores the key, if the message has one, before it adds the
gateway, and validates one before it removes it, unless the middleware refuses (`keyless` is history: who connected without a key); a call of `GetToken` (`get`) reads
the token or else the key, asks the account server, stores and returns. A token
is named by the key it was exchanged for, `valid` are the gateways whose token has
not expired. In memory, `ReadLocked` and `GatewayLocked` are the lock of the map and that of the
gateway, held from `Read` to `Return`; `SetKey` waits for the former.

### UdpServer, Packets

`Packets` says what of a datagram is told apart: protocol version, type,
payload; a PUSH_DATA payload is a status, rxpk entries that convert or not, or neither.
`BestAntenna` compares the conversion of `rsig`, turn by turn of its loop, with a reference definition over all
lists of antennas within the bounds.
`UdpServer` EXTENDS `SourceLocks` (its table is that of the PULL_DATA lock; `others` are the two more)
with `table`, the addresses downlink goes to, and a goroutine per packet
(`job`: the packet and what it has still to do, `Steps`). `Send` is `Get` and `Respond`; time passes for
locks and table together, each is cleaned up when its own ticker fires.
The writer goroutine is taken to be there when asked; the loops of `PacketRouting` are not: `PassOn`
has no fairness. `Set` returns, which is what `TableLive` shows of its callbacks.

### DebugPage

An activation of the exchange is a slot with the call it is about to make (`apc`, `Follows`); `chan` and `open` are the channels of `Dummy`, `list`, `events`, `answers`, `page` are what becomes of a
connect on its way to the page. A second `close` of a channel is `panicked`.

### MqttSubscriptions

`subs` is the backend's map, `route` and `broker` the client's and the broker's view
of it, `closed` the channels that cancel functions closed, `inHand` the handler the
client is about to call. The client library is external: it starts a goroutine
for each on-connect and connection-lost handler. Reconnecting takes longer than
the connection-lost handler, which only sets a flag: `Reconnect` waits for it.

### AmqpConnection

`autoReconnect` (`monitor`) and the goroutine that publishes (`publisher`, its channel `open`, the
buffer `buffered`). The client library is external: a lost connection closes all its
channels, and `NotifyClose` on what is already closed reports no error. Both
goroutines take that for an orderly end ("early", "blind").

### AmqpSubscriptions

On that connection (`Lose` is `Drop` with the channels of the consumers). Per key its user (`ppc`: one call at a time, as the exchange calls it), per
subscribe call a goroutine (`spc`) with its own channel (`alive`) and an entry of the
map (`entry`, `set`, `spent`, `holds`, `usable` stand for the WaitGroup, `cancelOnce`
and the channel field). The entry is looked up again by key each time the
goroutine sets up its consumer, so it may be a later call's. `writer` and
`readers` are `subscriptionLock`. A panic (an entry that is not there) is a call
that never goes on.

### TtnRouter

`entry` is `r.gateways`, `stream` the field of each `gatewayConn`; a slot of `Conns` or
`Streams` is free again when nothing refers to it. An activation goes through
`SubscribeDownlink`, `Downlink`, perhaps `Replace` and `CloseOld`, then runs until `Leave` and
`CleanupGateway`; a worker publishes in two steps, `Publish` and `Sent`. The streams are
the client library's: closed streams drop what is sent and end what is read,
`Downlink()` fails on streams made without downlink.

### Middleware

A job is a goroutine of `Execute`: the message, the places of the chain still to run (`rest`), the
place in `get` (`at`), the limits it holds, and whether a worker still waits for it.
`Chain` is the order in which cmd.go appends, `ChainFor` what `filterConnect` and the other
filters leave of it. The exchange's part is `Connect`, `Disconnect`, `Message`,
`ConnectGateway` and `Finish`. `Gateways` are IDs as messages spell them, `Lower` puts them in lower case: the exchange
keeps those (`Names`), and uplink, downlink and status messages have them, but the middleware gets connect and disconnect
messages as they came ("spelling"). `handled` and `passed` are history, reset where the
handlers forget. The limits are those of a minute that does not end: a count that goes
down again lets more pass, which no property is about. `rate.Limiter` is external and
taken to be atomic; in Redis it may fail, with the message counted or not (`LimitFails`, "counter"). That
counters in Redis outlive `newLimits`, which only limits more, is left out.

## 4. Runs

| Run | Module | Instance | Shows |
|---|---|---|---|
| `ExchangeFaults` | MCExchange | one gateway (also restored by `ConnectGateway`), a backend a side, 2 workers, 3 done channels, five fault sets | all safety properties of the exchange |
| `ExchangeLive` | MCExchange | a gateway and the wildcard, one key, 1 worker, no faults | `ConnectedIsRead`, `ClosedEnds` |
| `TableLive` | MCGatewayTable | 1 MAC, 2 packets, a handler and its replacement | safety and liveness of the table |
| `Routing` | MCPacketRouting | 2 gateways and the wildcard, 2 activations | safety of the maps; the loops return in calm behaviours |
| `RoutingBlocked` | MCPacketRouting | 1 gateway, 1 activation | refutes `LoopReturns` |
| `DataPlane` | MCUdpServer | a gateway, 2 IPs with 2 ports, 2 packets at a time, cacheTime 2, rsig lists of 3 antennas | route, ports, acknowledgements; the locks refine the lease |
| `Registry` | Registry | a gateway, 2 keys or none, 2 calls of GetToken, both stores, crashes, failing Redis | persistence, keys and tokens, handlers get through |
| `Page` | MCDebugPage | 2 gateways, 3 activations, buffer of 1, 2 answers under way | channels, list and page |
| `Mqtt` | MCMqttSubscriptions | 2 topics, 3 instances, 2 on-connect handlers | restoring subscriptions |
| `Amqp` | MCAmqpSubscriptions | 2 keys, 2 subscribe calls; a buffer of 2 | subscriptions, and publishing, over lost connections |
| `TtnRouter` | MCTtnRouter | a gateway, 2 activations, 1 publishing worker, 3 `gatewayConn`s, 4 streams | streams owned and read, late messages and overlapping activations included |
| `Middleware` | MCMiddleware | a gateway with two spellings of its ID, 2 workers, 2 jobs, 3 uplink messages (one is junk), uplink limit 1, 2 blacklists, 1 fetch at a time, seven fault sets | the four maps against what was handled |

Bounds and why they suffice. `Room` offers a connect message only while there are
done channels for every connect under way: one session of the gateway and the
first activation of the next fit into three, and reuse gives any number of
sessions. `MaxDrift` bounds the gauge, which parallel disconnects let
drift down for ever. `TableLive` has one MAC, since the lock and the handlers are all
that gateways share there; two packets of it meet on the lock. `cacheTime` 2
separates fresh, ageing and expired. `MaxWrites` 1 is enough without
"overlap"; what holds with commands that overtake each other (`RestoredHasKey`) is proved for any number of them. Two packets of a gateway from two addresses are enough to overtake each
other between any two steps; gateways share no entry of the locks or the table. Two
keys and two calls of `GetToken` meet every order of an old and a new token. Two
activations of one gateway and one of another meet in the list. In the `Amqp` run keys are
subscribed in some fault sets and messages published in others: the two share only
the connection, which is lost at any time in both. Two AMQP keys let one key's waiting writer block the
other's set-up. Gateways share nothing in the TTN router and in the middleware but
locks held for a step, so one is enough (of the two IDs in `Middleware` one is the other in lower case); 3 `gatewayConn`s and 4 streams are all that
two activations and a worker can hold on to. A limit of 1 is exceeded by the second
message, and two jobs are the two workers that find no limits, or one that timed
out and the one after it. Symmetry is used only where no liveness is checked.

Fairness. Goroutines that can go on do (weak fairness). A case of a `select` and a
sender on a channel are served when they are ready again and again (strong
fairness: Go picks ready cases at random, and senders wait in line), a mutex
starves nobody (Go's is handed over after a millisecond). Brokers can be reached
again after a connection was lost; nothing says a gateway sends anything, so no
fairness is assumed of `Offer`, `Take` of an activation, `Arrive`, `Lose`, `Subscribe` of a user, `Publish`,
`Unsubscribe`, `Read` of the UDP socket, or `PassOn`. The account server answers, or its client times out.

Deadlock is checked except in `ExchangeFaults` (the exchange may be stopped), `Page` (the code panics when activations overlap), `Routing`,
`RoutingBlocked` and `Amqp` (the code deadlocks, which the properties say).

### Disagreement with the documentation

One run refutes what a comment says of the program; `PROJECT.json` quotes it.

* `RoutingBlocked`: an uplink that arrives when its gateway's activation has just
  left its loop stops the routing of all gateways.

## 5. Proofs

TLAPS proves these for all values of the constants, under the assumptions named
in the modules: that null values differ from proper ones, that the two sides share no
backend, that bounds and `cacheTime` are natural numbers, that `Start` starts a finite number of
handlers, that the debug page keeps at least one event. A property that excludes faults is proved as
it is stated, so its invariant is an implication too, whose premise a behaviour never changes.

**ExchangeProofs.** `Control`: `ControlInv` = types, `ActivationShape`, `CloseOnce` and
`Stoppable` is inductive. `CloseOnce` alone is not: that a channel in a list is open
needs that a slot is only reused when no list holds it (`SlotShape`), and that a
handler knows the gateway it deactivates needs `HandlerShape`. The parts are
theorems of their own: `TypeCorrect`, `ClosedOnce`, `AllStoppable`. `ConnectedServed` builds on
them: a live activation stays live unless its done channel is closed
(`LiveStays`), only deactivation closes channels and those of its own
gateway (`OthersStayLive`), and it is at work until it has removed the gateway from
the set. It holds for any number of workers handling messages of one gateway in
parallel, which is not obvious from the code.
The properties of calmer behaviours rest on `OneMessage`: then one message is in hand.
`GaugeIsExact` follows from it with the cardinality of the set (`Counted`). `DisconnectedSilent` and
`ActiveSubscribed` need `OrderInv`, whose parts need each other at the next message: an ID has one
activation per backend (`Single`), who starts activations finds none, who ends them leaves none untold,
and what is not told to end is of a connected gateway.

**UdpServerProofs.** `Implements`: `SourceLocks` refines `SourceLease`, action by
action, cleanup being a stutter; `ServerUsesLock` and `ServerIsLease` carry that over to the server,
whose steps on PULL_DATA's lock are steps of `SourceLocks`. `RouteIsLease` from `RouteInv`: who is about to
store an address was accepted in this very second, and an address on record for a lease is its
holder's and not older than it, so that the table cannot expire first. `KeptAddressesPass` from `HomeInv`: the locks
and all packets in hand have the gateway's own addresses. `AntennaBest` is an induction over the loop that keeps the best
antenna so far. The library's induction theorems cannot be instantiated here, but that every set of naturals has a
least element (`LeastNat`, from `WFMin`) and so a set with 0 and all successors has them all (`Induction`) can be
proved without them: the set is that of the turns for which the recursive function is defined (`TurnsExist`), then that of
the turns after which the claim holds.

**RegistryProofs.** For `GatewayState`: `Persisted` from `StateInv` (at most one command about a gateway is under
way, and it is the one that makes Redis agree) and `Restarted` from `KeepInv`, for any number of
crashes. `Implements`: every step of `Registry` is a step of `GatewayState` or leaves its
variables alone, so `RegistryPersisted` and `RegistryRestarted` are theorems of the composition.
`RestoredKeys` needs more than that (`KeyInv`): whatever may become a connection on record
(in memory, in Redis, in a write under way, restored, or about to be added by the
handler) has its key on record already, unless it is `keyless`, and keys are replaced, never removed.

**PacketForwarderProofs**, for the two modules on the packet forwarder's goroutines, which share no name.
`AnnouncesOnce` from `LockInv`: who announces has the lock, and the cleanup visits each
entry once. `OneHandlerAgrees` from `AgreeInv`: the table is what the exchange will think connected, apart from what it
keeps, when the one handler and the forwarder have done what they have in hand. `SentOnTarget` from `MapShape` (an entry of the maps is the open
channel of an activation that has it and is in its place) and `LoopShape` (a loop that sends has the lock, so that its
target stays in the map), on `RoutingTypeInv`, which says who has the lock.

**BackendProofs**, for `MqttSubscriptions` and `TtnRouter`, which share no name either. `OpenHandled` from `OpenInv`: the
client's table names channels that are open, or the instance whose topic is being unsubscribed.
`SubscriptionsRestored` from `OneByOne` (an on-connect handler runs only when the one before is through, and the flag is
up when it is read) and `RestoreInv` (online, with no handler still to subscribe, the broker has every topic).
`RouterTypeCorrect` holds with overlapping activations, too. `AllAccounted` and `RunningServed` need `OwnInv` (the
gatewayConns in the map have open streams of their own, which nobody is about to close) and `ServeInv` (an activation
works on the gatewayConn that is in the map, since nobody else takes it out), and each other.

**DebugPageProofs.** `OpenRead` from `OwnInv`: the entry of a gateway has the channels of its activation until that
unsubscribes them, one after the other. `ListRight` from `ListInv`, for which `WithoutOne` shows, by induction over the
loop of `Disconnect`, that it takes a gateway off the list and leaves the others, each once. `PageFollowsList` from
`LatestInv`: if no event is left, the last answer on its way to the page, or else the page, is the list. A dropped event
does no harm because the channel it found full holds another; `BufferSize` is at least 1.

**AmqpProofs.** `GoneStaysGone` from `GoneInv`: what is gone has no queue, and only who finds a queue
becomes a consumer. `OneAtMost` from `AloneInv`: an entry's channel is that of the goroutine that may
consume, other goroutines of the key are over, or will find that they are.

**MiddlewareProofs.** A step starts, moves on or ends one goroutine (`JobStep`), which all four theorems use: `TypeCorrect`;
`LimitsHold` from `LimitInv` (what has passed was counted on the gateway's present limits, which whoever is about to
count has in hand: new limits are nobody else's); `KnownHandled` from `KnownInv` (the message on record was handled, or is
in hand past the third place of the chain, where without "counter" only the limit may still refuse it); `GoneIsForgotten` from
`ForgetInv` (a middleware that the disconnect message has passed has forgotten the gateway). The latter need `Alone`: without
"parallel" and "timeout" a connect or disconnect message is alone in hand of its gateway. `KnownHandled` holds with "parallel" all the same.

Every invariant the runs check is a theorem, and so are `IsLease` and `OwnPortsPass` of the other
properties. Only model-checked is what says that something happens in the end (`~>`, and `<>[]` in
`NewKeyTakesOver`): liveness under fairness is out of the prover's reach.

## 6. Not modelled

* Contents of messages, except what the packet forwarder drops, what the middleware
  refuses and how the best antenna is chosen: frequencies, data rates, times and the
  conversion of a downlink message to a TXPK are copied or formatted field by field.
* `types/*`: data types and generated code. Logging, metrics other than the gauge, flags and configuration.
* What nothing in the bridge calls: `Close` of the packet forwarder's backend, `Delete` and
  `SetToken` of the stores, publishing and `CleanupGateway` of the debug page beyond
  what the exchange calls.
* Message events of the debug page (they take the way of the connect events), its
  static files.
* The client libraries (MQTT, AMQP, gRPC, Redis, `rate`): only what the calls in `src/` see of them.
* That counters of the rate limit in Redis outlive the limits of a connection, which only limits more.

Go's memory model is taken to be sequentially consistent, except that a race
has all its orders.

## 7. Plan

Done so far: every part of the inventory has a model, and the safety properties of the core are proved. What is left, in this order:

1. What `HandleStatus` of gatewayinfo and inject put into a message, as operators.
2. The conversion of a downlink message, as an operator.
