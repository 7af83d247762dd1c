--------------------------- MODULE PacketRouting ---------------------------
(***************************************************************************)
(* How the packet forwarder's uplink and status loops hand messages to the *)
(* exchange's activations (backend/pktfwd/pktfwd.go, activateSouthbound in *)
(* exchange/exchange.go). One RWMutex guards the maps of subscriptions:    *)
(* a loop holds it for reading while it sends to a gateway's channel, an   *)
(* activation needs it for writing to subscribe and to unsubscribe.        *)
(***************************************************************************)
EXTENDS Naturals, FiniteSets

CONSTANTS
  Gateways,      \* gateway IDs that occur in messages
  Wildcard,      \* the ID "" that catches the rest
  Acts,          \* slots for activateSouthbound goroutines; each makes one
                 \* channel per loop, named after the slot
  RaceSets,      \* what may come together: a behaviour keeps to one of the sets
  NoAct, NoGateway

Loops == {"uplink", "status"}
Ids == Gateways \union {Wildcard}

\* Packets of a gateway may arrive while it connects, while it disconnects.
Races == {"connect", "disconnect"}

ASSUME RaceAssumption == RaceSets \subseteq SUBSET Races
ASSUME WildcardAssumption == Wildcard \notin Gateways
ASSUME NoActAssumption == NoAct \notin Acts /\ NoGateway \notin Ids

VARIABLES
  lpc, lmsg, lch,  \* per loop: its place, the gateway of its message, the channel it sends on
  readers, writer, \* f.mu: loops that hold it for reading; the activation that asked to write
  chan,            \* f.uplink and f.status: per loop and ID, the subscribed channel
  shut,            \* per loop, the channels that were closed
  apc, act,        \* per slot: the activation's place and its gateway
  ended,           \* slots whose done channel is closed
  race             \* the set of this behaviour

loopVars == <<lpc, lmsg, lch>>
routingVars == <<lpc, lmsg, lch, readers, writer, chan, shut, apc, act, ended, race>>

RoutingInit ==
  /\ lpc = [l \in Loops |-> "read"]
  /\ lmsg = [l \in Loops |-> NoGateway]
  /\ lch = [l \in Loops |-> NoAct]
  /\ readers = {} /\ writer = NoAct
  /\ chan = [l \in Loops |-> [i \in Ids |-> NoAct]]
  /\ shut = [l \in Loops |-> {}]
  /\ apc = [a \in Acts |-> "free"]
  /\ act = [a \in Acts |-> NoGateway]
  /\ ended = {}
  /\ race \in RaceSets

-----------------------------------------------------------------------------
(* What may come together *)

Starting == {"sub-uplink", "sub-status"}
Ending(a) == a \in ended \/ apc[a] \in {"unsub-uplink", "unsub-status"}

\* The activations whose channel a message of the ID may be sent on.
Serving(id) == {a \in Acts : act[a] \in {id, Wildcard}}

\* No loop has a message in hand that may go to the ID's channel.
Quiet(id) == \A l \in Loops : lpc[l] = "read" \/ id \notin {lmsg[l], Wildcard}

ArrivalAllowed(g) ==
  /\ "connect" \in race \/ \A a \in Serving(g) : apc[a] \notin Starting
  /\ "disconnect" \in race \/ \A a \in Serving(g) : ~Ending(a)

-----------------------------------------------------------------------------
(* The two loops that Connect starts *)

\* A message comes out of rxChan or statsChan.
Arrive(l, g) ==
  /\ lpc[l] = "read"
  /\ ArrivalAllowed(g)
  /\ lpc' = [lpc EXCEPT ![l] = "lock"]
  /\ lmsg' = [lmsg EXCEPT ![l] = g]
  /\ UNCHANGED <<lch, readers, writer, chan, shut, apc, act, ended, race>>

\* The channel for a message: the gateway's own, else that of "".
Target(l, g) == IF chan[l][g] # NoAct THEN chan[l][g] ELSE chan[l][Wildcard]

\* Mutant: a message for an inactive gateway is looked up again.
LookUpWaits(l) ==
  /\ lpc[l] = "lock"
  /\ writer = NoAct
  /\ LET ch == Target(l, lmsg[l])
     IN IF ch = NoAct
          THEN UNCHANGED <<lpc, lmsg, lch, readers>>
          ELSE /\ lpc' = [lpc EXCEPT ![l] = "send"]
               /\ lch' = [lch EXCEPT ![l] = ch]
               /\ readers' = readers \union {l}
               /\ UNCHANGED lmsg
  /\ UNCHANGED <<writer, chan, shut, apc, act, ended, race>>

\* RLock (a writer that waits keeps new readers out) and the look-up; a
\* message for an inactive gateway is dropped.
LookUp(l) ==
  /\ lpc[l] = "lock"
  /\ writer = NoAct
  /\ LET ch == Target(l, lmsg[l])
     IN IF ch = NoAct
          THEN /\ lpc' = [lpc EXCEPT ![l] = "read"]
               /\ lmsg' = [lmsg EXCEPT ![l] = NoGateway]
               /\ UNCHANGED <<lch, readers>>
          ELSE /\ lpc' = [lpc EXCEPT ![l] = "send"]
               /\ lch' = [lch EXCEPT ![l] = ch]
               /\ readers' = readers \union {l}
               /\ UNCHANGED lmsg
  /\ UNCHANGED <<writer, chan, shut, apc, act, ended, race>>

\* The send meets the activation at its select; RUnlock.
Deliver(l) ==
  /\ lpc[l] = "send"
  /\ apc[lch[l]] = "run"
  /\ apc' = [apc EXCEPT ![lch[l]] = "handoff"]
  /\ lpc' = [lpc EXCEPT ![l] = "read"]
  /\ lmsg' = [lmsg EXCEPT ![l] = NoGateway]
  /\ lch' = [lch EXCEPT ![l] = NoAct]
  /\ readers' = readers \ {l}
  /\ UNCHANGED <<writer, chan, shut, act, ended, race>>

-----------------------------------------------------------------------------
(* activateSouthbound *)

Spawn(a, id) ==
  /\ apc[a] = "free"
  /\ \A b \in Acts : act[b] = id => Ending(b)
  /\ "connect" \in race \/ Quiet(id)
  /\ "disconnect" \in race \/ \A b \in Acts : act[b] # id
  /\ apc' = [apc EXCEPT ![a] = "sub-uplink"]
  /\ act' = [act EXCEPT ![a] = id]
  /\ UNCHANGED <<loopVars, readers, writer, chan, shut, ended, race>>

\* The places where an activation needs the lock for writing.
Writes(a) == apc[a] \in {"sub-uplink", "sub-status", "unsub-uplink", "unsub-status"}

\* f.mu.Lock: the writer asks, and waits for the readers to leave.
AskLock(a) ==
  /\ Writes(a)
  /\ writer = NoAct
  /\ writer' = a
  /\ UNCHANGED <<loopVars, readers, chan, shut, apc, act, ended, race>>

\* Mutant: the writer does not wait for the readers.
HasLockAtOnce(a) == writer = a

HasLock(a) == writer = a /\ readers = {}

\* SubscribeUplink, then SubscribeStatus: a new channel replaces the old one.
Subscribe(a, l, pc) ==
  /\ HasLock(a)
  /\ chan' = [chan EXCEPT ![l][act[a]] = a]
  /\ apc' = [apc EXCEPT ![a] = pc]
  /\ writer' = NoAct
  /\ UNCHANGED <<loopVars, readers, shut, act, ended, race>>

SubscribeUplink(a) == apc[a] = "sub-uplink" /\ Subscribe(a, "uplink", "sub-status")
SubscribeStatus(a) == apc[a] = "sub-status" /\ Subscribe(a, "status", "run")

\* The message in hand is taken by a worker.
Handoff(a) ==
  /\ apc[a] = "handoff"
  /\ apc' = [apc EXCEPT ![a] = "run"]
  /\ UNCHANGED <<loopVars, readers, writer, chan, shut, act, ended, race>>

\* The exchange closes the done channel.
Disconnect(a) ==
  /\ apc[a] \in {"run", "handoff"}
  /\ a \notin ended
  /\ act[a] # Wildcard
  /\ "disconnect" \in race \/ Quiet(act[a])
  /\ ended' = ended \union {a}
  /\ UNCHANGED <<loopVars, readers, writer, chan, shut, apc, act, race>>

\* The select finds done closed.
Leave(a) ==
  /\ apc[a] = "run"
  /\ a \in ended
  /\ apc' = [apc EXCEPT ![a] = "unsub-uplink"]
  /\ UNCHANGED <<loopVars, readers, writer, chan, shut, act, ended, race>>

\* UnsubscribeUplink, UnsubscribeStatus: close the gateway's channel, whoever
\* made it, and drop the entry.
Close(a, l) ==
  /\ HasLock(a)
  /\ chan' = [chan EXCEPT ![l][act[a]] = NoAct]
  /\ writer' = NoAct
  /\ UNCHANGED <<loopVars, readers, race>>

UnsubscribeUplink(a) ==
  /\ apc[a] = "unsub-uplink"
  /\ Close(a, "uplink")
  /\ shut' = [shut EXCEPT !["uplink"] = @ \union ({chan["uplink"][act[a]]} \ {NoAct})]
  /\ apc' = [apc EXCEPT ![a] = "unsub-status"]
  /\ UNCHANGED <<act, ended>>

\* The goroutine ends; its slot and its channels' names are free for reuse.
UnsubscribeStatus(a) ==
  /\ apc[a] = "unsub-status"
  /\ Close(a, "status")
  /\ shut' = [l \in Loops |-> (shut[l] \union
               (IF l = "status" THEN {chan[l][act[a]]} ELSE {})) \ {a, NoAct}]
  /\ apc' = [apc EXCEPT ![a] = "free"]
  /\ act' = [act EXCEPT ![a] = NoGateway]
  /\ ended' = ended \ {a}

-----------------------------------------------------------------------------
RoutingNext ==
  \/ \E l \in Loops, g \in Gateways : Arrive(l, g)
  \/ \E l \in Loops : LookUp(l) \/ Deliver(l)
  \/ \E a \in Acts, id \in Ids : Spawn(a, id)
  \/ \E a \in Acts : \/ AskLock(a) \/ SubscribeUplink(a) \/ SubscribeStatus(a)
                     \/ Handoff(a) \/ Disconnect(a) \/ Leave(a)
                     \/ UnsubscribeUplink(a) \/ UnsubscribeStatus(a)

RoutingSpec == RoutingInit /\ [][RoutingNext]_routingVars

\* Goroutines run, the RWMutex starves neither side, the select picks a
\* ready case at random, and there is always a worker that comes back to
\* take the message of an activation.
RoutingFairness ==
  /\ \A l \in Loops : SF_routingVars(LookUp(l) \/ Deliver(l))
  /\ \A a \in Acts :
       /\ SF_routingVars(AskLock(a)) /\ WF_routingVars(Handoff(a)) /\ SF_routingVars(Leave(a))
       /\ WF_routingVars(\/ SubscribeUplink(a) \/ SubscribeStatus(a)
                  \/ UnsubscribeUplink(a) \/ UnsubscribeStatus(a))

RoutingFairSpec == RoutingSpec /\ RoutingFairness

-----------------------------------------------------------------------------
(* Properties *)

RoutingTypeOK ==
  /\ lpc \in [Loops -> {"read", "lock", "send"}]
  /\ lmsg \in [Loops -> Gateways \union {NoGateway}]
  /\ lch \in [Loops -> Acts \union {NoAct}]
  /\ readers \subseteq Loops /\ writer \in Acts \union {NoAct}
  /\ chan \in [Loops -> [Ids -> Acts \union {NoAct}]]
  /\ shut \in [Loops -> SUBSET Acts]
  /\ apc \in [Acts -> {"free", "sub-uplink", "sub-status", "run", "handoff",
                       "unsub-uplink", "unsub-status"}]
  /\ act \in [Acts -> Ids \union {NoGateway}]
  /\ ended \subseteq Acts
  /\ race \in RaceSets

\* A loop never sends on a closed channel (it would panic), and the channel
\* is still the one the maps name for the message, own before "": nobody
\* changed the maps between the look-up and the send.
SendsOnTarget ==
  \A l \in Loops : lpc[l] = "send" =>
    /\ lch[l] \notin shut[l]
    /\ lch[l] = Target(l, lmsg[l])

\* A loop comes back for the next message, which may be any gateway's
\* ("Uplink messages are routed ... Status messages are routed ...",
\* exchange.go:29-33).
LoopReturns == \A l \in Loops : lpc[l] # "read" ~> lpc[l] = "read"

\* It does when no packet of a gateway is in flight while the gateway connects
\* or disconnects.
LoopReturnsCalm == \A l \in Loops : race = {} /\ lpc[l] # "read" ~> lpc[l] = "read"
=============================================================================
