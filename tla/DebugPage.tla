------------------------------ MODULE DebugPage ------------------------------
(***************************************************************************)
(* The debug page (backend/dummy): a Dummy with a web server, which the    *)
(* bridge adds as northbound and as southbound backend. Dummy keeps three  *)
(* channels per gateway, that nobody sends on here; the server keeps the   *)
(* list of connected gateways and sends events to the pages, which answer  *)
(* each by asking for the list (assets/script.js).                         *)
(*                                                                         *)
(* An activation of the exchange is a slot; the channels it made have its  *)
(* name. Entries of d.gateways are never deleted (CleanupGateway is not    *)
(* called), the channels they are made with never read.                    *)
(***************************************************************************)
EXTENDS Naturals, SequencesExt

CONSTANTS
  Gateways,
  South, North, \* slots for activations
  BufferSize,   \* events that are kept per channel
  MaxFetches,   \* bound: answers to the page at one time
  FaultSets,    \* what may happen, see FaultKinds: a behaviour keeps to one of the sets
  None

Acts == South \union North

FaultKinds == {
  "overlap", \* a gateway is activated again before its last activation has ended
  "hasty",   \* the page asks before the call that sent the event has changed the list
  "reorder"} \* answers reach the page in another order than they were given
ASSUME PageFaultsAssumption == FaultSets \subseteq SUBSET FaultKinds
ASSUME PageBufferAssumption == BufferSize \in Nat \ {0}
ASSUME PageSlotsAssumption == South \intersect North = {} /\ None \notin Gateways \union Acts

VARIABLES
  agw, apc,  \* per activation: its gateway and the step it is at
  chan,      \* per gateway and kind of message: whose channel the entry has
  open,      \* channels that are open
  list,      \* s.connectedGateways
  events,    \* s.connect and s.disconnect: how many events they hold
  answers,   \* lists on their way to the page
  page,      \* the list the page shows
  panicked,
  faults

actVars == <<agw, apc>>
chanVars == <<chan, open>>
pageVars == <<answers, page>>
vars == <<agw, apc, chan, open, list, events, answers, page, panicked, faults>>

KindsOf(a) == IF a \in South THEN {"uplink", "status"} ELSE {"downlink"}

\* What activateSouthbound and activateNorthbound make of the backend's calls:
\* the step that follows a step.
Follows(a) ==
  IF a \in South
  THEN [out |-> "connect", connect |-> "list", list |-> "uplink", uplink |-> "status", status |-> "run",
        run |-> "disconnect", disconnect |-> "unlist", unlist |-> "closeuplink",
        closeuplink |-> "closestatus", closestatus |-> "out"]
  ELSE [out |-> "downlink", downlink |-> "run", run |-> "closedownlink", closedownlink |-> "out"]

Close == [uplink |-> "closeuplink", status |-> "closestatus", downlink |-> "closedownlink"]

Init ==
  /\ agw = [a \in Acts |-> None] /\ apc = [a \in Acts |-> "out"]
  /\ chan = [g \in Gateways |-> [k \in {"uplink", "status", "downlink"} |-> None]]
  /\ open = {}
  /\ list = <<>>
  /\ events = [e \in {"connect", "disconnect"} |-> 0]
  /\ answers = <<>> /\ page = <<>>
  /\ panicked = FALSE
  /\ faults \in FaultSets

-----------------------------------------------------------------------------
(* Activations *)

Proceed(a) ==
  /\ apc' = [apc EXCEPT ![a] = Follows(a)[@]]
  /\ agw' = IF Follows(a)[apc[a]] = "out" THEN [agw EXCEPT ![a] = None] ELSE agw

\* The exchange activates a gateway ...
Activate(a, g) ==
  /\ apc[a] = "out"
  /\ \A k \in KindsOf(a) : chan[g][k] # a
  /\ "overlap" \in faults \/ \A b \in Acts : agw[b] = g => (b \in South) # (a \in South)
  /\ agw' = [agw EXCEPT ![a] = g]
  /\ apc' = [apc EXCEPT ![a] = Follows(a)[@]]
  /\ UNCHANGED <<chanVars, list, events, pageVars, panicked, faults>>

\* ... and tells the activation to end.
Leave(a) ==
  /\ apc[a] = "run"
  /\ Proceed(a)
  /\ UNCHANGED <<chanVars, list, events, pageVars, panicked, faults>>

Subscribe(a, k) ==
  /\ apc[a] = k
  /\ chan' = [chan EXCEPT ![agw[a]][k] = a]
  /\ open' = open \union {<<a, k>>}
  /\ Proceed(a)
  /\ UNCHANGED <<list, events, pageVars, panicked, faults>>

\* Mutant: all channels of the gateway are closed.
UnsubscribeAll(a, k) ==
  /\ apc[a] = Close[k]
  /\ panicked' = (chan[agw[a]][k] = None)
  /\ open' = open \ {<<chan[agw[a]][l], l>> : l \in DOMAIN chan[agw[a]]}
  /\ chan' = [chan EXCEPT ![agw[a]] = [l \in DOMAIN @ |-> None]]
  /\ Proceed(a)
  /\ UNCHANGED <<list, events, pageVars, faults>>

\* The channel that is closed is the one the entry has by now; close(nil) panics.
Unsubscribe(a, k) ==
  /\ apc[a] = Close[k]
  /\ panicked' = (chan[agw[a]][k] = None)
  /\ open' = open \ {<<chan[agw[a]][k], k>>}
  /\ chan' = [chan EXCEPT ![agw[a]][k] = None]
  /\ Proceed(a)
  /\ UNCHANGED <<list, events, pageVars, faults>>

-----------------------------------------------------------------------------
(* The server *)

\* Mutant: a disconnect is not announced.
AnnounceConnect(a, e) ==
  /\ apc[a] = e
  /\ events' = [events EXCEPT !.connect = IF e = "connect" /\ @ < BufferSize THEN @ + 1 ELSE @]
  /\ Proceed(a)
  /\ UNCHANGED <<chanVars, list, pageVars, panicked, faults>>

\* An event that finds the channel full is dropped.
Announce(a, e) ==
  /\ apc[a] = e
  /\ events' = [events EXCEPT ![e] = IF @ < BufferSize THEN @ + 1 ELSE @]
  /\ Proceed(a)
  /\ UNCHANGED <<chanVars, list, pageVars, panicked, faults>>

List(a) ==
  /\ apc[a] = "list"
  /\ list' = IF Contains(list, agw[a]) THEN list ELSE Append(list, agw[a])
  /\ Proceed(a)
  /\ UNCHANGED <<chanVars, events, pageVars, panicked, faults>>

\* Mutant: the last gateway is taken off the list.
UnlistLast(a) ==
  /\ apc[a] = "unlist"
  /\ list' = IF list = <<>> THEN list ELSE Front(list)
  /\ Proceed(a)
  /\ UNCHANGED <<chanVars, events, pageVars, panicked, faults>>

\* The loop of Disconnect, that makes a new list of the others.
Without(gateways, g) ==
  LET kept[i \in 0 .. Len(gateways)] ==
        IF i = 0 THEN <<>>
        ELSE IF gateways[i] = g THEN kept[i - 1] ELSE Append(kept[i - 1], gateways[i])
  IN  kept[Len(gateways)]

Unlist(a) ==
  /\ apc[a] = "unlist"
  /\ list' = Without(list, agw[a])
  /\ Proceed(a)
  /\ UNCHANGED <<chanVars, events, pageVars, panicked, faults>>

Changing == \E a \in South : apc[a] = "list" \/ apc[a] = "unlist"

\* handleEvents takes an event from either channel, the page asks for the list
\* and ConnectedGateways answers: what delays any of these delays the event.
Emit(e) ==
  /\ events[e] > 0
  /\ Len(answers) < MaxFetches
  /\ Changing => "hasty" \in faults
  /\ events' = [events EXCEPT ![e] = @ - 1]
  /\ answers' = Append(answers, list)
  /\ UNCHANGED <<actVars, chanVars, list, page, panicked, faults>>

\* updateGateways of the page
Show(i) ==
  /\ i \in DOMAIN answers
  /\ i = 1 \/ "reorder" \in faults
  /\ page' = answers[i]
  /\ answers' = RemoveAt(answers, i)
  /\ UNCHANGED <<actVars, chanVars, list, events, panicked, faults>>

-----------------------------------------------------------------------------

SubscribeUplink(a) == Announce(a, "connect") \/ List(a) \/ Subscribe(a, "uplink")
SubscribeStatus(a) == Subscribe(a, "status")
SubscribeDownlink(a) == Subscribe(a, "downlink")
UnsubscribeUplink(a) == Announce(a, "disconnect") \/ Unlist(a) \/ Unsubscribe(a, "uplink")
UnsubscribeStatus(a) == Unsubscribe(a, "status")
UnsubscribeDownlink(a) == Unsubscribe(a, "downlink")

ActivateSouthbound(a) ==
  SubscribeUplink(a) \/ SubscribeStatus(a) \/ UnsubscribeUplink(a) \/ UnsubscribeStatus(a)
ActivateNorthbound(a) == SubscribeDownlink(a) \/ UnsubscribeDownlink(a)

Next ==
  /\ ~panicked
  /\ \/ \E a \in South : ActivateSouthbound(a)
     \/ \E a \in North : ActivateNorthbound(a)
     \/ \E a \in Acts : Leave(a) \/ \E g \in Gateways : Activate(a, g)
     \/ \E e \in {"connect", "disconnect"} : Emit(e)
     \/ \E i \in 1 .. MaxFetches : Show(i)

Spec == Init /\ [][Next]_vars

-----------------------------------------------------------------------------
(* Properties *)

\* A running activation reads open channels, those its gateway's entry has, and
\* nothing closes a channel that is not there (dummy.go:122-210), as long as the
\* activations of a gateway do not overlap: the end of one takes the channels of
\* the next away, whose select then spins (exchange.go:453, 483) and whose own
\* end panics.
ReadsOpen ==
  "overlap" \notin faults =>
    /\ ~panicked
    /\ \A a \in Acts : apc[a] = "run" =>
         \A k \in KindsOf(a) : chan[agw[a]][k] = a /\ <<a, k>> \in open

\* The list has the gateways whose activations are between their two calls, each
\* once, although activations come and go concurrently (http.go:147-180).
ListedIsActive ==
  "overlap" \notin faults =>
    /\ IsInjective(list)
    /\ ToSet(list) = {agw[a] : a \in {b \in South : apc[b] \in {"uplink", "status", "run", "disconnect", "unlist"}}}

\* Once the events are handled the page shows the list, whatever events were
\* dropped; but the event is sent before the list changes (http.go:149-155): a
\* page that is faster than that, or whose answers overtake each other, shows an
\* older list until the next event.
PageAgrees ==
  /\ faults \intersect {"hasty", "reorder"} = {}
  /\ \A e \in {"connect", "disconnect"} : events[e] = 0
  /\ answers = <<>> /\ ~Changing
  => page = list
=============================================================================
