-------------------------- MODULE MqttSubscriptions --------------------------
(***************************************************************************)
(* The subscriptions of the MQTT backend (backend/mqtt/mqtt.go) and how    *)
(* they survive a lost connection. The client library keeps a table of     *)
(* handlers and runs them one at a time; it starts the connection-lost     *)
(* and the on-connect handler each in a goroutine of its own. Sessions are *)
(* clean: the broker forgets a bridge that disconnects.                    *)
(*                                                                         *)
(* Every Subscribe... call makes a channel for its messages, which its     *)
(* cancel function closes (an Inst here).                                  *)
(***************************************************************************)

CONSTANTS
  Topics,
  Insts,         \* slots for subscriptions; reused once nothing refers to them
  Handlers,      \* slots for on-connect goroutines
  MqttFaultSets, \* what may happen, see MqttFaultKinds: a behaviour keeps to one of the sets
  NoInst

\* "again": the connection is lost again while the on-connect handler still
\* runs; "inhand": a topic is unsubscribed while one of its messages is on
\* its way from the client's table to the handler, or comes in meanwhile.
MqttFaultKinds == {"again", "inhand"}

ASSUME MqttFaultsAssumption == MqttFaultSets \subseteq SUBSET MqttFaultKinds
ASSUME NoInstAssumption == NoInst \notin Insts

VARIABLES
  online,       \* whether the client has a connection
  broker,       \* the topics the broker has a subscription for
  route,        \* the client's table: per topic, the instance its handler sends to
  subs,         \* c.subscriptions
  closed,       \* instances whose channel was closed
  inHand,       \* the instance whose handler the client is about to run
  lost,         \* whether a connection-lost goroutine has yet to run
  hpc,          \* per on-connect goroutine: where it is
  reconnecting, \* the flag that New's closures share
  mqttFaults    \* the set of this behaviour

clientVars == <<online, broker, route>>
reconnectVars == <<lost, hpc, reconnecting>>
mqttVars == <<online, broker, route, subs, closed, inHand, lost, hpc, reconnecting,
              mqttFaults>>

MqttInit ==
  /\ online = TRUE
  /\ broker = {}
  /\ route = [t \in Topics |-> NoInst]
  /\ subs = [t \in Topics |-> NoInst]
  /\ closed = {}
  /\ inHand = NoInst
  /\ lost = FALSE
  /\ hpc = [h \in Handlers |-> "none"]
  /\ reconnecting = FALSE
  /\ mqttFaults \in MqttFaultSets

Free == {i \in Insts \ {inHand} : \A t \in Topics : i \notin {subs[t], route[t]}}
Subscribed == {t \in Topics : subs[t] # NoInst}
Settled == ~lost /\ \A h \in Handlers : hpc[h] = "none"

-----------------------------------------------------------------------------
(* subscribe and unsubscribe, under c.mu *)

\* The entry is stored, over the one of an earlier call if there is one (its
\* channel stays open); without a connection the client refuses the request.
Subscribe(t, i) ==
  /\ i \in Free
  /\ subs' = [subs EXCEPT ![t] = i]
  /\ closed' = closed \ {i}
  /\ IF online
       THEN broker' = broker \union {t} /\ route' = [route EXCEPT ![t] = i]
       ELSE UNCHANGED <<broker, route>>
  /\ UNCHANGED <<online, inHand, reconnectVars, mqttFaults>>

\* Mutant: the entry stays.
UnsubscribeKeeps(t) ==
  /\ "inhand" \in mqttFaults \/ inHand = NoInst \/ inHand # subs[t]
  /\ closed' = closed \union ({subs[t]} \ {NoInst})
  /\ IF online
       THEN broker' = broker \ {t} /\ route' = [route EXCEPT ![t] = NoInst]
       ELSE UNCHANGED <<broker, route>>
  /\ UNCHANGED <<subs, online, inHand, reconnectVars, mqttFaults>>

\* cancel closes the channel, if there is an entry; it is dropped and the
\* client told. A message that comes in between is sent on the closed channel, like
\* one that came in before: both are what "inhand" stands for.
Unsubscribe(t) ==
  /\ "inhand" \in mqttFaults \/ inHand = NoInst \/ inHand # subs[t]
  /\ closed' = closed \union ({subs[t]} \ {NoInst})
  /\ subs' = [subs EXCEPT ![t] = NoInst]
  /\ IF online
       THEN broker' = broker \ {t} /\ route' = [route EXCEPT ![t] = NoInst]
       ELSE UNCHANGED <<broker, route>>
  /\ UNCHANGED <<online, inHand, reconnectVars, mqttFaults>>

-----------------------------------------------------------------------------
(* Messages *)

\* A message comes in and the client looks its handler up.
Arrive(t) ==
  /\ online
  /\ t \in broker
  /\ inHand = NoInst
  /\ inHand' = route[t]
  /\ UNCHANGED <<clientVars, subs, closed, reconnectVars, mqttFaults>>

\* The handler sends on its instance's channel, or drops the message if the
\* buffer is full; a send on a closed channel panics.
Handle ==
  /\ inHand # NoInst
  /\ inHand' = NoInst
  /\ UNCHANGED <<clientVars, subs, closed, reconnectVars, mqttFaults>>

-----------------------------------------------------------------------------
(* Losing the connection and getting it back *)

Lose ==
  /\ online
  /\ "again" \in mqttFaults \/ Settled
  /\ online' = FALSE
  /\ broker' = {}
  /\ lost' = TRUE
  /\ UNCHANGED <<route, subs, closed, inHand, hpc, reconnecting, mqttFaults>>

\* Mutant: the loss is only logged.
LostHandlerLogs ==
  /\ lost
  /\ lost' = FALSE
  /\ UNCHANGED <<clientVars, subs, closed, inHand, hpc, reconnecting, mqttFaults>>

\* The connection-lost handler.
LostHandler ==
  /\ lost
  /\ lost' = FALSE
  /\ reconnecting' = TRUE
  /\ UNCHANGED <<clientVars, subs, closed, inHand, hpc, mqttFaults>>

\* The client connects again, which takes longer than it takes the
\* connection-lost handler to run, and starts the on-connect handler.
Reconnect(h) ==
  /\ ~online
  /\ ~lost
  /\ hpc[h] = "none"
  /\ online' = TRUE
  /\ hpc' = [hpc EXCEPT ![h] = "check"]
  /\ UNCHANGED <<broker, route, subs, closed, inHand, lost, reconnecting, mqttFaults>>

Check(h) ==
  /\ hpc[h] = "check"
  /\ hpc' = [hpc EXCEPT ![h] = IF reconnecting THEN "resubscribe" ELSE "none"]
  /\ UNCHANGED <<clientVars, subs, closed, inHand, lost, reconnecting, mqttFaults>>

\* Mutant: the broker is told of the topics, the client's table is not.
ResubscribeBroker(h) ==
  /\ hpc[h] = "resubscribe"
  /\ IF online THEN broker' = broker \union Subscribed ELSE UNCHANGED broker
  /\ hpc' = [hpc EXCEPT ![h] = "reset"]
  /\ UNCHANGED <<online, route, subs, closed, inHand, lost, reconnecting, mqttFaults>>

\* resubscribe, under c.mu: every entry is subscribed again.
Resubscribe(h) ==
  /\ hpc[h] = "resubscribe"
  /\ IF online
       THEN /\ broker' = broker \union Subscribed
            /\ route' = [t \in Topics |-> IF t \in Subscribed THEN subs[t] ELSE route[t]]
       ELSE UNCHANGED <<broker, route>>
  /\ hpc' = [hpc EXCEPT ![h] = "reset"]
  /\ UNCHANGED <<online, subs, closed, inHand, lost, reconnecting, mqttFaults>>

Reset(h) ==
  /\ hpc[h] = "reset"
  /\ reconnecting' = FALSE
  /\ hpc' = [hpc EXCEPT ![h] = "none"]
  /\ UNCHANGED <<clientVars, subs, closed, inHand, lost, mqttFaults>>

MqttNext ==
  \/ \E t \in Topics, i \in Insts : Subscribe(t, i)
  \/ \E t \in Topics : Unsubscribe(t) \/ Arrive(t)
  \/ Handle \/ Lose \/ LostHandler
  \/ \E h \in Handlers : Reconnect(h) \/ Check(h) \/ Resubscribe(h) \/ Reset(h)

MqttSpec == MqttInit /\ [][MqttNext]_mqttVars

\* Handlers run and the client keeps trying to connect.
MqttFairness ==
  /\ WF_mqttVars(LostHandler) /\ WF_mqttVars(Handle)
  /\ WF_mqttVars(\E h \in Handlers : Reconnect(h))
  /\ \A h \in Handlers : WF_mqttVars(Check(h)) /\ WF_mqttVars(Resubscribe(h)) /\ WF_mqttVars(Reset(h))

MqttFairSpec == MqttSpec /\ MqttFairness

-----------------------------------------------------------------------------
(* Properties *)

MqttTypeOK ==
  /\ online \in BOOLEAN /\ reconnecting \in BOOLEAN
  /\ broker \subseteq Topics
  /\ route \in [Topics -> Insts \union {NoInst}]
  /\ subs \in [Topics -> Insts \union {NoInst}]
  /\ closed \subseteq Insts
  /\ inHand \in Insts \union {NoInst}
  /\ lost \in BOOLEAN
  /\ hpc \in [Handlers -> {"none", "check", "resubscribe", "reset"}]
  /\ mqttFaults \in MqttFaultSets

\* Once the handlers have run, a connected backend is subscribed to the topics
\* the exchange asked for and no others, each with the channel that the
\* exchange reads (resubscribe in mqtt.go:163-169; "The bridge should call
\* `SubscribeUplink("gateway-id")` to subscribe to this topic", doc.go:18-19).
Restored ==
  online /\ Settled =>
    /\ broker = Subscribed
    /\ \A t \in Subscribed : route[t] = subs[t]

\* So it is unless a connection is lost while the on-connect handler of the one
\* before still runs: that handler's `reconnecting = false` then comes after the
\* `true` of the new loss, and the next one resubscribes nothing (mqtt.go:49-60).
RestoredUnlessLostAgain == "again" \notin mqttFaults => Restored

\* A handler never sends on a channel that was closed (it would panic: what does
\* not fit is logged, "buffer full", mqtt.go:259), unless its topic is
\* unsubscribed between the client's look-up and the handler's send: the
\* channel is closed first and the client told after (mqtt.go:174-178).
HandlesOpen == "inhand" \notin mqttFaults => inHand \notin closed

\* A subscribed topic comes to be subscribed with the broker, or is unsubscribed.
ComesBack ==
  \A t \in Topics :
    "again" \notin mqttFaults /\ subs[t] # NoInst ~> t \in broker \/ subs[t] = NoInst
=============================================================================
