---------------------------- MODULE BackendProofs -----------------------------
(***************************************************************************)
(* MqttSubscriptions, for any number of topics, subscriptions and          *)
(* on-connect goroutines: the MQTT backend sends on no closed channel, and *)
(* is subscribed to what the exchange asked for once the handlers of a new *)
(* connection have run. TtnRouter, for any number of gateways, activations *)
(* and workers: no stream to the router is left open or read after it was  *)
(* closed, and an activation has its downlink.                             *)
(***************************************************************************)
EXTENDS MqttSubscriptions, TtnRouter, TLAPS

-----------------------------------------------------------------------------
(* MQTT: types *)

\* Every step keeps the variables within their types.
LEMMA MqttTypeStep == MqttTypeOK /\ [MqttNext]_mqttVars => MqttTypeOK'
<1> SUFFICES ASSUME MqttTypeOK, [MqttNext]_mqttVars PROVE MqttTypeOK'
  OBVIOUS
<1> USE DEF MqttTypeOK, clientVars, reconnectVars
<1>1. ASSUME NEW t \in Topics, NEW i \in Insts, Subscribe(t, i) PROVE MqttTypeOK'
  BY <1>1 DEF Subscribe, Free
<1>2. ASSUME NEW t \in Topics, Unsubscribe(t) PROVE MqttTypeOK'
  BY <1>2 DEF Unsubscribe
<1>3. ASSUME NEW t \in Topics, Arrive(t) PROVE MqttTypeOK'
  BY <1>3 DEF Arrive
<1>4. CASE Handle \/ LostHandler
  BY <1>4 DEF Handle, LostHandler
<1>5. CASE Lose
  BY <1>5 DEF Lose
<1>6. ASSUME NEW h \in Handlers, Reconnect(h) \/ Check(h) \/ Reset(h) PROVE MqttTypeOK'
  BY <1>6 DEF Reconnect, Check, Reset
<1>7. ASSUME NEW h \in Handlers, Resubscribe(h) PROVE MqttTypeOK'
  BY <1>7 DEF Resubscribe, Subscribed
<1>8. CASE UNCHANGED mqttVars
  BY <1>8 DEF mqttVars
<1> HIDE DEF MqttTypeOK
<1> QED
  BY <1>1, <1>2, <1>3, <1>4, <1>5, <1>6, <1>7, <1>8 DEF MqttNext

\* The subscriptions, the client's table and the handlers are well formed (mqtt.go).
THEOREM MqttTypeCorrect == MqttSpec => []MqttTypeOK
<1>1. MqttInit => MqttTypeOK
  BY DEF MqttInit, MqttTypeOK
<1> QED
  BY <1>1, MqttTypeStep, PTL DEF MqttSpec

\* The set of mqttFaults of a behaviour does not change.
LEMMA MqttFaultsStay == [MqttNext]_mqttVars => mqttFaults' = mqttFaults
BY DEF MqttNext, mqttVars, Subscribe, Unsubscribe, Arrive, Handle, Lose, LostHandler, Reconnect, Check, Resubscribe, Reset

-----------------------------------------------------------------------------
(* HandlesOpen *)

\* What the broker delivers, the client routes to the entry of the topic; the
\* channel of an entry is open and its own.
Routed ==
  /\ MqttTypeOK
  /\ ~online => broker = {}
  /\ \A t \in broker : subs[t] # NoInst /\ route[t] = subs[t]
  /\ \A t \in Topics : subs[t] \notin closed
  /\ \A t, u \in Topics : subs[t] = subs[u] => t = u \/ subs[t] = NoInst

\* Inductive: the message in hand came from such an entry.
OpenInv == Routed /\ HandlesOpen

\* Every step keeps the table of the client right, whatever fails.
LEMMA RoutedStep == Routed /\ [MqttNext]_mqttVars => Routed'
<1> SUFFICES ASSUME Routed, [MqttNext]_mqttVars PROVE Routed'
  OBVIOUS
<1>0. MqttTypeOK'
  BY MqttTypeStep DEF Routed
<1> USE <1>0, NoInstAssumption DEF Routed, MqttTypeOK, clientVars, reconnectVars
<1>1. ASSUME NEW t \in Topics, NEW i \in Insts, Subscribe(t, i) PROVE Routed'
  BY <1>1 DEF Subscribe, Free
<1>2. ASSUME NEW t \in Topics, Unsubscribe(t) PROVE Routed'
  BY <1>2 DEF Unsubscribe
<1>3. ASSUME NEW t \in Topics, Arrive(t) PROVE Routed'
  BY <1>3 DEF Arrive
<1>4. CASE Handle \/ LostHandler
  BY <1>4 DEF Handle, LostHandler
<1>5. CASE Lose
  BY <1>5 DEF Lose
<1>6. ASSUME NEW h \in Handlers, Reconnect(h) \/ Check(h) \/ Reset(h) PROVE Routed'
  BY <1>6 DEF Reconnect, Check, Reset
<1>7. ASSUME NEW h \in Handlers, Resubscribe(h) PROVE Routed'
  BY <1>7 DEF Resubscribe, Subscribed
<1>8. CASE UNCHANGED mqttVars
  BY <1>8 DEF mqttVars
<1> HIDE DEF Routed
<1> QED
  BY <1>1, <1>2, <1>3, <1>4, <1>5, <1>6, <1>7, <1>8 DEF MqttNext

\* Every step keeps the channel of the message in hand open.
LEMMA OpenStep == OpenInv /\ [MqttNext]_mqttVars => OpenInv'
<1> SUFFICES ASSUME OpenInv, [MqttNext]_mqttVars, "inhand" \notin mqttFaults PROVE inHand' \notin closed'
  BY RoutedStep, MqttFaultsStay DEF OpenInv, HandlesOpen
<1> USE NoInstAssumption DEF OpenInv, HandlesOpen, Routed, MqttTypeOK, clientVars
<1>1. ASSUME NEW t \in Topics, NEW i \in Insts, Subscribe(t, i) PROVE inHand' \notin closed'
  BY <1>1 DEF Subscribe
<1>2. ASSUME NEW t \in Topics, Unsubscribe(t) PROVE inHand' \notin closed'
  BY <1>2 DEF Unsubscribe
<1>3. ASSUME NEW t \in Topics, Arrive(t) PROVE inHand' \notin closed'
  BY <1>3 DEF Arrive
<1>4. CASE Handle
  BY <1>4 DEF Handle
<1>5. CASE Lose \/ LostHandler \/ \E h \in Handlers : Reconnect(h) \/ Check(h) \/ Resubscribe(h) \/ Reset(h)
  BY <1>5 DEF Lose, LostHandler, Reconnect, Check, Resubscribe, Reset
<1>6. CASE UNCHANGED mqttVars
  BY <1>6 DEF mqttVars
<1> QED
  BY <1>1, <1>2, <1>3, <1>4, <1>5, <1>6 DEF MqttNext

\* A handler never sends on a closed channel, connections lost at any time
\* included, if no topic is unsubscribed while one of its messages is in the
\* client's hands (mqtt.go:149-179).
THEOREM OpenHandled == MqttSpec => []HandlesOpen
<1>1. MqttInit => OpenInv
  BY NoInstAssumption DEF MqttInit, OpenInv, HandlesOpen, Routed, MqttTypeOK
<1>2. OpenInv => HandlesOpen
  BY DEF OpenInv
<1> QED
  BY <1>1, <1>2, OpenStep, PTL DEF MqttSpec

-----------------------------------------------------------------------------
(* RestoredUnlessLostAgain *)

Busy(h) == hpc[h] # "none"

\* A loss, its connection-lost handler, the new connection and its on-connect
\* handler come one after the other, and the flag is up when it is read.
OneByOne ==
  /\ lost => ~online
  /\ \A h \in Handlers : Busy(h) => online
  /\ \A g, h \in Handlers : Busy(g) /\ Busy(h) => g = h
  /\ ~online /\ ~lost => reconnecting
  /\ \A h \in Handlers : hpc[h] \in {"check", "resubscribe"} => reconnecting

\* Inductive: the backend is subscribed as asked as soon as no handler has yet
\* to see to it.
RestoreInv ==
  /\ Routed
  /\ OneByOne
  /\ online /\ (\A h \in Handlers : hpc[h] \notin {"check", "resubscribe"}) => Subscribed \subseteq broker

\* Unless a connection is lost again, every step keeps to the order and to what
\* is subscribed.
LEMMA RestoreStep ==
  ASSUME "again" \notin mqttFaults
  PROVE  RestoreInv /\ [MqttNext]_mqttVars => RestoreInv'
<1> SUFFICES ASSUME RestoreInv, [MqttNext]_mqttVars PROVE RestoreInv'
  OBVIOUS
<1>0. Routed'
  BY RoutedStep DEF RestoreInv
<1> USE <1>0 DEF RestoreInv, OneByOne, Busy, Subscribed, clientVars, reconnectVars
<1>t. hpc \in [Handlers -> {"none", "check", "resubscribe", "reset"}]
  BY DEF Routed, MqttTypeOK
<1>1. ASSUME NEW t \in Topics, NEW i \in Insts, Subscribe(t, i) PROVE RestoreInv'
  BY <1>1 DEF Subscribe, Routed, MqttTypeOK
<1>2. ASSUME NEW t \in Topics, Unsubscribe(t) PROVE RestoreInv'
  BY <1>2 DEF Unsubscribe, Routed, MqttTypeOK
<1>3. ASSUME (\E t \in Topics : Arrive(t)) \/ Handle PROVE RestoreInv'
  BY <1>3 DEF Arrive, Handle
<1>4. CASE Lose
  BY <1>4 DEF Lose, Settled
<1>5. CASE LostHandler
  BY <1>5 DEF LostHandler
<1>6. ASSUME NEW h \in Handlers, Reconnect(h) PROVE RestoreInv'
  BY <1>6, <1>t DEF Reconnect
<1>7. ASSUME NEW h \in Handlers, Check(h) PROVE RestoreInv'
  BY <1>7, <1>t DEF Check
<1>8. ASSUME NEW h \in Handlers, Resubscribe(h) PROVE RestoreInv'
  BY <1>8, <1>t DEF Resubscribe
<1>9. ASSUME NEW h \in Handlers, Reset(h) PROVE RestoreInv'
  BY <1>9, <1>t DEF Reset
<1>10. CASE UNCHANGED mqttVars
  BY <1>10 DEF mqttVars
<1> HIDE DEF RestoreInv
<1> QED
  BY <1>1, <1>2, <1>3, <1>4, <1>5, <1>6, <1>7, <1>8, <1>9, <1>10 DEF MqttNext

\* Once the handlers have run, the backend is subscribed with the broker and the
\* client to the topics the exchange asked for and to no others, over any number
\* of lost connections, unless one is lost before its handler is through
\* (mqtt.go:48-60, 149-179).
THEOREM SubscriptionsRestored == MqttSpec => []RestoredUnlessLostAgain
<1> DEFINE Good == "again" \notin mqttFaults
<1>1. MqttInit => (Good => RestoreInv)
  BY NoInstAssumption DEF MqttInit, RestoreInv, OneByOne, Busy, Routed, MqttTypeOK, Subscribed
<1>2. (Good => RestoreInv) /\ [MqttNext]_mqttVars => (Good => RestoreInv)'
  BY RestoreStep, MqttFaultsStay
<1>3. (Good => RestoreInv) => RestoredUnlessLostAgain
  <2>1. ASSUME RestoreInv PROVE Restored
    BY <2>1 DEF RestoreInv, Restored, Settled, Subscribed, Routed, MqttTypeOK
  <2> QED
    BY <2>1 DEF RestoredUnlessLostAgain
<1> HIDE DEF Good
<1> QED
  BY <1>1, <1>2, <1>3, PTL DEF MqttSpec

-----------------------------------------------------------------------------
(* TTN router (Spec, Next, Init and TypeOK are those of TtnRouter): types *)

\* What SubscribeDownlink has in hand, and every gatewayConn that somebody refers
\* to, has its streams.
ConnInv ==
  /\ \A a \in Acts : apc[a] \in {"downlink", "replace", "close", "again"} => aconn[a] \in Conns
  /\ \A c \in ConnsInUse \ {None} : stream[c] \in Streams
  /\ \A a \in Acts : apc[a] # "out" => agw[a] \in Gateways
RouterInv == TypeOK /\ ConnInv

\* Making streams leaves those alone that somebody refers to.
LEMMA MakeStreamsEffect ==
  ASSUME TypeOK, NEW c \in Conns, NEW d \in BOOLEAN, MakeStreams(c, d)
  PROVE  /\ stream' \in [Conns -> Streams \union {None}] /\ open' \subseteq Streams /\ down' \subseteq Streams
         /\ stream'[c] \in FreeStreams /\ stream'[c] \in Streams
         /\ \A e \in Conns \ {c} : stream'[e] = stream[e]
         /\ open' = open \union {stream'[c]}
         /\ down' \ {stream'[c]} = down \ {stream'[c]}
         /\ d <=> stream'[c] \in down'
<1> DEFINE s == NewStreams
<1>1. s \in FreeStreams /\ FreeStreams \subseteq Streams
  BY DEF MakeStreams, NewStreams, FreeStreams
<1>2. stream' = [stream EXCEPT ![c] = s] /\ open' = open \union {s}
      /\ down' = IF d THEN down \union {s} ELSE down \ {s}
  BY DEF MakeStreams
<1> HIDE DEF s
<1>3. stream' \in [Conns -> Streams \union {None}] /\ stream'[c] = s
      /\ \A e \in Conns \ {c} : stream'[e] = stream[e]
  BY <1>1, <1>2 DEF TypeOK
<1>4. down' \subseteq Streams /\ down' \ {s} = down \ {s} /\ (d <=> s \in down')
  BY <1>1, <1>2 DEF TypeOK
<1> QED BY <1>1, <1>2, <1>3, <1>4 DEF TypeOK

\* The gatewayConn that getGateway returns, and what else there is.
LEMMA GetGatewayEffect ==
  ASSUME RouterInv, NEW g \in Gateways, NEW c \in Conns, NEW d \in BOOLEAN, GetGateway(g, c, d)
  PROVE  /\ entry' \in [Gateways -> Conns \union {None}] /\ stream' \in [Conns -> Streams \union {None}]
         /\ open' \subseteq Streams /\ down' \subseteq Streams
         /\ entry'[g] = c /\ stream'[c] \in Streams
         /\ \A h \in Gateways \ {g} : entry'[h] = entry[h]
         /\ \/ entry[g] = c /\ UNCHANGED <<entry, stream, open, down>>
            \/ /\ entry[g] = None /\ c \in FreeConns /\ MakeStreams(c, d)
               /\ \A e \in Conns \ {c} : stream'[e] = stream[e]
<1>1. CASE entry[g] # None /\ c = entry[g] /\ UNCHANGED <<entry, stream, open, down>>
  <2>1. c \in ConnsInUse \ {None}
    BY <1>1, RouterNoneAssumption DEF ConnsInUse
  <2> QED BY <1>1, <2>1 DEF RouterInv, TypeOK, ConnInv
<1>2. CASE /\ entry[g] = None /\ FreeConns # {} /\ c = NewConn
           /\ MakeStreams(c, d)
           /\ entry' = [entry EXCEPT ![g] = c]
  <2>1. c \in FreeConns
    BY <1>2 DEF NewConn
  <2>2. entry' \in [Gateways -> Conns \union {None}] /\ entry'[g] = c
        /\ \A h \in Gateways \ {g} : entry'[h] = entry[h]
    BY <1>2 DEF RouterInv, TypeOK
  <2> QED BY <1>2, <2>1, <2>2, MakeStreamsEffect DEF RouterInv
<1> QED BY <1>1, <1>2 DEF GetGateway

\* Streams of a gatewayConn in use stay while another is made, and conversely.
LEMMA StillInUse ==
  ASSUME RouterInv, NEW g \in Gateways, NEW c \in Conns, NEW d \in BOOLEAN, GetGateway(g, c, d)
  PROVE  /\ \A e \in ConnsInUse \ {None} : stream'[e] = stream[e] /\ stream[e] \in Streams
         /\ \A a \in Acts : aold[a] # None /\ apc[a] = "close" => aold[a] # stream'[aconn[a]]
<1>1. \A e \in ConnsInUse \ {None} : stream'[e] = stream[e] /\ stream[e] \in Streams
  <2>1. ConnsInUse \ {None} \subseteq Conns
    BY DEF RouterInv, TypeOK, ConnsInUse
  <2> QED BY <2>1, GetGatewayEffect DEF RouterInv, ConnInv, FreeConns
<1>2. \A a \in Acts : apc[a] = "close" => aconn[a] \in ConnsInUse \ {None}
  BY RouterNoneAssumption DEF RouterInv, ConnInv, ConnsInUse
<1> QED BY <1>1, <1>2 DEF RouterInv, TypeOK

\* Every step keeps types and what is in hand.
LEMMA RouterStep == RouterInv /\ [Next]_vars => RouterInv'
<1> SUFFICES ASSUME RouterInv, [Next]_vars PROVE RouterInv'
  OBVIOUS
<1>t. TypeOK /\ ConnInv
  BY DEF RouterInv
<1> USE DEF actVars
<1>1. ASSUME NEW w \in Workers, NEW g \in Gateways, NEW c \in Conns, Publish(w, g, c) PROVE RouterInv'
  <2>1. GetGateway(g, c, FALSE) /\ wconn' = [wconn EXCEPT ![w] = c] /\ UNCHANGED <<actVars, faults>>
    BY <1>1 DEF Publish
  <2>2. TypeOK'
    <3>1. wconn' \in [Workers -> Conns \union {None}]
      BY <1>t, <2>1 DEF TypeOK
    <3>2. \A a \in Acts : apc[a] = "close" => aold[a] \notin {None, stream'[aconn[a]]}
      BY <1>t, <2>1, StillInUse DEF TypeOK
    <3> QED BY <1>t, <2>1, <3>1, <3>2, GetGatewayEffect DEF TypeOK
  <2>3. ConnsInUse' \subseteq ConnsInUse \union {c}
    <3>1. \A h \in Gateways : entry'[h] = c \/ entry'[h] = entry[h]
      BY <2>1, GetGatewayEffect
    <3>2. \A v \in Workers : wconn'[v] = c \/ wconn'[v] = wconn[v]
      BY <1>t, <2>1 DEF TypeOK
    <3> QED BY <2>1, <3>1, <3>2 DEF ConnsInUse
  <2>4. \A e \in ConnsInUse' \ {None} : stream'[e] \in Streams
    BY <2>1, <2>3, StillInUse, GetGatewayEffect
  <2>5. ConnInv'
    BY <1>t, <2>1, <2>4 DEF ConnInv
  <2> QED BY <2>2, <2>5 DEF RouterInv
<1>2. ASSUME NEW a \in Acts, NEW g \in Gateways, NEW c \in Conns, SubscribeDownlink(a, g, c) PROVE RouterInv'
  <2>1. /\ GetGateway(g, c, TRUE) /\ apc' = [apc EXCEPT ![a] = "downlink"]
        /\ agw' = [agw EXCEPT ![a] = g] /\ aconn' = [aconn EXCEPT ![a] = c]
        /\ UNCHANGED <<aold, reads, wconn, faults>>
    BY <1>2 DEF SubscribeDownlink, Step
  <2>2. TypeOK'
    <3>1. /\ apc' \in [Acts -> {"out", "downlink", "replace", "close", "again", "run", "unsubscribe"}]
          /\ agw' \in [Acts -> Gateways \union {None}]
          /\ aconn' \in [Acts -> Conns \union {None}]
      BY <1>t, <2>1 DEF TypeOK
    <3>2. \A b \in Acts : apc'[b] = "close" => aold[b] \notin {None, stream'[aconn'[b]]}
      <4> SUFFICES ASSUME NEW b \in Acts, apc'[b] = "close" PROVE aold[b] \notin {None, stream'[aconn'[b]]}
        OBVIOUS
      <4>1. b # a /\ apc[b] = "close" /\ aconn'[b] = aconn[b]
        BY <1>t, <2>1 DEF TypeOK
      <4> QED BY <1>t, <2>1, <4>1, StillInUse DEF TypeOK
    <3> QED BY <1>t, <2>1, <3>1, <3>2, GetGatewayEffect DEF TypeOK
  <2>3. ConnsInUse' \subseteq ConnsInUse \union {c}
    <3>1. \A h \in Gateways : entry'[h] = c \/ entry'[h] = entry[h]
      BY <2>1, GetGatewayEffect
    <3>2. \A b \in Acts : aconn'[b] = c \/ aconn'[b] = aconn[b]
      BY <1>t, <2>1 DEF TypeOK
    <3> QED BY <2>1, <3>1, <3>2 DEF ConnsInUse
  <2>4. \A e \in ConnsInUse' \ {None} : stream'[e] \in Streams
    BY <2>1, <2>3, StillInUse, GetGatewayEffect
  <2>5. /\ \A b \in Acts : apc'[b] \in {"downlink", "replace", "close", "again"} => aconn'[b] \in Conns
        /\ \A b \in Acts : apc'[b] # "out" => agw'[b] \in Gateways
    BY <1>t, <2>1 DEF ConnInv, TypeOK
  <2>6. ConnInv'
    BY <2>4, <2>5 DEF ConnInv
  <2> QED BY <2>2, <2>6 DEF RouterInv
<1>3. ASSUME UNCHANGED <<entry, stream, agw>>,
             TypeOK',
             \A a \in Acts : aconn'[a] \in {aconn[a], None},
             \A w \in Workers : wconn'[w] \in {wconn[w], None},
             \A a \in Acts : apc'[a] \in {"downlink", "replace", "close", "again"} =>
                               apc[a] \in {"downlink", "replace", "close", "again"} /\ aconn'[a] = aconn[a],
             \A a \in Acts : apc'[a] # "out" => apc[a] # "out"
      PROVE  RouterInv'
  <2>1. ConnsInUse' \subseteq ConnsInUse \union {None}
    BY <1>3 DEF ConnsInUse
  <2>2. ConnInv'
    BY <1>t, <1>3, <2>1 DEF ConnInv
  <2> QED BY <1>3, <2>2 DEF RouterInv
<1>4. ASSUME NEW w \in Workers, Sent(w) PROVE RouterInv'
  <2>1. TypeOK' /\ \A v \in Workers : wconn'[v] \in {wconn[v], None}
    BY <1>t, <1>4 DEF Sent, TypeOK
  <2> QED BY <1>3, <1>4, <2>1 DEF Sent
<1>5. ASSUME NEW a \in Acts, Downlink(a) PROVE RouterInv'
  <2>1. /\ apc[a] \in {"downlink", "again"} /\ UNCHANGED <<entry, stream, open, down, agw, aold, wconn, faults>>
        /\ \/ /\ apc' = [apc EXCEPT ![a] = "run"]
              /\ aconn' = [aconn EXCEPT ![a] = None]
              /\ reads' = [reads EXCEPT ![a] = IF stream[aconn[a]] \in down THEN stream[aconn[a]] ELSE reads[a]]
           \/ apc' = [apc EXCEPT ![a] = "replace"] /\ UNCHANGED <<reads, aconn>>
    BY <1>5 DEF Downlink, Step
  <2>2. \A b \in Acts \ {a} : apc'[b] = apc[b] /\ aconn'[b] = aconn[b]
    BY <1>t, <2>1 DEF TypeOK
  <2>3. \/ apc'[a] = "run" /\ aconn'[a] = None
        \/ apc'[a] = "replace" /\ aconn'[a] = aconn[a]
    BY <1>t, <2>1 DEF TypeOK
  <2>4. TypeOK'
    <3>1. reads' \in [Acts -> Streams \union {None}]
      BY <1>t, <2>1 DEF TypeOK
    <3>2. /\ apc' \in [Acts -> {"out", "downlink", "replace", "close", "again", "run", "unsubscribe"}]
          /\ aconn' \in [Acts -> Conns \union {None}]
      BY <1>t, <2>1 DEF TypeOK
    <3>3. \A b \in Acts : apc'[b] = "close" => b # a /\ aold'[b] \notin {None, stream'[aconn'[b]]}
      BY <1>t, <2>1, <2>2, <2>3 DEF TypeOK
    <3> QED BY <1>t, <2>1, <3>1, <3>2, <3>3 DEF TypeOK
  <2> QED BY <1>3, <2>1, <2>2, <2>3, <2>4
<1>6. ASSUME NEW a \in Acts, Replace(a) PROVE RouterInv'
  <2> DEFINE c == aconn[a]
  <2>1. /\ apc[a] = "replace" /\ aold' = [aold EXCEPT ![a] = stream[c]]
        /\ MakeStreams(c, TRUE) /\ apc' = [apc EXCEPT ![a] = "close"]
        /\ UNCHANGED <<entry, agw, aconn, reads, wconn, faults>>
    BY <1>6 DEF Replace, Step
  <2>2. c \in Conns /\ c \in ConnsInUse \ {None} /\ stream[c] \in Streams
    BY <1>t, <2>1, RouterNoneAssumption DEF ConnInv, ConnsInUse
  <2>3. /\ stream' \in [Conns -> Streams \union {None}] /\ open' \subseteq Streams /\ down' \subseteq Streams
        /\ stream'[c] \in FreeStreams /\ stream'[c] \in Streams
        /\ \A e \in Conns \ {c} : stream'[e] = stream[e]
    BY <1>t, <2>1, <2>2, MakeStreamsEffect
  <2>4. stream'[c] # stream[c] /\ \A b \in Acts : stream'[c] # aold[b]
    BY <2>2, <2>3 DEF FreeStreams
  <2>5. \A b \in Acts : apc'[b] = "close" => aold'[b] \notin {None, stream'[aconn'[b]]}
    <3> SUFFICES ASSUME NEW b \in Acts, apc'[b] = "close" PROVE aold'[b] \notin {None, stream'[aconn[b]]}
      BY <2>1
    <3>1. CASE b = a
      BY <1>t, <2>1, <2>2, <2>4, <3>1, RouterNoneAssumption DEF TypeOK
    <3>2. CASE b # a
      <4>1. apc[b] = "close" /\ aold'[b] = aold[b] /\ aold[b] \notin {None, stream[aconn[b]]} /\ aconn[b] \in Conns
        BY <1>t, <2>1, <3>2 DEF TypeOK, ConnInv
      <4> QED BY <2>3, <2>4, <4>1
    <3> QED BY <3>1, <3>2
  <2>6. TypeOK'
    <3>1. aold' \in [Acts -> Streams \union {None}]
          /\ apc' \in [Acts -> {"out", "downlink", "replace", "close", "again", "run", "unsubscribe"}]
      BY <1>t, <2>1, <2>2 DEF TypeOK
    <3> QED BY <1>t, <2>1, <2>3, <2>5, <3>1 DEF TypeOK
  <2>7. ConnsInUse' = ConnsInUse
    BY <2>1 DEF ConnsInUse
  <2>8. ConnsInUse \ {None} \subseteq Conns
    BY <1>t DEF ConnsInUse, TypeOK
  <2>9. ConnInv'
    <3>1. \A e \in ConnsInUse \ {None} : stream'[e] \in Streams
      BY <1>t, <2>3, <2>8 DEF ConnInv
    <3>2. \A b \in Acts : apc'[b] = apc[b] \/ (b = a /\ apc'[b] = "close")
      BY <1>t, <2>1 DEF TypeOK
    <3> QED BY <1>t, <2>1, <2>2, <2>7, <3>1, <3>2 DEF ConnInv
  <2> QED BY <2>6, <2>9 DEF RouterInv
<1>7. ASSUME NEW a \in Acts, CloseOld(a) \/ ForwardEnds(a) \/ Leave(a) PROVE RouterInv'
  <2>1. /\ UNCHANGED <<entry, stream, down, agw, aconn, wconn, faults>>
        /\ open' \subseteq open /\ aold' \in [Acts -> Streams \union {None}]
        /\ reads' \in [Acts -> Streams \union {None}]
        /\ \/ apc' = apc /\ aold' = aold
           \/ apc[a] = "run" /\ apc' = [apc EXCEPT ![a] = "unsubscribe"] /\ aold' = aold
           \/ apc[a] = "close" /\ apc' = [apc EXCEPT ![a] = "again"] /\ aold' = [aold EXCEPT ![a] = None]
    BY <1>t, <1>7 DEF CloseOld, ForwardEnds, Leave, Step, TypeOK
  <2>2. \A b \in Acts \ {a} : apc'[b] = apc[b] /\ aold'[b] = aold[b]
    BY <1>t, <2>1 DEF TypeOK
  <2>3. \/ apc'[a] = apc[a] /\ aold'[a] = aold[a]
        \/ apc[a] = "run" /\ apc'[a] = "unsubscribe"
        \/ apc[a] = "close" /\ apc'[a] = "again"
    BY <1>t, <2>1 DEF TypeOK
  <2>4. TypeOK'
    <3>1. apc' \in [Acts -> {"out", "downlink", "replace", "close", "again", "run", "unsubscribe"}]
      BY <1>t, <2>1 DEF TypeOK
    <3>2. \A b \in Acts : apc'[b] = "close" => aold'[b] \notin {None, stream'[aconn'[b]]}
      BY <1>t, <2>1, <2>2, <2>3 DEF TypeOK
    <3> QED BY <1>t, <2>1, <3>1, <3>2 DEF TypeOK
  <2> QED BY <1>3, <2>1, <2>2, <2>3, <2>4
<1>8. ASSUME NEW a \in Acts, CleanupGateway(a) PROVE RouterInv'
  <2>1. /\ apc[a] = "unsubscribe" /\ apc' = [apc EXCEPT ![a] = "out"] /\ agw' = [agw EXCEPT ![a] = None]
        /\ open' \subseteq open /\ UNCHANGED <<stream, down, aconn, aold, reads, wconn, faults>>
        /\ entry' \in [Gateways -> Conns \union {None}]
        /\ \A g \in Gateways : entry'[g] \in {entry[g], None}
    BY <1>t, <1>8 DEF CleanupGateway, Step, TypeOK
  <2>2. /\ \A b \in Acts \ {a} : apc'[b] = apc[b] /\ agw'[b] = agw[b]
        /\ apc'[a] = "out"
    BY <1>t, <2>1 DEF TypeOK
  <2>3. TypeOK'
    <3>1. /\ apc' \in [Acts -> {"out", "downlink", "replace", "close", "again", "run", "unsubscribe"}]
          /\ agw' \in [Acts -> Gateways \union {None}]
      BY <1>t, <2>1 DEF TypeOK
    <3>2. \A b \in Acts : apc'[b] = "close" => aold'[b] \notin {None, stream'[aconn'[b]]}
      BY <1>t, <2>1, <2>2 DEF TypeOK
    <3> QED BY <1>t, <2>1, <3>1, <3>2 DEF TypeOK
  <2>4. ConnsInUse' \subseteq ConnsInUse \union {None}
    BY <2>1 DEF ConnsInUse
  <2>5. ConnInv'
    BY <1>t, <2>1, <2>2, <2>4 DEF ConnInv
  <2> QED BY <2>3, <2>5 DEF RouterInv
<1>9. CASE UNCHANGED vars
  <2>1. TypeOK'
    BY <1>t, <1>9 DEF vars, TypeOK
  <2> QED BY <1>3, <1>9, <2>1 DEF vars
<1> QED
  BY <1>1, <1>2, <1>4, <1>5, <1>6, <1>7, <1>8, <1>9 DEF Next

\* Nothing is there at the start.
LEMMA RouterInit == Init => RouterInv
<1> SUFFICES ASSUME Init PROVE RouterInv
  OBVIOUS
<1>1. TypeOK
  BY DEF Init, TypeOK
<1>2. ConnsInUse \subseteq {None}
  BY DEF Init, ConnsInUse
<1>3. \A a \in Acts : apc[a] = "out"
  BY DEF Init
<1> QED BY <1>1, <1>2, <1>3 DEF RouterInv, ConnInv

\* The router's map, streams and activations stay well formed; SubscribeDownlink
\* never has in hand to close the streams that it leaves its gatewayConn with
\* (router.go:155-158), overlapping activations included.
THEOREM RouterTypeCorrect == Spec => []TypeOK
<1>1. RouterInv => TypeOK
  BY DEF RouterInv
<1> QED
  BY <1>1, RouterInit, RouterStep, PTL DEF Spec

-----------------------------------------------------------------------------
(* Owners of streams *)

\* The gatewayConns of the map are there once, with open streams of their own that
\* nobody is about to close.
OwnInv ==
  \A g \in Gateways : entry[g] # None =>
    /\ stream[entry[g]] \in open
    /\ \A h \in Gateways : h # g /\ entry[h] # None =>
         entry[h] # entry[g] /\ stream[entry[h]] # stream[entry[g]]
    /\ \A a \in Acts : aold[a] # stream[entry[g]]

\* A gateway has one activation, which works on the gatewayConn in the map until it
\* drops it: with streams made with downlink once it got that far.
ServeInv ==
  \A a \in Acts :
    /\ apc[a] = "out" => agw[a] = None
    /\ apc[a] # "close" => aold[a] = None
    /\ \A b \in Acts : a # b /\ apc[a] # "out" => agw[b] # agw[a]
    /\ apc[a] \in {"downlink", "replace", "close", "again"} => entry[agw[a]] = aconn[a]
    /\ apc[a] \in {"close", "again"} => stream[aconn[a]] \in down
    /\ apc[a] = "run" => /\ entry[agw[a]] # None
                         /\ stream[entry[agw[a]]] \in down /\ reads[a] = stream[entry[agw[a]]]

\* What is proved of behaviours in which activations do not overlap.
SingleInv == "overlap" \notin faults => OwnInv /\ ServeInv /\ StreamsAccounted

\* New streams for the gatewayConn that is, or comes to be, in the map.
LEMMA FreshStreams ==
  ASSUME RouterInv, NEW c \in Conns, NEW d \in BOOLEAN, MakeStreams(c, d)
  PROVE  /\ stream'[c] \notin open /\ (\A a \in Acts : stream'[c] # aold[a])
         /\ \A e \in ConnsInUse \ {None} : stream'[c] # stream[e]
BY MakeStreamsEffect DEF RouterInv, FreeStreams

\* getGateway keeps what is in the map, and adds to it what is the new one's.
LEMMA GetGatewayOwns ==
  ASSUME RouterInv, OwnInv, NEW g \in Gateways, NEW c \in Conns, NEW d \in BOOLEAN, GetGateway(g, c, d),
         UNCHANGED aold
  PROVE  /\ OwnInv'
         /\ open \subseteq open' /\ open' \subseteq open \union {stream'[entry'[g]]}
         /\ \A h \in Gateways : entry[h] # None =>
              /\ entry'[h] = entry[h] /\ stream'[entry[h]] = stream[entry[h]]
              /\ stream[entry[h]] \in down' <=> stream[entry[h]] \in down
<1>1. CASE UNCHANGED <<entry, stream, open, down>>
  BY <1>1 DEF OwnInv
<1>2. CASE entry[g] = None /\ c \in FreeConns /\ MakeStreams(c, d) /\ entry'[g] = c
  <2>1. \A h \in Gateways \ {g} : entry'[h] = entry[h]
    BY GetGatewayEffect
  <2>2. /\ stream'[c] \notin open /\ (\A a \in Acts : stream'[c] # aold[a])
        /\ \A e \in ConnsInUse \ {None} : stream'[c] # stream[e]
    BY <1>2, FreshStreams
  <2>3. /\ \A e \in Conns \ {c} : stream'[e] = stream[e]
        /\ open' = open \union {stream'[c]} /\ down' \ {stream'[c]} = down \ {stream'[c]}
    BY <1>2, MakeStreamsEffect DEF RouterInv
  <2>4. \A h \in Gateways : entry[h] # None => entry[h] \in Conns /\ entry[h] # c /\ entry[h] \in ConnsInUse \ {None}
    BY <1>2 DEF RouterInv, TypeOK, FreeConns, ConnsInUse
  <2>5. \A h \in Gateways : entry[h] # None =>
          /\ h # g /\ entry'[h] = entry[h] /\ stream'[entry[h]] = stream[entry[h]]
          /\ stream'[c] # stream[entry[h]]
    BY <1>2, <2>1, <2>2, <2>3, <2>4
  <2>6. OwnInv'
    <3> SUFFICES ASSUME NEW h \in Gateways, entry'[h] # None
                 PROVE  /\ stream'[entry'[h]] \in open'
                        /\ \A i \in Gateways : i # h /\ entry'[i] # None =>
                             entry'[i] # entry'[h] /\ stream'[entry'[i]] # stream'[entry'[h]]
                        /\ \A a \in Acts : aold[a] # stream'[entry'[h]]
      BY DEF OwnInv
    <3>1. CASE h = g
      BY <1>2, <2>1, <2>2, <2>3, <2>4, <2>5, <3>1
    <3>2. CASE h # g
      <4>1. entry'[h] = entry[h] /\ entry[h] # None /\ stream'[entry[h]] = stream[entry[h]]
        BY <2>1, <2>5, <3>2
      <4>2. ASSUME NEW i \in Gateways, i # h, entry'[i] # None
            PROVE  entry'[i] # entry'[h] /\ stream'[entry'[i]] # stream'[entry'[h]]
        <5>1. CASE i = g
          BY <1>2, <2>4, <2>5, <4>1, <5>1
        <5>2. CASE i # g
          BY <2>1, <2>5, <4>1, <4>2, <5>2 DEF OwnInv
        <5> QED BY <5>1, <5>2
      <4> QED BY <2>3, <4>1, <4>2 DEF OwnInv
    <3> QED BY <3>1, <3>2
  <2>7. \A h \in Gateways : entry[h] # None => (stream[entry[h]] \in down' <=> stream[entry[h]] \in down)
    BY <2>3, <2>5
  <2> QED BY <1>2, <2>3, <2>5, <2>6, <2>7
<1> QED BY <1>1, <1>2, GetGatewayEffect

\* Every step of such a behaviour keeps that.
LEMMA SingleStep == RouterInv /\ SingleInv /\ [Next]_vars => SingleInv'
<1> SUFFICES ASSUME RouterInv, SingleInv, [Next]_vars, "overlap" \notin faults'
             PROVE  (OwnInv /\ ServeInv /\ StreamsAccounted)'
  BY DEF SingleInv
<1>t. TypeOK /\ ConnInv /\ faults' = faults
  <2>1. faults' = faults
    BY DEF Next, Publish, Sent, SubscribeDownlink, Downlink, Replace, CloseOld, ForwardEnds, Leave, CleanupGateway, vars
  <2> QED BY <2>1 DEF RouterInv
<1>i. OwnInv /\ ServeInv /\ StreamsAccounted
  BY <1>t DEF SingleInv
<1>e. open \subseteq {stream[e] : e \in {entry[g] : g \in Gateways} \ {None}} \union {aold[a] : a \in Acts}
  BY <1>i, <1>t DEF StreamsAccounted
<1> USE DEF actVars
\* What is accounted for, by its owner.
<1>o. ASSUME \A s \in open' : \/ \E g \in Gateways : entry'[g] # None /\ s = stream'[entry'[g]]
                              \/ \E a \in Acts : s = aold'[a]
      PROVE  StreamsAccounted'
  BY <1>o DEF StreamsAccounted
<1>p. \A s \in open : \/ \E g \in Gateways : entry[g] # None /\ s = stream[entry[g]]
                      \/ \E a \in Acts : s = aold[a]
  BY <1>e
<1>g. ASSUME NEW g \in Gateways, NEW c \in Conns, NEW d \in BOOLEAN, GetGateway(g, c, d), UNCHANGED aold
      PROVE  /\ OwnInv' /\ StreamsAccounted'
             /\ entry'[g] = c
             /\ \A h \in Gateways : entry[h] # None =>
                  /\ entry'[h] = entry[h] /\ stream'[entry[h]] = stream[entry[h]]
                  /\ stream[entry[h]] \in down' <=> stream[entry[h]] \in down
  <2>1. /\ OwnInv'
        /\ open' \subseteq open \union {stream'[entry'[g]]}
        /\ \A h \in Gateways : entry[h] # None =>
             /\ entry'[h] = entry[h] /\ stream'[entry[h]] = stream[entry[h]]
             /\ stream[entry[h]] \in down' <=> stream[entry[h]] \in down
    BY <1>i, <1>g, GetGatewayOwns
  <2>2. entry'[g] = c /\ c # None
    BY <1>g, GetGatewayEffect, RouterNoneAssumption
  <2>3. StreamsAccounted'
    <3>1. ASSUME NEW s \in open'
          PROVE  \/ \E h \in Gateways : entry'[h] # None /\ s = stream'[entry'[h]]
                 \/ \E a \in Acts : s = aold'[a]
      <4>1. CASE s = stream'[entry'[g]]
        BY <2>2, <4>1
      <4>2. CASE s \in open
        BY <1>p, <1>g, <2>1, <4>2
      <4> QED BY <2>1, <3>1, <4>1, <4>2
    <3> QED BY <1>o, <3>1
  <2> QED BY <2>1, <2>2, <2>3
<1>1. ASSUME NEW w \in Workers, NEW g \in Gateways, NEW c \in Conns, Publish(w, g, c)
      PROVE  (OwnInv /\ ServeInv /\ StreamsAccounted)'
  <2>1. GetGateway(g, c, FALSE) /\ UNCHANGED <<apc, agw, aconn, aold, reads>>
    BY <1>1 DEF Publish
  <2>2. /\ OwnInv' /\ StreamsAccounted'
        /\ \A h \in Gateways : entry[h] # None =>
             /\ entry'[h] = entry[h] /\ stream'[entry[h]] = stream[entry[h]]
             /\ stream[entry[h]] \in down' <=> stream[entry[h]] \in down
    BY <1>g, <2>1
  <2>3. ServeInv'
    BY <1>t, <1>i, <2>1, <2>2, RouterNoneAssumption DEF ServeInv, ConnInv
  <2> QED BY <2>2, <2>3
<1>2. ASSUME NEW a \in Acts, NEW g \in Gateways, NEW c \in Conns, SubscribeDownlink(a, g, c)
      PROVE  (OwnInv /\ ServeInv /\ StreamsAccounted)'
  <2>1. /\ GetGateway(g, c, TRUE) /\ apc[a] = "out" /\ apc' = [apc EXCEPT ![a] = "downlink"]
        /\ agw' = [agw EXCEPT ![a] = g] /\ aconn' = [aconn EXCEPT ![a] = c]
        /\ (\A b \in Acts : agw[b] # g)
        /\ UNCHANGED <<aold, reads, wconn, faults>>
    BY <1>t, <1>2 DEF SubscribeDownlink, Step
  <2>2. /\ OwnInv' /\ StreamsAccounted' /\ entry'[g] = c
        /\ \A h \in Gateways : entry[h] # None =>
             /\ entry'[h] = entry[h] /\ stream'[entry[h]] = stream[entry[h]]
             /\ stream[entry[h]] \in down' <=> stream[entry[h]] \in down
    BY <1>g, <2>1
  <2>3. /\ apc'[a] = "downlink" /\ agw'[a] = g /\ aconn'[a] = c
        /\ \A b \in Acts \ {a} : apc'[b] = apc[b] /\ agw'[b] = agw[b] /\ aconn'[b] = aconn[b]
    BY <1>t, <2>1 DEF TypeOK
  <2>4. \A b \in Acts : apc[b] # "out" => agw[b] \in Gateways
    BY <1>t DEF ConnInv
  <2>5. \A b \in Acts : apc[b] \in {"downlink", "replace", "close", "again"} => entry[agw[b]] # None
    BY <1>t, <1>i, RouterNoneAssumption DEF ServeInv, ConnInv
  <2>6. ServeInv'
    <3> SUFFICES ASSUME NEW b \in Acts
                 PROVE  /\ apc'[b] = "out" => agw'[b] = None
                        /\ apc'[b] # "close" => aold'[b] = None
                        /\ \A e \in Acts : b # e /\ apc'[b] # "out" => agw'[e] # agw'[b]
                        /\ apc'[b] \in {"downlink", "replace", "close", "again"} => entry'[agw'[b]] = aconn'[b]
                        /\ apc'[b] \in {"close", "again"} => stream'[aconn'[b]] \in down'
                        /\ apc'[b] = "run" => /\ entry'[agw'[b]] # None
                                              /\ stream'[entry'[agw'[b]]] \in down'
                                              /\ reads'[b] = stream'[entry'[agw'[b]]]
      BY DEF ServeInv
    <3>1. CASE b = a
      <4>1. aold'[a] = None
        BY <1>i, <2>1 DEF ServeInv
      <4> QED BY <2>1, <2>2, <2>3, <3>1, <4>1
    <3>2. CASE b # a
      <4>1. /\ apc[b] = "out" => agw[b] = None
            /\ apc[b] # "close" => aold[b] = None
            /\ \A e \in Acts : b # e /\ apc[b] # "out" => agw[e] # agw[b]
            /\ apc[b] \in {"downlink", "replace", "close", "again"} => entry[agw[b]] = aconn[b]
            /\ apc[b] \in {"close", "again"} => stream[aconn[b]] \in down
            /\ apc[b] = "run" => /\ entry[agw[b]] # None
                                 /\ stream[entry[agw[b]]] \in down /\ reads[b] = stream[entry[agw[b]]]
        BY <1>i DEF ServeInv
      <4>2. \A e \in Acts : b # e /\ apc'[b] # "out" => agw'[e] # agw'[b]
        BY <2>1, <2>3, <3>2, <4>1
      <4> QED BY <2>1, <2>2, <2>3, <2>4, <2>5, <3>2, <4>1, <4>2
    <3> QED BY <3>1, <3>2
  <2> QED BY <2>2, <2>6
<1>3. ASSUME NEW w \in Workers, Sent(w) PROVE (OwnInv /\ ServeInv /\ StreamsAccounted)'
  BY <1>3, <1>i DEF Sent, OwnInv, ServeInv, StreamsAccounted
<1>4. ASSUME NEW a \in Acts, Downlink(a) PROVE (OwnInv /\ ServeInv /\ StreamsAccounted)'
  <2>1. /\ apc[a] \in {"downlink", "again"} /\ UNCHANGED <<entry, stream, open, down, agw, aold, wconn, faults>>
        /\ \/ /\ apc' = [apc EXCEPT ![a] = "run"] /\ aconn' = [aconn EXCEPT ![a] = None]
              /\ stream[aconn[a]] \in down
              /\ reads' = [reads EXCEPT ![a] = stream[aconn[a]]]
           \/ apc' = [apc EXCEPT ![a] = "replace"] /\ UNCHANGED <<reads, aconn>>
    BY <1>4, <1>i DEF Downlink, Step, ServeInv
  <2>2. OwnInv' /\ StreamsAccounted'
    BY <1>i, <2>1 DEF OwnInv, StreamsAccounted
  <2>3. \A b \in Acts \ {a} : apc'[b] = apc[b] /\ aconn'[b] = aconn[b] /\ reads'[b] = reads[b]
    BY <1>t, <2>1 DEF TypeOK
  <2>4. \/ apc'[a] = "run" /\ stream[aconn[a]] \in down /\ reads'[a] = stream[aconn[a]]
        \/ apc'[a] = "replace" /\ aconn'[a] = aconn[a]
    BY <1>t, <2>1 DEF TypeOK
  <2>5. entry[agw[a]] = aconn[a] /\ aconn[a] # None /\ apc[a] # "out"
    BY <1>t, <1>i, <2>1, RouterNoneAssumption DEF ServeInv, ConnInv
  <2>6. ServeInv'
    BY <1>i, <2>1, <2>3, <2>4, <2>5 DEF ServeInv
  <2> QED BY <2>2, <2>6
<1>5. ASSUME NEW a \in Acts, Replace(a) PROVE (OwnInv /\ ServeInv /\ StreamsAccounted)'
  <2> DEFINE c == aconn[a]
             g == agw[a]
  <2>1. /\ apc[a] = "replace" /\ aold' = [aold EXCEPT ![a] = stream[c]]
        /\ MakeStreams(c, TRUE) /\ apc' = [apc EXCEPT ![a] = "close"]
        /\ UNCHANGED <<entry, agw, aconn, reads, wconn, faults>>
    BY <1>5 DEF Replace, Step
  <2>2. c \in Conns /\ g \in Gateways /\ entry[g] = c /\ c # None
    BY <1>t, <1>i, <2>1, RouterNoneAssumption DEF ConnInv, ServeInv
  <2>3. /\ \A e \in Conns \ {c} : stream'[e] = stream[e]
        /\ open' = open \union {stream'[c]} /\ down' \ {stream'[c]} = down \ {stream'[c]}
        /\ stream'[c] \in down'
    BY <1>t, <2>1, <2>2, MakeStreamsEffect
  <2>4. /\ stream'[c] \notin open /\ (\A b \in Acts : stream'[c] # aold[b])
        /\ \A e \in ConnsInUse \ {None} : stream'[c] # stream[e]
    BY <2>1, <2>2, FreshStreams
  <2>5. \A h \in Gateways \ {g} : entry[h] # None =>
          entry[h] # c /\ entry[h] \in Conns /\ stream[entry[h]] # stream[c]
          /\ stream'[entry[h]] = stream[entry[h]] /\ stream'[c] # stream[entry[h]]
    <3> SUFFICES ASSUME NEW h \in Gateways \ {g}, entry[h] # None
                 PROVE  entry[h] # c /\ entry[h] \in Conns /\ stream[entry[h]] # stream[c]
                        /\ stream'[entry[h]] = stream[entry[h]] /\ stream'[c] # stream[entry[h]]
      OBVIOUS
    <3>1. entry[h] # c /\ stream[entry[h]] # stream[c]
      BY <1>i, <2>2 DEF OwnInv
    <3>2. entry[h] \in Conns /\ entry[h] \in ConnsInUse \ {None}
      BY <1>t DEF TypeOK, ConnsInUse
    <3> QED BY <2>3, <2>4, <3>1, <3>2
  <2>6. aold'[a] = stream[c] /\ \A b \in Acts \ {a} : aold'[b] = aold[b]
    BY <1>t, <2>1 DEF TypeOK
  <2>7. stream[c] # stream'[c]
    BY <2>2, <2>4 DEF ConnsInUse
  <2>8. OwnInv'
    <3> SUFFICES ASSUME NEW h \in Gateways, entry[h] # None
                 PROVE  /\ stream'[entry[h]] \in open'
                        /\ \A i \in Gateways : i # h /\ entry[i] # None =>
                             entry[i] # entry[h] /\ stream'[entry[i]] # stream'[entry[h]]
                        /\ \A b \in Acts : aold'[b] # stream'[entry[h]]
      BY <2>1 DEF OwnInv
    <3>1. CASE h = g
      BY <2>2, <2>3, <2>4, <2>5, <2>6, <2>7, <3>1
    <3>2. CASE h # g
      <4>1. stream'[entry[h]] = stream[entry[h]] /\ stream[entry[h]] \in open'
        BY <1>i, <2>3, <2>5, <3>2 DEF OwnInv
      <4>2. ASSUME NEW i \in Gateways, i # h, entry[i] # None
            PROVE  entry[i] # entry[h] /\ stream'[entry[i]] # stream'[entry[h]]
        <5>1. entry[i] # entry[h] /\ stream[entry[i]] # stream[entry[h]]
          BY <1>i, <4>2 DEF OwnInv
        <5>2. CASE i = g
          BY <2>2, <2>5, <3>2, <4>1, <5>1, <5>2
        <5>3. CASE i # g
          BY <2>5, <4>1, <4>2, <5>1, <5>3
        <5> QED BY <5>2, <5>3
      <4>3. \A b \in Acts : aold'[b] # stream'[entry[h]]
        <5>1. \A b \in Acts : aold[b] # stream[entry[h]]
          BY <1>i DEF OwnInv
        <5> QED BY <2>5, <2>6, <3>2, <4>1, <5>1
      <4> QED BY <4>1, <4>2, <4>3
    <3> QED BY <3>1, <3>2
  <2>9. StreamsAccounted'
    <3>1. aold[a] = None
      BY <1>i, <2>1 DEF ServeInv
    <3>2. ASSUME NEW s \in open'
          PROVE  \/ \E h \in Gateways : entry'[h] # None /\ s = stream'[entry'[h]]
                 \/ \E b \in Acts : s = aold'[b]
      <4>1. CASE s = stream'[c]
        BY <2>1, <2>2, <4>1
      <4>2. CASE s \in open
        <5>1. CASE \E h \in Gateways : entry[h] # None /\ s = stream[entry[h]]
          <6>1. PICK h \in Gateways : entry[h] # None /\ s = stream[entry[h]]
            BY <5>1
          <6>2. CASE h = g
            BY <2>2, <2>6, <6>1, <6>2
          <6>3. CASE h # g
            BY <2>1, <2>5, <6>1, <6>3
          <6> QED BY <6>2, <6>3
        <5>2. CASE \E b \in Acts : s = aold[b]
          <6>1. PICK b \in Acts : s = aold[b]
            BY <5>2
          <6>2. b # a
            BY <1>t, <3>1, <4>2, <6>1, RouterNoneAssumption DEF TypeOK
          <6> QED BY <2>6, <6>1, <6>2
        <5> QED BY <1>p, <4>2, <5>1, <5>2
      <4> QED BY <2>3, <3>2, <4>1, <4>2
    <3> QED BY <1>o, <3>2
  <2>10. ServeInv'
    <3>1. apc'[a] = "close" /\ \A b \in Acts \ {a} : apc'[b] = apc[b]
      BY <1>t, <2>1 DEF TypeOK
    <3>2. \A b \in Acts \ {a} : apc[b] # "out" => agw[b] \in Gateways \ {g}
      BY <1>t, <1>i, <2>1 DEF ServeInv, ConnInv
    <3> SUFFICES ASSUME NEW b \in Acts
                 PROVE  /\ apc'[b] = "out" => agw[b] = None
                        /\ apc'[b] # "close" => aold'[b] = None
                        /\ \A e \in Acts : b # e /\ apc'[b] # "out" => agw[e] # agw[b]
                        /\ apc'[b] \in {"downlink", "replace", "close", "again"} => entry[agw[b]] = aconn[b]
                        /\ apc'[b] \in {"close", "again"} => stream'[aconn[b]] \in down'
                        /\ apc'[b] = "run" => /\ entry[agw[b]] # None
                                              /\ stream'[entry[agw[b]]] \in down'
                                              /\ reads[b] = stream'[entry[agw[b]]]
      BY <2>1 DEF ServeInv
    <3>3. CASE b = a
      BY <1>i, <2>1, <2>2, <2>3, <3>1, <3>3 DEF ServeInv
    <3>4. CASE b # a
      <4>1. /\ apc[b] = "out" => agw[b] = None
            /\ apc[b] # "close" => aold[b] = None
            /\ \A e \in Acts : b # e /\ apc[b] # "out" => agw[e] # agw[b]
            /\ apc[b] \in {"downlink", "replace", "close", "again"} => entry[agw[b]] = aconn[b] /\ aconn[b] # None
            /\ apc[b] \in {"close", "again"} => stream[aconn[b]] \in down
            /\ apc[b] = "run" => /\ entry[agw[b]] # None
                                 /\ stream[entry[agw[b]]] \in down /\ reads[b] = stream[entry[agw[b]]]
        BY <1>t, <1>i, RouterNoneAssumption DEF ServeInv, ConnInv
      <4>2. apc[b] # "out" /\ entry[agw[b]] # None =>
              /\ stream'[entry[agw[b]]] = stream[entry[agw[b]]]
              /\ stream[entry[agw[b]]] \in down => stream[entry[agw[b]]] \in down'
        BY <2>3, <2>5, <3>2, <3>4
      <4> QED BY <2>6, <3>1, <3>4, <4>1, <4>2
    <3> QED BY <3>3, <3>4
  <2> QED BY <2>8, <2>9, <2>10
<1>6. ASSUME NEW a \in Acts, CloseOld(a) PROVE (OwnInv /\ ServeInv /\ StreamsAccounted)'
  <2>1. /\ apc[a] = "close" /\ open' = open \ {aold[a]} /\ aold' = [aold EXCEPT ![a] = None]
        /\ apc' = [apc EXCEPT ![a] = "again"]
        /\ UNCHANGED <<entry, stream, down, agw, aconn, reads, wconn, faults>>
    BY <1>6 DEF CloseOld, Step
  <2>2. /\ aold'[a] = None /\ apc'[a] = "again"
        /\ \A b \in Acts \ {a} : aold'[b] = aold[b] /\ apc'[b] = apc[b]
    BY <1>t, <2>1 DEF TypeOK
  <2>3. OwnInv'
    <3>1. \A g \in Gateways : entry[g] # None => stream[entry[g]] # None
      BY <1>t, RouterNoneAssumption DEF ConnInv, ConnsInUse
    <3> QED BY <1>i, <2>1, <2>2, <3>1 DEF OwnInv
  <2>4. ServeInv'
    BY <1>i, <2>1, <2>2 DEF ServeInv
  <2>5. StreamsAccounted'
    <3>1. ASSUME NEW s \in open'
          PROVE  \/ \E h \in Gateways : entry'[h] # None /\ s = stream'[entry'[h]]
                 \/ \E b \in Acts : s = aold'[b]
      BY <1>p, <2>1, <2>2
    <3> QED BY <1>o, <3>1
  <2> QED BY <2>3, <2>4, <2>5
<1>7. ASSUME NEW a \in Acts, ForwardEnds(a) PROVE (OwnInv /\ ServeInv /\ StreamsAccounted)'
  <2>1. /\ reads[a] \notin open /\ reads' = [reads EXCEPT ![a] = None]
        /\ UNCHANGED <<entry, stream, open, down, apc, agw, aconn, aold, wconn, faults>>
    BY <1>7 DEF ForwardEnds
  <2>2. apc[a] # "run"
    BY <1>t, <1>i, <2>1 DEF ServeInv, OwnInv, ConnInv
  <2>3. \A b \in Acts \ {a} : reads'[b] = reads[b]
    BY <1>t, <2>1 DEF TypeOK
  <2>4. ServeInv'
    BY <1>i, <2>1, <2>2, <2>3 DEF ServeInv
  <2> QED BY <1>i, <2>1, <2>4 DEF OwnInv, StreamsAccounted
<1>8. ASSUME NEW a \in Acts, Leave(a) PROVE (OwnInv /\ ServeInv /\ StreamsAccounted)'
  <2>1. /\ apc[a] = "run" /\ apc' = [apc EXCEPT ![a] = "unsubscribe"]
        /\ UNCHANGED <<entry, stream, open, down, agw, aconn, aold, reads, wconn, faults>>
    BY <1>8 DEF Leave, Step
  <2>2. apc'[a] = "unsubscribe" /\ \A b \in Acts \ {a} : apc'[b] = apc[b]
    BY <1>t, <2>1 DEF TypeOK
  <2>3. ServeInv'
    BY <1>i, <2>1, <2>2 DEF ServeInv
  <2> QED BY <1>i, <2>1, <2>3 DEF OwnInv, StreamsAccounted
<1>9. ASSUME NEW a \in Acts, CleanupGateway(a) PROVE (OwnInv /\ ServeInv /\ StreamsAccounted)'
  <2> DEFINE g == agw[a]
  <2>1. /\ apc[a] = "unsubscribe" /\ apc' = [apc EXCEPT ![a] = "out"] /\ agw' = [agw EXCEPT ![a] = None]
        /\ UNCHANGED <<stream, down, aconn, aold, reads, wconn, faults>>
        /\ g \in Gateways
    BY <1>t, <1>9 DEF CleanupGateway, Step, ConnInv
  <2>2. /\ apc'[a] = "out" /\ agw'[a] = None
        /\ \A b \in Acts \ {a} : apc'[b] = apc[b] /\ agw'[b] = agw[b]
    BY <1>t, <2>1 DEF TypeOK
  <2>3. /\ entry'[g] = None /\ \A h \in Gateways \ {g} : entry'[h] = entry[h]
        /\ open' = IF entry[g] = None THEN open ELSE open \ {stream[entry[g]]}
    BY <1>t, <1>9, <2>1 DEF CleanupGateway, TypeOK
  <2>4. OwnInv'
    <3> SUFFICES ASSUME NEW h \in Gateways, entry'[h] # None
                 PROVE  /\ stream[entry'[h]] \in open'
                        /\ \A i \in Gateways : i # h /\ entry'[i] # None =>
                             entry'[i] # entry'[h] /\ stream[entry'[i]] # stream[entry'[h]]
                        /\ \A b \in Acts : aold[b] # stream[entry'[h]]
      BY <2>1 DEF OwnInv
    <3>1. h # g /\ entry'[h] = entry[h]
      BY <2>3
    <3>2. stream[entry[h]] \in open'
      <4>1. entry[g] # None => stream[entry[g]] # stream[entry[h]]
        BY <1>i, <2>1, <3>1 DEF OwnInv
      <4> QED BY <1>i, <2>3, <3>1, <4>1 DEF OwnInv
    <3> QED BY <1>i, <2>3, <3>1, <3>2 DEF OwnInv
  <2>5. StreamsAccounted'
    <3>1. ASSUME NEW s \in open'
          PROVE  \/ \E h \in Gateways : entry'[h] # None /\ s = stream'[entry'[h]]
                 \/ \E b \in Acts : s = aold'[b]
      BY <1>p, <2>1, <2>3
    <3> QED BY <1>o, <3>1
  <2>6. ServeInv'
    <3>1. \A b \in Acts \ {a} : apc[b] # "out" => agw[b] \in Gateways \ {g}
      BY <1>t, <1>i, <2>1 DEF ServeInv, ConnInv
    <3>2. \A b \in Acts \ {a} : apc[b] # "out" => entry'[agw[b]] = entry[agw[b]] /\ agw[b] # None
      BY <2>3, <3>1, RouterNoneAssumption
    <3> QED BY <1>i, <2>1, <2>2, <3>2 DEF ServeInv
  <2> QED BY <2>4, <2>5, <2>6
<1>10. CASE UNCHANGED vars
  BY <1>i, <1>10 DEF vars, OwnInv, ServeInv, StreamsAccounted
<1> QED
  BY <1>1, <1>2, <1>3, <1>4, <1>5, <1>6, <1>7, <1>8, <1>9, <1>10 DEF Next

\* There are neither entries nor activations at the start.
LEMMA SingleInit == Init => SingleInv
<1> SUFFICES ASSUME Init PROVE OwnInv /\ ServeInv /\ StreamsAccounted
  BY DEF SingleInv
<1> QED BY DEF Init, OwnInv, ServeInv, StreamsAccounted

\* No streams are left open that nobody will close: those that are open are of a
\* gatewayConn in the map or in the hands of who closes them, unless activations
\* of a gateway overlap (router.go:61-163).
THEOREM AllAccounted == Spec => []StreamsAccounted
<1>1. SingleInv => StreamsAccounted
  BY DEF SingleInv, StreamsAccounted
<1> QED
  BY <1>1, RouterInit, RouterStep, SingleInit, SingleStep, PTL DEF Spec

\* A running activation reads its gateway's streams, which are open and carry
\* downlink, whoever made the gatewayConn and however late messages are published,
\* unless activations of a gateway overlap (router.go:107-119, 152-163).
THEOREM RunningServed == Spec => []DownlinkServed
<1>1. RouterInv /\ SingleInv => DownlinkServed
  <2> SUFFICES ASSUME RouterInv, SingleInv, "overlap" \notin faults, NEW a \in Acts, apc[a] = "run"
               PROVE  /\ entry[agw[a]] # None /\ stream[entry[agw[a]]] \in open \intersect down
                      /\ reads[a] = stream[entry[agw[a]]]
    BY DEF DownlinkServed
  <2> QED BY DEF RouterInv, ConnInv, SingleInv, OwnInv, ServeInv
<1> QED
  BY <1>1, RouterInit, RouterStep, SingleInit, SingleStep, PTL DEF Spec
=============================================================================
