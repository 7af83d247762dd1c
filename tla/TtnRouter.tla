------------------------------ MODULE TtnRouter ------------------------------
(***************************************************************************)
(* The TTN router backend (backend/ttn/router.go): a map of gatewayConns,  *)
(* each with the streams to the router for one gateway. An activation of   *)
(* the exchange subscribes and unsubscribes, workers publish; whoever      *)
(* comes first makes the gatewayConn. r.mu is held for single steps only,  *)
(* the streams of a gatewayConn are read without it.                       *)
(***************************************************************************)
EXTENDS FiniteSets

CONSTANTS
  Gateways,
  Acts,      \* slots for northbound activations
  Workers,   \* goroutines that publish uplink or status messages
  Conns,     \* slots for gatewayConns; reused once nothing refers to them
  Streams,   \* slots for streams; reused once closed and nothing refers to them
  FaultSets, \* what may happen, see FaultKinds: a behaviour keeps to one of the sets
  None

\* "overlap": a gateway is activated again before its last activation has
\* unsubscribed; "late": messages are published for a gateway that is not, or
\* no longer, activated.
FaultKinds == {"overlap", "late"}

ASSUME RouterFaultsAssumption == FaultSets \subseteq SUBSET FaultKinds
ASSUME RouterNoneAssumption == None \notin Gateways \union Conns \union Streams

VARIABLES
  entry,        \* r.gateways
  stream,       \* per gatewayConn: its streams
  open, down,   \* streams that were not closed, that were made with downlink
  apc, agw,     \* per activation: its place and its gateway
  aconn, aold,  \* the gatewayConn and the old streams SubscribeDownlink has in hand
  reads,        \* per activation: the streams its forwarding goroutine reads
  wconn,        \* per worker: the gatewayConn it is about to publish on
  faults        \* the set of this behaviour

actVars == <<apc, agw, aconn, aold, reads>>
vars == <<entry, stream, open, down, apc, agw, aconn, aold, reads, wconn, faults>>

Init ==
  /\ entry = [g \in Gateways |-> None]
  /\ stream = [c \in Conns |-> None]
  /\ open = {} /\ down = {}
  /\ apc = [a \in Acts |-> "out"]
  /\ agw = [a \in Acts |-> None]
  /\ aconn = [a \in Acts |-> None] /\ aold = [a \in Acts |-> None]
  /\ reads = [a \in Acts |-> None]
  /\ wconn = [w \in Workers |-> None]
  /\ faults \in FaultSets

-----------------------------------------------------------------------------
ConnsInUse ==
  {entry[g] : g \in Gateways} \union {aconn[a] : a \in Acts} \union {wconn[w] : w \in Workers}
FreeConns == Conns \ ConnsInUse
FreeStreams ==
  Streams \ (open \union {stream[c] : c \in ConnsInUse \ {None}}
                  \union {reads[a] : a \in Acts} \union {aold[a] : a \in Acts})

\* The slots are alike: any free one stands for what the code allocates.
NewConn == CHOOSE c \in FreeConns : TRUE
NewStreams == CHOOSE s \in FreeStreams : TRUE

Step(a, pc) == apc' = [apc EXCEPT ![a] = pc]

MakeStreams(c, downlinkActive) ==
  /\ FreeStreams # {}
  /\ stream' = [stream EXCEPT ![c] = NewStreams]
  /\ open' = open \union {NewStreams}
  /\ down' = IF downlinkActive THEN down \union {NewStreams} ELSE down \ {NewStreams}

\* Mutant: a gatewayConn that is there is made again.
GetMadeAgain(g, c, downlinkActive) ==
  /\ FreeConns # {} /\ c = NewConn
  /\ MakeStreams(c, downlinkActive)
  /\ entry' = [entry EXCEPT ![g] = c]

\* The gatewayConn c of g, made with its streams if it is not there.
GetGateway(g, c, downlinkActive) ==
  \/ entry[g] # None /\ c = entry[g] /\ UNCHANGED <<entry, stream, open, down>>
  \/ /\ entry[g] = None /\ FreeConns # {} /\ c = NewConn
     /\ MakeStreams(c, downlinkActive)
     /\ entry' = [entry EXCEPT ![g] = c]

-----------------------------------------------------------------------------
(* Publishing *)

\* PublishUplink or PublishStatus gets the gatewayConn ...
Publish(w, g, c) ==
  /\ wconn[w] = None
  /\ "late" \in faults \/ \E a \in Acts : agw[a] = g /\ apc[a] # "unsubscribe"
  /\ GetGateway(g, c, FALSE)
  /\ wconn' = [wconn EXCEPT ![w] = c]
  /\ UNCHANGED <<actVars, faults>>

\* ... and sends on its streams, which drop the message if they were closed.
Sent(w) ==
  /\ wconn[w] # None
  /\ wconn' = [wconn EXCEPT ![w] = None]
  /\ UNCHANGED <<entry, stream, open, down, actVars, faults>>

-----------------------------------------------------------------------------
(* SubscribeDownlink *)

SubscribeDownlink(a, g, c) ==
  /\ apc[a] = "out" /\ reads[a] = None
  /\ "overlap" \in faults \/ \A b \in Acts : agw[b] # g
  /\ GetGateway(g, c, TRUE)
  /\ Step(a, "downlink")
  /\ agw' = [agw EXCEPT ![a] = g]
  /\ aconn' = [aconn EXCEPT ![a] = c]
  /\ UNCHANGED <<aold, reads, wconn, faults>>

\* stream.Downlink() fails on streams made without downlink: those are replaced
\* the first time; the second time SubscribeDownlink fails, and the exchange runs
\* the activation without downlink.
Downlink(a) ==
  /\ apc[a] \in {"downlink", "again"}
  /\ LET s == stream[aconn[a]] IN
       IF s \in down \/ apc[a] = "again"
         THEN /\ Step(a, "run")
              /\ reads' = [reads EXCEPT ![a] = IF s \in down THEN s ELSE @]
              /\ aconn' = [aconn EXCEPT ![a] = None]
         ELSE Step(a, "replace") /\ UNCHANGED <<reads, aconn>>
  /\ UNCHANGED <<entry, stream, open, down, agw, aold, wconn, faults>>

\* Mutant: the new streams are not made with downlink.
ReplaceWithout(a) ==
  /\ apc[a] = "replace"
  /\ aold' = [aold EXCEPT ![a] = stream[aconn[a]]]
  /\ MakeStreams(aconn[a], FALSE)
  /\ Step(a, "close")
  /\ UNCHANGED <<entry, agw, aconn, reads, wconn, faults>>

\* Under r.mu, whether or not the gatewayConn is still in the map.
Replace(a) ==
  /\ apc[a] = "replace"
  /\ aold' = [aold EXCEPT ![a] = stream[aconn[a]]]
  /\ MakeStreams(aconn[a], TRUE)
  /\ Step(a, "close")
  /\ UNCHANGED <<entry, agw, aconn, reads, wconn, faults>>

CloseOld(a) ==
  /\ apc[a] = "close"
  /\ open' = open \ {aold[a]}
  /\ aold' = [aold EXCEPT ![a] = None]
  /\ Step(a, "again")
  /\ UNCHANGED <<entry, stream, down, agw, aconn, reads, wconn, faults>>

\* The forwarding goroutine ends when its streams are closed.
ForwardEnds(a) ==
  /\ reads[a] \notin open \union {None}
  /\ reads' = [reads EXCEPT ![a] = None]
  /\ UNCHANGED <<entry, stream, open, down, apc, agw, aconn, aold, wconn, faults>>

-----------------------------------------------------------------------------
(* UnsubscribeDownlink *)

Leave(a) ==
  /\ apc[a] = "run"
  /\ Step(a, "unsubscribe")
  /\ UNCHANGED <<entry, stream, open, down, agw, aconn, aold, reads, wconn, faults>>

\* Mutant: the streams stay open.
CleanupDeletes(a) ==
  /\ apc[a] = "unsubscribe"
  /\ entry' = [entry EXCEPT ![agw[a]] = None]
  /\ Step(a, "out")
  /\ agw' = [agw EXCEPT ![a] = None]
  /\ UNCHANGED <<stream, open, down, aconn, aold, reads, wconn, faults>>

\* CleanupGateway: whose the gatewayConn is does not matter.
CleanupGateway(a) ==
  /\ apc[a] = "unsubscribe"
  /\ IF entry[agw[a]] = None
       THEN UNCHANGED <<entry, open>>
       ELSE /\ open' = open \ {stream[entry[agw[a]]]}
            /\ entry' = [entry EXCEPT ![agw[a]] = None]
  /\ Step(a, "out")
  /\ agw' = [agw EXCEPT ![a] = None]
  /\ UNCHANGED <<stream, down, aconn, aold, reads, wconn, faults>>

-----------------------------------------------------------------------------
Next ==
  \/ \E w \in Workers, g \in Gateways, c \in Conns : Publish(w, g, c)
  \/ \E w \in Workers : Sent(w)
  \/ \E a \in Acts, g \in Gateways, c \in Conns : SubscribeDownlink(a, g, c)
  \/ \E a \in Acts :
       Downlink(a) \/ Replace(a) \/ CloseOld(a) \/ ForwardEnds(a) \/ Leave(a) \/ CleanupGateway(a)

Spec == Init /\ [][Next]_vars

-----------------------------------------------------------------------------
(* Properties *)

\* Types, and SubscribeDownlink never has in hand to close the streams its
\* gatewayConn is left with (router.go:155-158).
TypeOK ==
  /\ entry \in [Gateways -> Conns \union {None}]
  /\ stream \in [Conns -> Streams \union {None}]
  /\ open \subseteq Streams /\ down \subseteq Streams
  /\ apc \in [Acts -> {"out", "downlink", "replace", "close", "again", "run", "unsubscribe"}]
  /\ agw \in [Acts -> Gateways \union {None}]
  /\ aconn \in [Acts -> Conns \union {None}]
  /\ aold \in [Acts -> Streams \union {None}]
  /\ reads \in [Acts -> Streams \union {None}]
  /\ wconn \in [Workers -> Conns \union {None}]
  /\ faults \in FaultSets
  /\ \A a \in Acts : apc[a] = "close" => aold[a] \notin {None, stream[aconn[a]]}

\* No streams leak: those that are open are a gateway's in the map, where
\* CleanupGateway finds them, or about to be closed by the SubscribeDownlink that
\* replaced them. When activations overlap, SubscribeDownlink may put new ones into
\* a gatewayConn that CleanupGateway has dropped (router.go:155-160).
StreamsAccounted ==
  "overlap" \notin faults =>
    open \subseteq {stream[c] : c \in {entry[g] : g \in Gateways} \ {None}}
                     \union {aold[a] : a \in Acts}

\* While an activation runs, its gateway's streams are open, carry downlink and
\* are the ones it reads, whoever made the gatewayConn and however late messages
\* were published (router.go:107-119, 152-163). An overlapping activation closes
\* the streams of its successor (router.go:122-129).
DownlinkServed ==
  "overlap" \notin faults =>
    \A a \in Acts : apc[a] = "run" =>
      LET c == entry[agw[a]] IN c # None /\ stream[c] \in open \intersect down /\ reads[a] = stream[c]
=============================================================================
