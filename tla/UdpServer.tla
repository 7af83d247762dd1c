------------------------------ MODULE UdpServer ------------------------------
(***************************************************************************)
(* The server the gateways talk to (Backend, backend/pktfwd/backend.go):   *)
(* a goroutine for every datagram, which asks the lock of its packet type, *)
(* stores where the gateway is, acknowledges, and passes on what it brings;*)
(* Send, which writes downlink to the stored address; and the two cleanups.*)
(*                                                                         *)
(* The table sources of SourceLocks is that of the PULL_DATA lock, the one *)
(* that guards the table of gateways. What GatewayTable models of that     *)
(* table, the announcements of arrivals and expiries, is one step here.    *)
(***************************************************************************)
EXTENDS SourceLocks, Packets, FiniteSets

CONSTANTS
  Handlers,  \* bound: goroutines that handle packets at one time
  Home,      \* where the packets of a gateway come from, by their type
  TrafficSets \* what may arrive and happen in a behaviour

Kinds == {"push", "pull", "ack", "downlink",
          "move",  \* packets come from other addresses too
          "stall"} \* goroutines may take longer than a tick
ASSUME UdpTrafficAssumption == TrafficSets \subseteq SUBSET Kinds
ASSUME UdpNullAssumption == None \notin Macs \union Addrs

Types == {PushData, PullData, TXACK}
KindOf(type) == IF type = PushData THEN "push" ELSE IF type = PullData THEN "pull" ELSE "ack"

VARIABLES
  traffic,
  others, \* the tables of the two locks for PUSH_DATA and TX_ACK packets
  table,  \* b.gateways: address, and time since lastSeen
  job,    \* per goroutine, the packet and what it still has to do for it
  send    \* a Send that has looked the gateway up: where its packet goes

serverVars == <<sources, reply, traffic, others, table, job, send>>

Idle == [mac |-> None, addr |-> None, type |-> None, todo |-> <<>>]

ServerInit ==
  /\ Init
  /\ traffic \in TrafficSets
  /\ others = [type \in Types \ {PullData} |-> [m \in Macs |-> NoEntry]]
  /\ table = [m \in Macs |-> NoEntry]
  /\ job = [r \in Handlers |-> Idle]
  /\ send = None

-----------------------------------------------------------------------------
(* Handling of packets *)

\* Mutant: the address is stored before the lock is asked.
StepsSetFirst(d) ==
  CASE d.type = PushData -> <<"lock", "ack">> \o Messages(d.body)
    [] d.type = PullData -> <<"set", "lock", "ack">>
    [] OTHER -> <<"lock">>

\* Mutant: a packet is acknowledged when what it brings was taken.
StepsAckLast(d) ==
  CASE d.type = PushData -> <<"lock">> \o Messages(d.body) \o <<"ack">>
    [] d.type = PullData -> <<"lock", "set", "ack">>
    [] OTHER -> <<"lock">>

\* What handlePushData, handlePullData and handleTXACK do, in their order.
Steps(d) ==
  CASE d.type = PushData -> <<"lock", "ack">> \o Messages(d.body)
    [] d.type = PullData -> <<"lock", "set", "ack">>
    [] OTHER -> <<"lock">>

At(r, step) == job[r].todo # <<>> /\ Head(job[r].todo) = step
GiveUp(r) == job' = [job EXCEPT ![r] = Idle]
Proceed(r) == IF Len(job[r].todo) = 1 THEN GiveUp(r) ELSE job' = [job EXCEPT ![r].todo = Tail(@)]

\* readPackets; the goroutine of any other packet returns at once.
Received == {d \in Datagrams(Macs) : Handled(d)}

Read(r, a, d) ==
  /\ job[r] = Idle
  /\ KindOf(d.type) \in traffic
  /\ "move" \in traffic \/ a = Home[d.mac][d.type]
  /\ job' = [job EXCEPT ![r] = [mac |-> d.mac, addr |-> a, type |-> d.type, todo |-> Steps(d)]]
  /\ UNCHANGED <<sources, reply, traffic, others, table, send>>

LockPull(r) ==
  /\ At(r, "lock")
  /\ job[r].type = PullData
  /\ \/ Accept(job[r].mac, job[r].addr) /\ Proceed(r)
     \/ Refuse(job[r].mac, job[r].addr) /\ GiveUp(r)
  /\ UNCHANGED <<traffic, others, table, send>>

\* Mutant: the packet types share a lock.
LockShared(r) ==
  /\ At(r, "lock")
  /\ job[r].type # PullData
  /\ \/ Accept(job[r].mac, job[r].addr) /\ Proceed(r)
     \/ Refuse(job[r].mac, job[r].addr) /\ GiveUp(r)
  /\ UNCHANGED <<traffic, others, table, send>>

LockOther(r) ==
  LET j == job[r] IN
  /\ At(r, "lock")
  /\ j.type # PullData
  /\ IF Admits(others[j.type][j.mac], j.addr)
     THEN others' = [others EXCEPT ![j.type][j.mac] = [addr |-> j.addr, age |-> 0]] /\ Proceed(r)
     ELSE UNCHANGED others /\ GiveUp(r)
  /\ UNCHANGED <<sources, reply, traffic, table, send>>

\* gateways.set; a new gateway is announced first, see GatewayTable.
Set(r) ==
  /\ At(r, "set")
  /\ table' = [table EXCEPT ![job[r].mac] = [addr |-> job[r].addr, age |-> 0]]
  /\ Proceed(r)
  /\ UNCHANGED <<sources, reply, traffic, others, send>>

\* The packet goes through udpSendChan to the goroutine that writes it.
Acknowledge(r) ==
  /\ At(r, "ack")
  /\ Proceed(r)
  /\ UNCHANGED <<sources, reply, traffic, others, table, send>>

\* A loop of PacketForwarder takes the stat or the received packet.
PassOn(r) ==
  /\ At(r, "stat") \/ At(r, "rxpk")
  /\ Proceed(r)
  /\ UNCHANGED <<sources, reply, traffic, others, table, send>>

\* A rxpk that does not convert takes those behind it along.
Convert(r) ==
  /\ At(r, Bad)
  /\ GiveUp(r)
  /\ UNCHANGED <<sources, reply, traffic, others, table, send>>

-----------------------------------------------------------------------------
(* Downlink *)

Get(m) ==
  /\ "downlink" \in traffic
  /\ send = None
  /\ table[m] # NoEntry
  /\ send' = table[m].addr
  /\ UNCHANGED <<sources, reply, traffic, others, table, job>>

Respond ==
  /\ send # None
  /\ send' = None
  /\ UNCHANGED <<sources, reply, traffic, others, table, job>>

-----------------------------------------------------------------------------
(* Time and the cleanups *)

Waits(r) == At(r, "stat") \/ At(r, "rxpk") \/ job[r] = Idle

TimePasses ==
  /\ "stall" \in traffic \/ (send = None /\ \A r \in Handlers : Waits(r))
  /\ Tick
  /\ others' = [type \in DOMAIN others |-> [m \in Macs |-> Older(others[type][m])]]
  /\ table' = [m \in Macs |-> Older(table[m])]
  /\ UNCHANGED <<traffic, job, send>>

CleanupPull == Cleanup /\ UNCHANGED <<traffic, others, table, job, send>>

CleanupOther(type) ==
  /\ others' = [others EXCEPT ![type] =
       [m \in Macs |-> IF @[m] # NoEntry /\ @[m].age > cacheTime THEN NoEntry ELSE @[m]]]
  /\ UNCHANGED <<sources, reply, traffic, table, job, send>>

\* gateways.cleanup; each is announced first, see GatewayTable.
CleanupTable ==
  /\ table' = [m \in Macs |->
       IF table[m] # NoEntry /\ table[m].age > cacheTime THEN NoEntry ELSE table[m]]
  /\ UNCHANGED <<sources, reply, traffic, others, job, send>>

-----------------------------------------------------------------------------

Handle(r) == LockPull(r) \/ LockOther(r) \/ Set(r) \/ Acknowledge(r) \/ Convert(r)

ServerNext ==
  \/ \E r \in Handlers :
       \/ \E a \in Addrs, d \in Received : Read(r, a, d)
       \/ Handle(r)
       \/ PassOn(r)
  \/ \E m \in Macs : Get(m)
  \/ Respond
  \/ TimePasses
  \/ CleanupPull
  \/ \E type \in DOMAIN others : CleanupOther(type)
  \/ CleanupTable

\* The goroutines run, the one that writes included; whether a loop ever takes
\* what a packet brings is not assumed.
ServerSpec ==
  /\ ServerInit
  /\ [][ServerNext]_serverVars
  /\ \A r \in Handlers : WF_serverVars(Handle(r))

-----------------------------------------------------------------------------
(* Properties *)

\* Once a PULL_DATA was accepted and stored, downlink goes to the source that
\* holds the gateway's lease for as long as it does (backend.go:297-332): nobody
\* else redirects it, and the entry does not go before the lease. A goroutine
\* that takes longer than the session stores an address after its time.
RouteFollowsLease ==
  "stall" \notin traffic =>
    \A m \in Macs :
      Holds(sources[m]) /\ (\A r \in Handlers : ~(At(r, "set") /\ job[r].mac = m))
        => table[m] # NoEntry /\ Key(table[m].addr) = Key(sources[m].addr)

\* A gateway that keeps its addresses is never refused, although its PUSH_DATA
\* and PULL_DATA packets come from different ports (backend.go:142-146).
OwnPortsPass ==
  [][ "move" \notin traffic =>
        \A r \in Handlers :
          LET j == job[r] IN
          At(r, "lock") /\ job'[r] # j =>
            (IF j.type = PullData THEN sources' ELSE others'[j.type])[j.mac] = [addr |-> j.addr, age |-> 0]
    ]_serverVars

\* Every accepted PUSH_DATA and PULL_DATA is answered, whether or not anybody
\* takes what it brings (backend.go:350-366; "acknowledge immediately all the
\* PUSH_DATA packets received", structs.go:94-95).
Acknowledged ==
  \A r \in Handlers :
    (~At(r, "lock") /\ "ack" \in Range(job[r].todo)) ~> "ack" \notin Range(job[r].todo)

\* The uplink message that a goroutine passes on carries the signal of the antenna
\* that heard the packet best, whatever antennas the rxpk lists (backend.go:546-555
\* keeps the two fields of the signal up to date in different branches).
BestAntenna ==
  \A r \in Handlers : At(r, "rxpk") => \A rsig \in SigLists : IsBest(SignalOf(rsig), rsig)
=============================================================================
