------------------------ MODULE PacketForwarderProofs -------------------------
(***************************************************************************)
(* The packet forwarder's goroutines. GatewayTable: the table's lock does  *)
(* what the callbacks count on, a gateway is announced once when it comes  *)
(* and once when it goes; and one handler of the exchange brings the       *)
(* connected gateways in line with the table. PacketRouting: while a loop  *)
(* sends, nobody changes the maps or closes the channel, though channels   *)
(* are replaced and closed by gateway ID, whoever made them.               *)
(***************************************************************************)
EXTENDS GatewayTable, PacketRouting, FiniteSetTheorems, TLAPS

-----------------------------------------------------------------------------
(* GatewayTable *)

\* Whoever handles a packet or a message has its gateway in hand.
InHand ==
  /\ \A p \in Pulls : ppc[p] # "none" => pmac[p] \in Macs
  /\ \A x \in Handlers : xpc[x] \in {"connect", "disconnect"} => xmac[x] \in Macs

\* Who announces holds the lock, and what is announced is news: a new gateway is
\* not in the table, one that goes still is and is not visited again.
LockInv ==
  /\ \A p \in Pulls : ppc[p] = "announce" => holder = p /\ pmac[p] \notin table
  /\ cpc # "sleep" => holder = Cleaner
  /\ cpc = "announce" => cmac \in table \ todo
  /\ todo \subseteq table

TableInv == TypeOK /\ InHand /\ LockInv

\* A goroutine that handles a PULL_DATA.
LEMMA PullStep ==
  ASSUME TableInv, NEW p \in Pulls,
         (\E m \in Macs : PullArrives(p, m)) \/ SetLock(p) \/ AnnounceNew(p)
  PROVE  TableInv'
<1> USE DEF TableInv, TypeOK, InHand, LockInv, cleanVars, exchangeVars, recordVars
<1>1. ASSUME NEW m \in Macs, PullArrives(p, m) PROVE TableInv'
  <2>1. /\ ppc' \in [Pulls -> {"none", "lock", "announce"}] /\ pmac' \in [Pulls -> Macs \union {NoMac}]
        /\ ppc'[p] = "lock" /\ pmac'[p] = m
        /\ \A q \in Pulls \ {p} : ppc'[q] = ppc[q] /\ pmac'[q] = pmac[q]
    BY <1>1 DEF PullArrives
  <2>2. InHand' /\ LockInv'
    BY <1>1, <2>1 DEF PullArrives
  <2> QED BY <1>1, <2>1, <2>2 DEF PullArrives
<1>2. CASE SetLock(p) /\ pmac[p] \in table
  <2>1. /\ ppc' \in [Pulls -> {"none", "lock", "announce"}] /\ pmac' \in [Pulls -> Macs \union {NoMac}]
        /\ ppc'[p] = "none"
        /\ \A q \in Pulls \ {p} : ppc'[q] = ppc[q] /\ pmac'[q] = pmac[q]
        /\ UNCHANGED <<table, holder, cpc, todo, cmac, fwd, xpc, xmac, retired, connected, onRecord, kept, replaced>>
        /\ fresh' \subseteq Macs
    BY <1>2 DEF SetLock
  <2>2. InHand' /\ LockInv'
    BY <2>1
  <2> QED BY <2>1, <2>2
<1>3. CASE SetLock(p) /\ pmac[p] \notin table
  <2>1. /\ ppc' \in [Pulls -> {"none", "lock", "announce"}]
        /\ ppc[p] = "lock" /\ ppc'[p] = "announce" /\ holder = Nobody /\ holder' = p
        /\ \A q \in Pulls \ {p} : ppc'[q] = ppc[q]
        /\ UNCHANGED <<table, fresh, pmac, cpc, todo, cmac, fwd, xpc, xmac, retired, connected, onRecord, kept, replaced>>
    BY <1>3 DEF SetLock
  <2>2. \A q \in Pulls : ppc[q] # "announce"
    BY <2>1, TableNullAssumption
  <2>3. cpc = "sleep"
    BY <2>1, TableNullAssumption
  <2>4. LockInv'
    BY <1>3, <2>1, <2>2, <2>3
  <2>5. InHand'
    BY <2>1
  <2> QED BY <2>1, <2>4, <2>5
<1>4. CASE AnnounceNew(p)
  <2>1. /\ ppc' \in [Pulls -> {"none", "lock", "announce"}] /\ pmac' \in [Pulls -> Macs \union {NoMac}]
        /\ ppc[p] = "announce" /\ ppc'[p] = "none" /\ holder' = Nobody
        /\ \A q \in Pulls \ {p} : ppc'[q] = ppc[q] /\ pmac'[q] = pmac[q]
        /\ UNCHANGED <<cpc, todo, cmac, xpc, xmac, retired, connected, onRecord, kept, replaced>>
        /\ pmac[p] \in Macs /\ table' = table \union {pmac[p]} /\ fresh' = fresh \union {pmac[p]}
    BY <1>4 DEF AnnounceNew
  <2>2. fwd' \in Messages \union {NoMsg}
    BY <1>4, <2>1 DEF AnnounceNew, Messages
  <2>3. \A q \in Pulls \ {p} : ppc[q] # "announce"
    BY <2>1
  <2>4. cpc = "sleep"
    BY <2>1, TableNullAssumption
  <2>5. LockInv'
    BY <2>1, <2>3, <2>4
  <2>6. InHand'
    BY <2>1
  <2> QED BY <2>1, <2>2, <2>5, <2>6
<1> QED BY <1>1, <1>2, <1>3, <1>4

\* The cleanup loop, and sessions that run out.
LEMMA CleanerStep ==
  ASSUME TableInv,
         \/ CleanupLock \/ AnnounceExpired \/ CleanupUnlock
         \/ \E m \in Macs : Expire(m) \/ CleanupVisit(m)
  PROVE  TableInv'
<1> USE DEF TableInv, TypeOK, InHand, LockInv, pullVars, cleanVars, exchangeVars, recordVars
<1>1. CASE CleanupLock
  <2>1. \A p \in Pulls : ppc[p] # "announce"
    BY <1>1, TableNullAssumption DEF CleanupLock
  <2> QED BY <1>1, <2>1 DEF CleanupLock
<1>2. CASE AnnounceExpired
  <2>1. cmac \in Macs /\ cmac \in table /\ cmac \notin todo /\ holder = Cleaner
    BY <1>2 DEF AnnounceExpired
  <2>2. fwd' \in Messages
    BY <1>2, <2>1 DEF AnnounceExpired, Messages
  <2>3. LockInv' /\ InHand'
    BY <1>2, <2>1 DEF AnnounceExpired
  <2> QED BY <1>2, <2>2, <2>3 DEF AnnounceExpired
<1>3. CASE CleanupUnlock
  <2>1. \A p \in Pulls : ppc[p] # "announce"
    BY <1>3, TableNullAssumption DEF CleanupUnlock
  <2> QED BY <1>3, <2>1 DEF CleanupUnlock
<1>4. ASSUME NEW m \in Macs, Expire(m) PROVE TableInv'
  BY <1>4 DEF Expire
<1>5. ASSUME NEW m \in Macs, CleanupVisit(m) PROVE TableInv'
  BY <1>5 DEF CleanupVisit
<1> QED BY <1>1, <1>2, <1>3, <1>4, <1>5

\* What a step of a handler may change: nothing of the table.
LEMMA TakeStep ==
  ASSUME TypeOK, InHand, NEW x \in Handlers, NEW pc, NEW m, Take(x, pc, m),
         pc \in {"idle", "connect", "disconnect", "downlink"}, m \in Macs \union {NoMac},
         pc \in {"connect", "disconnect"} => m \in Macs
  PROVE  /\ xpc' \in [Handlers -> {"off", "idle", "connect", "disconnect", "downlink"}]
         /\ xmac' \in [Handlers -> Macs \union {NoMac}]
         /\ \A y \in Handlers : xpc'[y] \in {"connect", "disconnect"} => xmac'[y] \in Macs
         /\ xpc'[x] = pc /\ xmac'[x] = m
         /\ \A y \in Handlers \ {x} : xpc'[y] = xpc[y] /\ xmac'[y] = xmac[y]
BY DEF TypeOK, InHand, Take

\* A handler goroutine of the exchange, or its watchdog.
LEMMA HandlerStep ==
  ASSUME TableInv, NEW x \in Handlers,
         \/ Receive(x) \/ HandleConnect(x) \/ HandleDisconnect(x) \/ Send(x) \/ Retire(x)
         \/ \E m \in Macs : ReceiveDownlink(x, m)
         \/ \E y \in Handlers : Watchdog(x, y)
  PROVE  TableInv'
<1> USE DEF TableInv, TypeOK, pullVars, cleanVars, recordVars
<1>1. UNCHANGED <<table, fresh, holder, ppc, pmac, cpc, todo, cmac>>
  BY DEF Receive, HandleConnect, HandleDisconnect, Send, Retire, ReceiveDownlink, Watchdog
<1>2. LockInv' /\ \A p \in Pulls : ppc'[p] # "none" => pmac'[p] \in Macs
  BY <1>1 DEF LockInv, InHand
<1> SUFFICES /\ fwd' \in Messages \union {NoMsg}
             /\ xpc' \in [Handlers -> {"off", "idle", "connect", "disconnect", "downlink"}]
             /\ xmac' \in [Handlers -> Macs \union {NoMac}]
             /\ retired' \subseteq Handlers /\ connected' \subseteq Macs
             /\ onRecord' \subseteq Macs /\ kept' \subseteq Macs
             /\ replaced' \in BOOLEAN
             /\ \A y \in Handlers : xpc'[y] \in {"connect", "disconnect"} => xmac'[y] \in Macs
  BY <1>1, <1>2 DEF InHand
<1>3. CASE Receive(x)
  <2>1. fwd \in Messages /\ Take(x, fwd.kind, fwd.mac)
    BY <1>3 DEF Receive
  <2>2. fwd.kind \in {"connect", "disconnect"} /\ fwd.mac \in Macs
    BY <2>1 DEF Messages
  <2> QED BY <1>3, <2>1, <2>2, TakeStep DEF Receive
<1>4. CASE HandleConnect(x)
  <2>1. xmac[x] \in Macs /\ Take(x, "idle", NoMac)
    BY <1>4 DEF HandleConnect, InHand
  <2> QED BY <1>4, <2>1, TakeStep DEF HandleConnect
<1>5. CASE HandleDisconnect(x)
  <2>1. Take(x, "idle", NoMac)
    BY <1>5 DEF HandleDisconnect
  <2> QED BY <1>5, <2>1, TakeStep DEF HandleDisconnect
<1>6. CASE Send(x)
  BY <1>6, TakeStep DEF Send
<1>7. CASE Retire(x)
  BY <1>7 DEF Retire, InHand
<1>8. ASSUME NEW m \in Macs, ReceiveDownlink(x, m)
      PROVE  /\ fwd' \in Messages \union {NoMsg}
             /\ xpc' \in [Handlers -> {"off", "idle", "connect", "disconnect", "downlink"}]
             /\ xmac' \in [Handlers -> Macs \union {NoMac}]
             /\ retired' \subseteq Handlers /\ connected' \subseteq Macs
             /\ onRecord' \subseteq Macs /\ kept' \subseteq Macs
             /\ replaced' \in BOOLEAN
             /\ \A y \in Handlers : xpc'[y] \in {"connect", "disconnect"} => xmac'[y] \in Macs
  BY <1>8, TakeStep DEF ReceiveDownlink
<1>9. CASE \E y \in Handlers : Watchdog(x, y)
  BY <1>9 DEF Watchdog, InHand
<1> QED BY <1>3, <1>4, <1>5, <1>6, <1>7, <1>8, <1>9

\* A gateway from the record.
LEMMA RecordStep ==
  ASSUME TableInv, NEW m \in Macs, ConnectGateway(m)
  PROVE  TableInv'
BY DEF ConnectGateway, TableInv, TypeOK, InHand, LockInv, pullVars, cleanVars

\* Every step keeps the lock's promises.
LEMMA TableStep == TableInv /\ [Next]_vars => TableInv'
<1> SUFFICES ASSUME TableInv, [Next]_vars PROVE TableInv'
  OBVIOUS
<1>1. CASE UNCHANGED vars
  BY <1>1 DEF vars, pullVars, cleanVars, exchangeVars, recordVars, TableInv, TypeOK, InHand, LockInv
<1>2. CASE Next
  BY <1>2, PullStep, CleanerStep, HandlerStep, RecordStep DEF Next
<1> QED BY <1>1, <1>2

\* An empty table that nobody uses is well formed.
LEMMA TableInit == Init => TableInv
<1> SUFFICES ASSUME Init PROVE TableInv
  OBVIOUS
<1>1. TypeOK
  BY DEF Init, TypeOK
<1>2. InHand
  BY DEF Init, InHand
<1>3. LockInv
  BY DEF Init, LockInv
<1> QED BY <1>1, <1>2, <1>3 DEF TableInv

\* The table, its goroutines and the handlers stay well formed.
THEOREM TypeCorrect == Spec => []TypeOK
<1>1. TableInv => TypeOK
  BY DEF TableInv
<1> QED
  BY <1>1, TableInit, TableStep, PTL DEF Spec

\* A gateway is announced once when it enters the table and once when it leaves,
\* whatever PULL_DATA packets come for it while the cleanup runs: the callbacks
\* run under the table's lock (backend.go:69-96).
THEOREM AnnouncesOnce == Spec => []AnnouncedOnce
<1>1. TableInv => AnnouncedOnce
  <2> SUFFICES ASSUME TableInv PROVE AnnouncedOnce
    OBVIOUS
  <2>1. cpc = "announce" => \A p \in Pulls : ppc[p] # "announce"
    BY TableNullAssumption DEF TableInv, LockInv
  <2> QED BY <2>1 DEF TableInv, LockInv, AnnouncedOnce
<1> QED
  BY <1>1, TableInit, TableStep, PTL DEF Spec

-----------------------------------------------------------------------------
(* One handler *)

\* The gateways connected because of their last announcement; those once handler x
\* has handled what it has in hand, and then the message on its way to a handler.
Announced == connected \ kept
AfterHandler(x) ==
  IF xpc[x] = "connect" THEN Announced \union {xmac[x]}
  ELSE IF xpc[x] = "disconnect" THEN Announced \ {xmac[x]} ELSE Announced
AfterForward(x) ==
  IF fwd = NoMsg THEN AfterHandler(x)
  ELSE IF fwd.kind = "connect" THEN AfterHandler(x) \union {fwd.mac} ELSE AfterHandler(x) \ {fwd.mac}

\* No handler but that of Start is there, and what is on its way makes up for
\* all that the announced gateways are behind the table.
AgreeInv ==
  ~replaced =>
    \A x \in Started : Started = {x} =>
      /\ \A y \in Handlers \ {x} : xpc[y] = "off"
      /\ table = AfterForward(x)

\* Every step of a handler that was not replaced brings the two in line.
LEMMA AgreeStep == TableInv /\ AgreeInv /\ [Next]_vars => AgreeInv'
<1> SUFFICES ASSUME TableInv, AgreeInv, [Next]_vars, ~replaced',
                    NEW x \in Started, Started = {x}
             PROVE  /\ \A y \in Handlers \ {x} : xpc'[y] = "off"
                    /\ table' = AfterForward(x)'
  BY DEF AgreeInv
<1>1. TypeOK /\ x \in Handlers
  BY StartedAssumption DEF TableInv
<1>2. ~replaced
  BY DEF Next, vars, exchangeVars, PullArrives, SetLock, AnnounceNew, Expire, CleanupVisit, CleanupLock,
         AnnounceExpired, CleanupUnlock, Receive, HandleConnect, HandleDisconnect, Send, Retire,
         ReceiveDownlink, Watchdog, ConnectGateway
<1>3. (\A y \in Handlers \ {x} : xpc[y] = "off") /\ table = AfterForward(x)
  BY <1>2 DEF AgreeInv
<1>4. ASSUME UNCHANGED <<table, xpc, xmac, fwd, Announced>>
      PROVE  (\A y \in Handlers \ {x} : xpc'[y] = "off") /\ table' = AfterForward(x)'
  BY <1>3, <1>4 DEF AfterForward, AfterHandler
<1>5. ASSUME NEW p \in Pulls, NEW m \in Macs, PullArrives(p, m)
      PROVE  UNCHANGED <<table, xpc, xmac, fwd, Announced>>
  BY <1>5 DEF PullArrives, exchangeVars, recordVars, Announced
<1>6. ASSUME NEW p \in Pulls, SetLock(p) PROVE UNCHANGED <<table, xpc, xmac, fwd, Announced>>
  BY <1>6 DEF SetLock, exchangeVars, recordVars, Announced
<1>7. ASSUME NEW p \in Pulls, AnnounceNew(p)
      PROVE  (\A y \in Handlers \ {x} : xpc'[y] = "off") /\ table' = AfterForward(x)'
  <2>1. /\ UNCHANGED <<xpc, xmac, Announced>> /\ fwd = NoMsg
        /\ fwd' = [kind |-> "connect", mac |-> pmac[p]] /\ table' = table \union {pmac[p]}
    BY <1>7 DEF AnnounceNew, exchangeVars, recordVars, Announced
  <2>2. pmac[p] \in Macs
    BY <1>7 DEF AnnounceNew, TableInv, InHand
  <2>3. fwd' # NoMsg /\ fwd'.kind = "connect" /\ fwd'.mac = pmac[p]
    BY <2>1, <2>2, NoMsgAssumption DEF Messages
  <2>4. AfterForward(x) = AfterHandler(x) /\ AfterHandler(x)' = AfterHandler(x)
    BY <2>1 DEF AfterForward, AfterHandler
  <2>5. AfterForward(x)' = AfterHandler(x)' \union {pmac[p]}
    BY <2>3 DEF AfterForward
  <2> QED BY <1>3, <2>1, <2>4, <2>5
<1>8. ASSUME NEW m \in Macs, Expire(m) \/ CleanupVisit(m)
      PROVE  UNCHANGED <<table, xpc, xmac, fwd, Announced>>
  BY <1>8 DEF Expire, CleanupVisit, exchangeVars, recordVars, Announced
<1>9. ASSUME CleanupLock \/ CleanupUnlock PROVE UNCHANGED <<table, xpc, xmac, fwd, Announced>>
  BY <1>9 DEF CleanupLock, CleanupUnlock, exchangeVars, recordVars, Announced
<1>10. ASSUME AnnounceExpired
       PROVE  (\A y \in Handlers \ {x} : xpc'[y] = "off") /\ table' = AfterForward(x)'
  <2>1. /\ UNCHANGED <<xpc, xmac, Announced>> /\ fwd = NoMsg
        /\ fwd' = [kind |-> "disconnect", mac |-> cmac] /\ table' = table \ {cmac}
    BY <1>10 DEF AnnounceExpired, exchangeVars, recordVars, Announced
  <2>2. cmac \in Macs
    BY <1>1, <1>10 DEF AnnounceExpired, TableInv, LockInv, TypeOK
  <2>3. fwd' # NoMsg /\ fwd'.kind = "disconnect" /\ fwd'.mac = cmac
    BY <2>1, <2>2, NoMsgAssumption DEF Messages
  <2>4. AfterForward(x) = AfterHandler(x) /\ AfterHandler(x)' = AfterHandler(x)
    BY <2>1 DEF AfterForward, AfterHandler
  <2>5. AfterForward(x)' = AfterHandler(x)' \ {cmac}
    BY <2>3 DEF AfterForward
  <2> QED BY <1>3, <2>1, <2>4, <2>5
<1>11. ASSUME NEW y \in Handlers, Receive(y)
       PROVE  (\A z \in Handlers \ {x} : xpc'[z] = "off") /\ table' = AfterForward(x)'
  <2>1. y = x
    BY <1>3, <1>11 DEF Receive
  <2>2. /\ fwd \in Messages /\ fwd # NoMsg /\ fwd.kind \in {"connect", "disconnect"}
        /\ xpc[x] = "idle" /\ fwd' = NoMsg /\ UNCHANGED <<table, Announced>>
    BY <1>1, <1>11, <2>1 DEF Receive, TypeOK, Messages, Announced, recordVars
  <2>3. /\ xpc'[x] = fwd.kind /\ xmac'[x] = fwd.mac
        /\ \A z \in Handlers \ {x} : xpc'[z] = xpc[z]
    BY <1>1, <1>11, <2>1 DEF Receive, Take, TypeOK
  <2>4. AfterHandler(x) = Announced
    BY <2>2 DEF AfterHandler
  <2>5. AfterForward(x)' = AfterHandler(x)'
    BY <2>2 DEF AfterForward
  <2>6. AfterHandler(x)' = IF fwd.kind = "connect" THEN Announced \union {fwd.mac}
                                                   ELSE Announced \ {fwd.mac}
    BY <2>2, <2>3 DEF AfterHandler
  <2>7. AfterForward(x) = IF fwd.kind = "connect" THEN Announced \union {fwd.mac}
                                                  ELSE Announced \ {fwd.mac}
    BY <2>2, <2>4 DEF AfterForward
  <2> QED BY <1>3, <2>2, <2>3, <2>5, <2>6, <2>7
<1>12. ASSUME NEW y \in Handlers,
              HandleConnect(y) \/ HandleDisconnect(y) \/ Send(y) \/ Retire(y)
              \/ \E m \in Macs : ReceiveDownlink(y, m)
       PROVE  (\A z \in Handlers \ {x} : xpc'[z] = "off") /\ table' = AfterForward(x)'
  <2>1. y = x
    BY <1>3, <1>12 DEF HandleConnect, HandleDisconnect, Send, Retire, ReceiveDownlink
  <2>2. /\ UNCHANGED <<table, fwd>>
        /\ \A z \in Handlers \ {x} : xpc'[z] = xpc[z]
        /\ xpc'[x] \notin {"connect", "disconnect"}
        /\ Announced' = IF xpc[x] = "connect" THEN Announced \union {xmac[x]}
                        ELSE IF xpc[x] = "disconnect" THEN Announced \ {xmac[x]} ELSE Announced
    BY <1>1, <1>12, <2>1
    DEF HandleConnect, HandleDisconnect, Send, Retire, ReceiveDownlink, Take, TypeOK, Announced, recordVars
  <2>3. AfterHandler(x)' = AfterHandler(x)
    BY <2>2 DEF AfterHandler
  <2>4. AfterForward(x)' = AfterForward(x)
    BY <2>2, <2>3 DEF AfterForward
  <2> QED BY <1>3, <2>2, <2>4
<1>13. ~\E y, z \in Handlers : Watchdog(y, z)
  BY DEF Watchdog
<1>14. CASE UNCHANGED vars
  BY <1>4, <1>14 DEF vars, exchangeVars, recordVars, Announced
<1>15. ASSUME NEW m \in Macs, ConnectGateway(m) PROVE UNCHANGED <<table, xpc, xmac, fwd, Announced>>
  BY <1>15 DEF ConnectGateway, Announced
<1> QED
  BY <1>4, <1>5, <1>6, <1>7, <1>8, <1>9, <1>10, <1>11, <1>12, <1>13, <1>14, <1>15 DEF Next

\* With one handler that was never replaced, the exchange's connected gateways
\* are those of the table, and those it keeps for another reason, once every
\* message has been handled: announcements are neither lost nor overtaken on the
\* way to it (exchange.go:33, 193-196, 261-268).
THEOREM OneHandlerAgrees == Spec => []QuietAgrees
<1>1. Init => AgreeInv
  <2> SUFFICES ASSUME Init, NEW x \in Started, Started = {x}
               PROVE  (\A y \in Handlers \ {x} : xpc[y] = "off") /\ table = AfterForward(x)
    BY DEF AgreeInv
  <2>1. x \in Handlers /\ xpc[x] = "idle" /\ fwd = NoMsg /\ table = {} /\ connected = {}
    BY StartedAssumption DEF Init
  <2> QED BY <2>1 DEF Init, AfterForward, AfterHandler, Announced
<1>2. TableInv /\ AgreeInv => QuietAgrees
  <2> SUFFICES ASSUME AgreeInv, Cardinality(Started) = 1, ~replaced, Handled
               PROVE  connected \ kept = table
    BY DEF QuietAgrees
  <2>1. PICK x : Started = {x}
    <3>1. IsFiniteSet(Started)
      BY StartedAssumption
    <3> QED BY <3>1, FS_Singleton
  <2>2. x \in Handlers /\ xpc[x] \notin {"connect", "disconnect"} /\ fwd = NoMsg
    BY <2>1, StartedAssumption DEF Handled
  <2> QED BY <2>1, <2>2 DEF AgreeInv, AfterForward, AfterHandler, Announced
<1> QED
  BY <1>1, <1>2, TableInit, TableStep, AgreeStep, PTL DEF Spec

-----------------------------------------------------------------------------
(* PacketRouting *)

\* The places of an activation whose channel is in the maps, per loop.
Mapped == [l \in Loops |->
  IF l = "uplink" THEN {"sub-status", "run", "handoff", "unsub-uplink"}
                  ELSE {"run", "handoff", "unsub-uplink", "unsub-status"}]

\* The places of one whose channel has yet to be made.
Unmade == [l \in Loops |->
  IF l = "uplink" THEN {"free", "sub-uplink"} ELSE {"free", "sub-uplink", "sub-status"}]

\* Types, with what the places of a loop and an activation say of its gateway.
RoutingTypeInv ==
  /\ RoutingTypeOK
  /\ \A l \in Loops : lpc[l] # "read" => lmsg[l] \in Gateways
  /\ \A l \in Loops : lpc[l] = "send" => lch[l] \in Acts
  /\ \A a \in Acts : apc[a] # "free" => act[a] \in Ids

\* A channel in the maps is that of an activation of the ID and is open; one
\* that has yet to be made is not closed.
MapShape ==
  /\ \A l \in Loops, i \in Ids :
       chan[l][i] # NoAct => /\ act[chan[l][i]] = i
                             /\ apc[chan[l][i]] \in Mapped[l]
                             /\ chan[l][i] \notin shut[l]
  /\ \A l \in Loops, a \in Acts : apc[a] \in Unmade[l] => a \notin shut[l]

\* A loop that sends holds the lock, and sends where the maps say.
LoopShape ==
  \A l \in Loops : lpc[l] = "send" => l \in readers /\ lch[l] = Target(l, lmsg[l])

\* Inductive: SendsOnTarget alone says nothing of channels nobody sends on yet.
RoutingInv == RoutingTypeInv /\ MapShape /\ LoopShape

\* Where a message goes is an activation, or nowhere.
LEMMA TargetType ==
  ASSUME RoutingTypeOK, NEW l \in Loops, NEW g \in Gateways PROVE Target(l, g) \in Acts \union {NoAct}
BY DEF RoutingTypeOK, Target, Ids

\* One entry of the maps is set.
LEMMA EntrySet ==
  ASSUME RoutingTypeOK, NEW l \in Loops, NEW i \in Ids, NEW v \in Acts \union {NoAct},
         chan' = [chan EXCEPT ![l][i] = v]
  PROVE  /\ chan' \in [Loops -> [Ids -> Acts \union {NoAct}]]
         /\ \A m \in Loops, j \in Ids : chan'[m][j] = IF m = l /\ j = i THEN v ELSE chan[m][j]
<1>1. chan' = [chan EXCEPT ![l] = [chan[l] EXCEPT ![i] = v]]
  OBVIOUS
<1>2. chan[l] \in [Ids -> Acts \union {NoAct}]
  BY DEF RoutingTypeOK
<1>3. [chan[l] EXCEPT ![i] = v] \in [Ids -> Acts \union {NoAct}]
  BY <1>2
<1> QED
  BY <1>1, <1>2, <1>3 DEF RoutingTypeOK

\* A step of subscribe or unsubscribe, made when no loop reads, sets the entry
\* of the gateway.
Sets(a, l, v) ==
  /\ act[a] \in Ids
  /\ readers = {}
  /\ chan' \in [Loops -> [Ids -> Acts \union {NoAct}]]
  /\ \A m \in Loops, j \in Ids : chan'[m][j] = IF m = l /\ j = act[a] THEN v ELSE chan[m][j]

LEMMA EntryStep ==
  ASSUME RoutingTypeInv, NEW a \in Acts
  PROVE  /\ SubscribeUplink(a) => Sets(a, "uplink", a)
         /\ SubscribeStatus(a) => Sets(a, "status", a)
         /\ UnsubscribeUplink(a) => Sets(a, "uplink", NoAct)
         /\ UnsubscribeStatus(a) => Sets(a, "status", NoAct)
<1>1. ASSUME NEW l \in Loops, NEW v \in Acts \union {NoAct}, act[a] \in Ids, readers = {},
             chan' = [chan EXCEPT ![l][act[a]] = v]
      PROVE  Sets(a, l, v)
  BY <1>1, EntrySet DEF Sets, RoutingTypeInv
<1>2. "uplink" \in Loops /\ "status" \in Loops
  BY DEF Loops
<1> QED
  BY <1>1, <1>2 DEF RoutingTypeInv, SubscribeUplink, SubscribeStatus, UnsubscribeUplink, UnsubscribeStatus,
                    Subscribe, Close, HasLock

\* Every step keeps the variables within their types.
LEMMA RoutingTypeStep == RoutingTypeInv /\ [RoutingNext]_routingVars => RoutingTypeInv'
<1> SUFFICES ASSUME RoutingTypeInv, [RoutingNext]_routingVars PROVE RoutingTypeInv'
  OBVIOUS
<1> USE NoActAssumption DEF RoutingTypeInv, RoutingTypeOK, loopVars
<1>0. "uplink" \in Loops /\ "status" \in Loops
  BY DEF Loops
<1>1. ASSUME NEW l \in Loops, NEW g \in Gateways, Arrive(l, g) PROVE RoutingTypeInv'
  BY <1>1 DEF Arrive
<1>2. ASSUME NEW l \in Loops, LookUp(l) PROVE RoutingTypeInv'
  <2>1. lmsg[l] \in Gateways /\ Target(l, lmsg[l]) \in Acts \union {NoAct}
    BY <1>2, TargetType DEF LookUp
  <2>2. CASE Target(l, lmsg[l]) = NoAct
    BY <1>2, <2>2 DEF LookUp
  <2>3. CASE Target(l, lmsg[l]) # NoAct
    BY <1>2, <2>1, <2>3 DEF LookUp
  <2> QED
    BY <2>2, <2>3
<1>3. ASSUME NEW l \in Loops, Deliver(l) PROVE RoutingTypeInv'
  BY <1>3 DEF Deliver
<1>4. ASSUME NEW a \in Acts, NEW i \in Ids, Spawn(a, i) PROVE RoutingTypeInv'
  BY <1>4 DEF Spawn, Ids
<1>5. ASSUME NEW a \in Acts, AskLock(a) \/ Handoff(a) \/ Disconnect(a) \/ Leave(a) PROVE RoutingTypeInv'
  BY <1>5 DEF AskLock, Handoff, Disconnect, Leave
<1>6. ASSUME NEW a \in Acts, SubscribeUplink(a) PROVE RoutingTypeInv'
  <2>1. chan' \in [Loops -> [Ids -> Acts \union {NoAct}]]
    BY <1>6, EntryStep DEF Sets
  <2> QED
    BY <1>6, <2>1 DEF SubscribeUplink, Subscribe
<1>7. ASSUME NEW a \in Acts, SubscribeStatus(a) PROVE RoutingTypeInv'
  <2>1. chan' \in [Loops -> [Ids -> Acts \union {NoAct}]]
    BY <1>7, EntryStep DEF Sets
  <2> QED
    BY <1>7, <2>1 DEF SubscribeStatus, Subscribe
<1>9. ASSUME NEW a \in Acts, UnsubscribeUplink(a) PROVE RoutingTypeInv'
  <2>1. chan' \in [Loops -> [Ids -> Acts \union {NoAct}]] /\ act[a] \in Ids
    BY <1>9, EntryStep DEF Sets
  <2>2. chan["uplink"][act[a]] \in Acts \union {NoAct}
    BY <1>0, <2>1
  <2>3. shut' \in [Loops -> SUBSET Acts]
    BY <1>0, <1>9, <2>2 DEF UnsubscribeUplink
  <2> QED
    BY <1>9, <2>1, <2>3 DEF UnsubscribeUplink, Close
<1>10. ASSUME NEW a \in Acts, UnsubscribeStatus(a) PROVE RoutingTypeInv'
  <2>1. chan' \in [Loops -> [Ids -> Acts \union {NoAct}]] /\ act[a] \in Ids
    BY <1>10, EntryStep DEF Sets
  <2>2. shut' \in [Loops -> SUBSET Acts]
    <3>1. ASSUME NEW l \in Loops
          PROVE (shut[l] \union (IF l = "status" THEN {chan[l][act[a]]} ELSE {})) \ {a, NoAct} \in SUBSET Acts
      BY <2>1
    <3> QED
      BY <1>10, <3>1 DEF UnsubscribeStatus
  <2> QED
    BY <1>10, <2>1, <2>2 DEF UnsubscribeStatus, Close
<1>8. CASE UNCHANGED routingVars
  BY <1>8 DEF routingVars
<1> HIDE DEF RoutingTypeInv
<1> QED
  BY <1>1, <1>2, <1>3, <1>4, <1>5, <1>6, <1>7, <1>8, <1>9, <1>10 DEF RoutingNext

\* The places of an activation whose channel is in a map, or has yet to be made.
LEMMA Places ==
  /\ Mapped["uplink"] = {"sub-status", "run", "handoff", "unsub-uplink"}
  /\ Mapped["status"] = {"run", "handoff", "unsub-uplink", "unsub-status"}
  /\ Unmade["uplink"] = {"free", "sub-uplink"}
  /\ Unmade["status"] = {"free", "sub-uplink", "sub-status"}
  /\ "uplink" \in Loops /\ "status" \in Loops /\ "uplink" # "status"
  /\ \A l \in Loops : l = "uplink" \/ l = "status"
BY DEF Mapped, Unmade, Loops

\* Steps that leave the maps and the closed channels alone.
LEMMA MapStays ==
  ASSUME RoutingTypeInv, MapShape, chan' = chan, shut' = shut,
         \A a \in Acts : \/ apc'[a] = apc[a] /\ act'[a] = act[a]
                         \/ apc[a] = "free" /\ apc'[a] = "sub-uplink"
                         \/ /\ apc[a] \in {"run", "handoff"} /\ apc'[a] \in {"run", "handoff", "unsub-uplink"}
                            /\ act'[a] = act[a]
  PROVE  MapShape'
<1> USE DEF MapShape
<1>1. ASSUME NEW l \in Loops, NEW i \in Ids, chan[l][i] # NoAct
      PROVE  act'[chan[l][i]] = i /\ apc'[chan[l][i]] \in Mapped[l]
  <2>1. chan[l][i] \in Acts
    BY <1>1 DEF RoutingTypeInv, RoutingTypeOK
  <2>2. apc[chan[l][i]] # "free"
    BY <1>1, Places
  <2> QED
    BY <1>1, <2>1, <2>2, Places
<1>2. ASSUME NEW l \in Loops, NEW a \in Acts, apc'[a] \in Unmade[l] PROVE a \notin shut[l]
  <2>1. apc[a] \in Unmade[l]
    BY <1>2, Places
  <2> QED
    BY <2>1
<1> QED
  BY <1>1, <1>2

\* Every step keeps the maps to open channels of activations of the ID.
LEMMA MapStep == RoutingInv /\ [RoutingNext]_routingVars => MapShape'
<1> SUFFICES ASSUME RoutingInv, [RoutingNext]_routingVars PROVE MapShape'
  OBVIOUS
<1>0. RoutingTypeInv /\ MapShape
  BY DEF RoutingInv
<1>t. apc \in [Acts -> {"free", "sub-uplink", "sub-status", "run", "handoff", "unsub-uplink", "unsub-status"}]
      /\ act \in [Acts -> Ids \union {NoGateway}] /\ shut \in [Loops -> SUBSET Acts]
      /\ chan \in [Loops -> [Ids -> Acts \union {NoAct}]]
  BY <1>0 DEF RoutingTypeInv, RoutingTypeOK
<1>1. CASE (\E l \in Loops : LookUp(l) \/ \E g \in Gateways : Arrive(l, g)) \/ (\E a \in Acts : AskLock(a) \/ Disconnect(a))
  <2>1. chan' = chan /\ shut' = shut /\ apc' = apc /\ act' = act
    BY <1>1 DEF LookUp, Arrive, AskLock, Disconnect
  <2> QED
    BY <1>0, <2>1, MapStays
<1>2. ASSUME NEW l \in Loops, Deliver(l) PROVE MapShape'
  BY <1>0, <1>t, <1>2, MapStays DEF Deliver
<1>3. ASSUME NEW a \in Acts, NEW i \in Ids, Spawn(a, i) PROVE MapShape'
  BY <1>0, <1>t, <1>3, MapStays DEF Spawn
<1>4. ASSUME NEW a \in Acts, Handoff(a) \/ Leave(a) PROVE MapShape'
  BY <1>0, <1>t, <1>4, MapStays DEF Handoff, Leave
<1>5. ASSUME NEW a \in Acts, SubscribeUplink(a) PROVE MapShape'
  <2>1. Sets(a, "uplink", a) /\ apc[a] = "sub-uplink" /\ apc'[a] = "sub-status" /\ \A b \in Acts \ {a} : apc'[b] = apc[b]
    BY <1>0, <1>t, <1>5, EntryStep DEF SubscribeUplink, Subscribe
  <2>2. shut' = shut /\ act' = act
    BY <1>5 DEF SubscribeUplink, Subscribe
  <2>3. ASSUME NEW l \in Loops, NEW i \in Ids, chan'[l][i] # NoAct
        PROVE  act'[chan'[l][i]] = i /\ apc'[chan'[l][i]] \in Mapped[l] /\ chan'[l][i] \notin shut'[l]
    <3>1. CASE l = "uplink" /\ i = act[a]
      BY <1>0, <1>t, <2>1, <2>2, <3>1, Places DEF Sets, MapShape
    <3>2. CASE ~(l = "uplink" /\ i = act[a])
      <4>1. chan'[l][i] = chan[l][i] /\ chan[l][i] \in Acts
        BY <1>0, <1>t, <2>1, <2>3, <3>2 DEF Sets
      <4>2. apc[chan[l][i]] \in Mapped[l]
        BY <1>0, <2>3, <4>1 DEF MapShape
      <4>3. chan[l][i] # a
        BY <2>1, <4>2, Places
      <4> QED
        BY <1>0, <2>1, <2>2, <2>3, <4>1, <4>2, <4>3 DEF MapShape
    <3> QED
      BY <3>1, <3>2
  <2>4. ASSUME NEW l \in Loops, NEW b \in Acts, apc'[b] \in Unmade[l] PROVE b \notin shut'[l]
    BY <1>0, <1>t, <2>1, <2>2, <2>4, Places DEF MapShape
  <2> QED
    BY <2>3, <2>4 DEF MapShape
<1>6. ASSUME NEW a \in Acts, SubscribeStatus(a) PROVE MapShape'
  <2>1. Sets(a, "status", a) /\ apc[a] = "sub-status" /\ apc'[a] = "run" /\ \A b \in Acts \ {a} : apc'[b] = apc[b]
    BY <1>0, <1>t, <1>6, EntryStep DEF SubscribeStatus, Subscribe
  <2>2. shut' = shut /\ act' = act
    BY <1>6 DEF SubscribeStatus, Subscribe
  <2>3. ASSUME NEW l \in Loops, NEW i \in Ids, chan'[l][i] # NoAct
        PROVE  act'[chan'[l][i]] = i /\ apc'[chan'[l][i]] \in Mapped[l] /\ chan'[l][i] \notin shut'[l]
    <3>1. CASE l = "status" /\ i = act[a]
      BY <1>0, <1>t, <2>1, <2>2, <3>1, Places DEF Sets, MapShape
    <3>2. CASE ~(l = "status" /\ i = act[a])
      <4>1. chan'[l][i] = chan[l][i] /\ chan[l][i] \in Acts /\ (chan[l][i] = a => l = "uplink")
        BY <1>0, <1>t, <2>1, <2>3, <3>2, Places DEF Sets, MapShape
      <4> QED
        BY <1>0, <1>t, <2>1, <2>2, <2>3, <4>1, Places DEF MapShape
    <3> QED
      BY <3>1, <3>2
  <2>4. ASSUME NEW l \in Loops, NEW b \in Acts, apc'[b] \in Unmade[l] PROVE b \notin shut'[l]
    BY <1>0, <1>t, <2>1, <2>2, <2>4, Places DEF MapShape
  <2> QED
    BY <2>3, <2>4 DEF MapShape
<1>7. ASSUME NEW a \in Acts, UnsubscribeUplink(a) PROVE MapShape'
  <2>1. Sets(a, "uplink", NoAct) /\ apc[a] = "unsub-uplink" /\ apc'[a] = "unsub-status" /\ \A b \in Acts \ {a} : apc'[b] = apc[b]
    BY <1>0, <1>t, <1>7, EntryStep DEF UnsubscribeUplink, Subscribe
  <2>2. act' = act /\ \A l \in Loops : shut'[l] = shut[l] \union (IF l = "uplink" THEN {chan[l][act[a]]} \ {NoAct} ELSE {})
    BY <1>t, <1>7, Places DEF UnsubscribeUplink
  <2>3. ASSUME NEW l \in Loops, NEW i \in Ids, chan'[l][i] # NoAct
        PROVE  act'[chan'[l][i]] = i /\ apc'[chan'[l][i]] \in Mapped[l] /\ chan'[l][i] \notin shut'[l]
    <3>1. ~(l = "uplink" /\ i = act[a]) /\ chan'[l][i] = chan[l][i] /\ chan[l][i] \in Acts
      BY <1>0, <1>t, <2>1, <2>3 DEF Sets
    <3>2. act[chan[l][i]] = i /\ apc[chan[l][i]] \in Mapped[l] /\ chan[l][i] \notin shut[l]
      BY <1>0, <2>3, <3>1 DEF MapShape
    <3>3. l = "uplink" => chan[l][i] # chan[l][act[a]]
      BY <1>0, <2>1, <2>3, <3>1, <3>2 DEF MapShape, Sets
    <3> QED
      BY <1>t, <2>1, <2>2, <3>1, <3>2, <3>3, Places
  <2>4. ASSUME NEW l \in Loops, NEW b \in Acts, apc'[b] \in Unmade[l] PROVE b \notin shut'[l]
    <3>1. apc[b] \in Unmade[l] /\ b \notin shut[l]
      BY <1>0, <1>t, <2>1, <2>4, Places DEF MapShape
    <3>2. chan["uplink"][act[a]] # NoAct => apc[chan["uplink"][act[a]]] \in Mapped["uplink"]
      BY <1>0, <2>1, Places DEF MapShape, Sets
    <3> QED
      BY <2>2, <3>1, <3>2, Places
  <2> QED
    BY <2>3, <2>4 DEF MapShape
<1>8. ASSUME NEW a \in Acts, UnsubscribeStatus(a) PROVE MapShape'
  <2>1. Sets(a, "status", NoAct) /\ apc[a] = "unsub-status" /\ apc'[a] = "free" /\ \A b \in Acts \ {a} : apc'[b] = apc[b]
    BY <1>0, <1>t, <1>8, EntryStep DEF UnsubscribeStatus, Subscribe
  <2>2. /\ act' = [act EXCEPT ![a] = NoGateway]
        /\ \A l \in Loops : shut'[l] = (shut[l] \union (IF l = "status" THEN {chan[l][act[a]]} ELSE {})) \ {a, NoAct}
    BY <1>8 DEF UnsubscribeStatus
  <2>3. ASSUME NEW l \in Loops, NEW i \in Ids, chan'[l][i] # NoAct
        PROVE  act'[chan'[l][i]] = i /\ apc'[chan'[l][i]] \in Mapped[l] /\ chan'[l][i] \notin shut'[l]
    <3>1. ~(l = "status" /\ i = act[a]) /\ chan'[l][i] = chan[l][i] /\ chan[l][i] \in Acts
      BY <1>0, <1>t, <2>1, <2>3 DEF Sets
    <3>2. act[chan[l][i]] = i /\ apc[chan[l][i]] \in Mapped[l] /\ chan[l][i] \notin shut[l]
      BY <1>0, <2>3, <3>1 DEF MapShape
    <3>3. chan[l][i] # a /\ (l = "status" => chan[l][i] # chan[l][act[a]])
      BY <1>0, <2>1, <2>3, <3>1, <3>2, Places DEF MapShape, Sets
    <3> QED
      BY <1>t, <2>1, <2>2, <3>1, <3>2, <3>3, Places
  <2>4. ASSUME NEW l \in Loops, NEW b \in Acts, apc'[b] \in Unmade[l] PROVE b \notin shut'[l]
    <3>1. CASE b = a
      BY <2>2, <3>1
    <3>2. CASE b # a
      <4>1. apc[b] \in Unmade[l] /\ b \notin shut[l]
        BY <1>0, <1>t, <2>1, <2>4, <3>2 DEF MapShape
      <4>2. chan["status"][act[a]] # NoAct => apc[chan["status"][act[a]]] \in Mapped["status"]
        BY <1>0, <2>1, Places DEF MapShape, Sets
      <4> QED
        BY <2>2, <3>2, <4>1, <4>2, Places, NoActAssumption
    <3> QED
      BY <3>1, <3>2
  <2> QED
    BY <2>3, <2>4 DEF MapShape
<1>9. CASE UNCHANGED routingVars
  <2>1. chan' = chan /\ shut' = shut /\ apc' = apc /\ act' = act
    BY <1>9 DEF routingVars
  <2> QED
    BY <1>0, <2>1, MapStays
<1> QED
  BY <1>1, <1>2, <1>3, <1>4, <1>5, <1>6, <1>7, <1>8, <1>9 DEF RoutingNext

\* While a loop sends the maps stay: they change only when no loop reads.
LEMMA LoopStep == RoutingInv /\ [RoutingNext]_routingVars => LoopShape'
<1> SUFFICES ASSUME RoutingInv, [RoutingNext]_routingVars PROVE LoopShape'
  OBVIOUS
<1>0. RoutingTypeInv /\ LoopShape
  BY DEF RoutingInv
<1>t. lpc \in [Loops -> {"read", "lock", "send"}] /\ lmsg \in [Loops -> Gateways \union {NoGateway}]
      /\ lch \in [Loops -> Acts \union {NoAct}] /\ readers \subseteq Loops
  BY <1>0 DEF RoutingTypeInv, RoutingTypeOK
<1> USE DEF LoopShape, Target, loopVars
<1>1. ASSUME NEW l \in Loops, NEW g \in Gateways, Arrive(l, g) PROVE LoopShape'
  BY <1>0, <1>t, <1>1 DEF Arrive
<1>2. ASSUME NEW l \in Loops, LookUp(l) PROVE LoopShape'
  BY <1>0, <1>t, <1>2 DEF LookUp
<1>3. ASSUME NEW l \in Loops, Deliver(l) PROVE LoopShape'
  BY <1>0, <1>t, <1>3 DEF Deliver
<1>4. CASE \E a \in Acts : AskLock(a) \/ Handoff(a) \/ Disconnect(a) \/ Leave(a) \/ \E i \in Ids : Spawn(a, i)
  BY <1>0, <1>4 DEF AskLock, Handoff, Disconnect, Leave, Spawn
<1>5. ASSUME NEW a \in Acts, SubscribeUplink(a) \/ SubscribeStatus(a) \/ UnsubscribeUplink(a) \/ UnsubscribeStatus(a)
      PROVE  LoopShape'
  <2>1. readers = {} /\ lpc' = lpc
    BY <1>5 DEF SubscribeUplink, SubscribeStatus, Subscribe, UnsubscribeUplink, UnsubscribeStatus, Close, HasLock
  <2> QED
    BY <1>0, <2>1
<1>6. CASE UNCHANGED routingVars
  BY <1>0, <1>6 DEF routingVars
<1> QED
  BY <1>1, <1>2, <1>3, <1>4, <1>5, <1>6 DEF RoutingNext

\* The loops, the maps and the activations are well formed (pktfwd.go).
THEOREM RoutingTypeCorrect == RoutingSpec => []RoutingTypeOK
<1>1. RoutingInit => RoutingTypeInv
  BY DEF RoutingInit, RoutingTypeInv, RoutingTypeOK
<1>2. RoutingTypeInv => RoutingTypeOK
  BY DEF RoutingTypeInv
<1> QED
  BY <1>1, <1>2, RoutingTypeStep, PTL DEF RoutingSpec

\* A loop never sends on a closed channel, nor on one that the maps no longer
\* name for its message, however activations of one gateway overlap
\* (pktfwd.go:52-66, 126-170).
THEOREM SentOnTarget == RoutingSpec => []SendsOnTarget
<1>1. RoutingInit => RoutingInv
  BY NoActAssumption DEF RoutingInit, RoutingInv, RoutingTypeInv, RoutingTypeOK, MapShape, LoopShape, Unmade, Loops
<1>2. RoutingInv /\ [RoutingNext]_routingVars => RoutingInv'
  BY RoutingTypeStep, MapStep, LoopStep DEF RoutingInv
<1>3. RoutingInv => SendsOnTarget
  <2> SUFFICES ASSUME RoutingInv, NEW l \in Loops, lpc[l] = "send"
               PROVE  lch[l] \notin shut[l] /\ lch[l] = Target(l, lmsg[l])
    BY DEF SendsOnTarget
  <2>1. lch[l] = Target(l, lmsg[l]) /\ lch[l] \in Acts /\ lmsg[l] \in Gateways
    BY DEF RoutingInv, LoopShape, RoutingTypeInv
  <2>2. \E i \in Ids : lch[l] = chan[l][i]
    BY <2>1 DEF Target, Ids
  <2> QED
    BY <2>1, <2>2, NoActAssumption DEF RoutingInv, MapShape
<1> QED
  BY <1>1, <1>2, <1>3, PTL DEF RoutingSpec
=============================================================================
