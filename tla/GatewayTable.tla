---------------------------- MODULE GatewayTable ----------------------------
(***************************************************************************)
(* The packet forwarder's gateway table (backend/pktfwd/backend.go) and    *)
(* the goroutines that meet on its lock: the handlers of PULL_DATA         *)
(* packets, the cleanup loop, the exchange's subscribeSouthbound, and the  *)
(* handler goroutines of the exchange with the watchdog that replaces one  *)
(* that is stuck (exchange/exchange.go, exchange/watchdog.go).             *)
(*                                                                         *)
(* A new gateway is announced while the table is locked: set() holds the   *)
(* lock until subscribeSouthbound has taken the message, which it does     *)
(* once a worker has taken the one before; and a worker that sends a       *)
(* downlink waits for the lock.                                            *)
(***************************************************************************)
EXTENDS Naturals, FiniteSets

CONSTANTS
  Macs,      \* gateways
  Pulls,     \* goroutines of readPackets that handle a PULL_DATA packet
  Handlers,  \* slots for handler goroutines: those of Start and their replacements
  Started,   \* the handlers that Start starts
  Cleaner,   \* the cleanup goroutine
  NoMac, NoMsg, Nobody

ASSUME StartedAssumption == /\ Started \subseteq Handlers /\ Started # {}
                            /\ IsFiniteSet(Started) \* Start(n) starts n
ASSUME TableNullAssumption == /\ NoMac \notin Macs
                              /\ Cleaner \notin Pulls
                              /\ Nobody \notin Pulls \union {Cleaner}

Messages == [kind : {"connect", "disconnect"}, mac : Macs]

ASSUME NoMsgAssumption == NoMsg \notin Messages

VARIABLES
  table, fresh, \* gateways.gateways, and those seen within the session
  holder,       \* who holds the table's write lock
  ppc, pmac,    \* per PULL_DATA goroutine: where it is, and its gateway
  cpc, todo, cmac, \* the cleanup goroutine: its place, the entries to visit, the one in hand
  fwd,          \* the message subscribeSouthbound is sending to a worker
  xpc, xmac,    \* per handler goroutine: where it is, and the gateway in hand
  retired,      \* handlers the watchdog gave up: they end at their next select
  connected,    \* the exchange's set of connected gateways
  onRecord,     \* gateways found in Redis that ConnectGateway has yet to connect
  kept,         \* history: gateways connected for another reason than their last
                \* announcement: from the record, or as their disconnect message was refused
  replaced      \* history: whether the watchdog ever started another handler

pullVars == <<ppc, pmac>>
cleanVars == <<cpc, todo, cmac>>
recordVars == <<onRecord, kept>>
exchangeVars == <<xpc, xmac, retired, connected, recordVars, replaced>>
vars == <<table, fresh, holder, pullVars, cleanVars, fwd, exchangeVars>>

Init ==
  /\ table = {} /\ fresh = {}
  /\ holder = Nobody
  /\ ppc = [p \in Pulls |-> "none"] /\ pmac = [p \in Pulls |-> NoMac]
  /\ cpc = "sleep" /\ todo = {} /\ cmac = NoMac
  /\ fwd = NoMsg
  /\ xpc = [x \in Handlers |-> IF x \in Started THEN "idle" ELSE "off"]
  /\ xmac = [x \in Handlers |-> NoMac]
  /\ retired = {}
  /\ connected = {} /\ onRecord \in SUBSET Macs /\ kept = {}
  /\ replaced = FALSE

-----------------------------------------------------------------------------
(* PULL_DATA: gateways.set, the acknowledgement is sent after it *)

PullArrives(p, m) ==
  /\ ppc[p] = "none"
  /\ ppc' = [ppc EXCEPT ![p] = "lock"]
  /\ pmac' = [pmac EXCEPT ![p] = m]
  /\ UNCHANGED <<table, fresh, holder, cleanVars, fwd, exchangeVars>>

\* Mutant: the lock is released before onNew is called.
SetUnlocked(p) ==
  /\ ppc[p] = "lock"
  /\ holder = Nobody
  /\ IF pmac[p] \in table
       THEN /\ fresh' = fresh \union {pmac[p]}
            /\ ppc' = [ppc EXCEPT ![p] = "none"]
            /\ pmac' = [pmac EXCEPT ![p] = NoMac]
       ELSE ppc' = [ppc EXCEPT ![p] = "announce"] /\ UNCHANGED <<fresh, pmac>>
  /\ UNCHANGED <<table, holder, cleanVars, fwd, exchangeVars>>

\* The goroutine has the lock: a known gateway is updated and the lock
\* released, a new one is announced first.
SetLock(p) ==
  /\ ppc[p] = "lock"
  /\ holder = Nobody
  /\ IF pmac[p] \in table
       THEN /\ fresh' = fresh \union {pmac[p]}
            /\ ppc' = [ppc EXCEPT ![p] = "none"]
            /\ pmac' = [pmac EXCEPT ![p] = NoMac]
            /\ UNCHANGED holder
       ELSE /\ holder' = p
            /\ ppc' = [ppc EXCEPT ![p] = "announce"]
            /\ UNCHANGED <<fresh, pmac>>
  /\ UNCHANGED <<table, cleanVars, fwd, exchangeVars>>

\* onNew's send meets subscribeSouthbound; the entry is stored, the lock released.
AnnounceNew(p) ==
  /\ ppc[p] = "announce"
  /\ fwd = NoMsg
  /\ fwd' = [kind |-> "connect", mac |-> pmac[p]]
  /\ table' = table \union {pmac[p]}
  /\ fresh' = fresh \union {pmac[p]}
  /\ holder' = Nobody
  /\ ppc' = [ppc EXCEPT ![p] = "none"]
  /\ pmac' = [pmac EXCEPT ![p] = NoMac]
  /\ UNCHANGED <<cleanVars, exchangeVars>>

-----------------------------------------------------------------------------
(* cleanup, once a minute *)

\* The session of a gateway that was not heard of runs out.
Expire(m) ==
  /\ m \in fresh
  /\ fresh' = fresh \ {m}
  /\ UNCHANGED <<table, holder, pullVars, cleanVars, fwd, exchangeVars>>

CleanupLock ==
  /\ cpc = "sleep"
  /\ holder = Nobody
  /\ holder' = Cleaner
  /\ cpc' = "scan"
  /\ todo' = table
  /\ UNCHANGED <<table, fresh, pullVars, cmac, fwd, exchangeVars>>

\* Mutant: the visit of an expired gateway forgets it, as if it were fresh.
VisitSkips(m) ==
  /\ cpc = "scan"
  /\ m \in todo
  /\ todo' = todo \ {m}
  /\ UNCHANGED <<table, fresh, holder, pullVars, cpc, cmac, fwd, exchangeVars>>

\* The range over the map visits every entry once, in any order.
CleanupVisit(m) ==
  /\ cpc = "scan"
  /\ m \in todo
  /\ todo' = todo \ {m}
  /\ IF m \in fresh THEN UNCHANGED <<cpc, cmac>>
                    ELSE cpc' = "announce" /\ cmac' = m
  /\ UNCHANGED <<table, fresh, holder, pullVars, fwd, exchangeVars>>

\* Mutant: the entry is deleted without onDelete.
AnnounceNothing ==
  /\ cpc = "announce"
  /\ table' = table \ {cmac}
  /\ cpc' = "scan" /\ cmac' = NoMac
  /\ UNCHANGED <<fresh, holder, pullVars, todo, fwd, exchangeVars>>

\* onDelete's send meets subscribeSouthbound, then the entry is deleted.
AnnounceExpired ==
  /\ cpc = "announce"
  /\ fwd = NoMsg
  /\ fwd' = [kind |-> "disconnect", mac |-> cmac]
  /\ table' = table \ {cmac}
  /\ cpc' = "scan" /\ cmac' = NoMac
  /\ UNCHANGED <<fresh, holder, pullVars, todo, exchangeVars>>

CleanupUnlock ==
  /\ cpc = "scan"
  /\ todo = {}
  /\ holder' = Nobody
  /\ cpc' = "sleep"
  /\ UNCHANGED <<table, fresh, pullVars, todo, cmac, fwd, exchangeVars>>

-----------------------------------------------------------------------------
(* The handler goroutines of the exchange *)

Take(x, pc, m) == xpc' = [xpc EXCEPT ![x] = pc] /\ xmac' = [xmac EXCEPT ![x] = m]

\* subscribeSouthbound's send on b.connect or b.disconnect meets a handler.
Receive(x) ==
  /\ xpc[x] = "idle"
  /\ fwd # NoMsg
  /\ Take(x, fwd.kind, fwd.mac)
  /\ fwd' = NoMsg
  /\ UNCHANGED <<table, fresh, holder, pullVars, cleanVars, retired, connected, recordVars, replaced>>

\* gateways.Add, then the middleware: if it refuses the message, the gateway has no
\* activations but stays in the set.
HandleConnect(x) ==
  /\ xpc[x] = "connect"
  /\ connected' = connected \union {xmac[x]}
  /\ kept' = kept \ {xmac[x]}
  /\ Take(x, "idle", NoMac)
  /\ UNCHANGED <<table, fresh, holder, pullVars, cleanVars, fwd, retired, onRecord, replaced>>

\* ValidateKey finds a key on record (the message has none), or the middleware takes
\* too long: the gateway stays.
HandleDisconnect(x) ==
  LET m == xmac[x] IN
  /\ xpc[x] = "disconnect"
  /\ \/ connected' = connected \ {m} /\ kept' = kept \ {m}
     \/ m \in connected /\ UNCHANGED connected /\ kept' = kept \union {m}
  /\ Take(x, "idle", NoMac)
  /\ UNCHANGED <<table, fresh, holder, pullVars, cleanVars, fwd, retired, onRecord, replaced>>

\* ConnectGateway, beside the handlers.
ConnectGateway(m) ==
  /\ m \in onRecord
  /\ onRecord' = onRecord \ {m}
  /\ IF m \in connected
       THEN UNCHANGED <<connected, kept>>
       ELSE connected' = connected \union {m} /\ kept' = kept \union {m}
  /\ UNCHANGED <<table, fresh, holder, pullVars, cleanVars, fwd, xpc, xmac, retired, replaced>>

\* A downlink arrives. Bound: the last free slot is kept for a replacement,
\* that is, of |Handlers| handlers in a row not all take a downlink.
ReceiveDownlink(x, m) ==
  /\ xpc[x] = "idle"
  /\ \E y \in Handlers : xpc[y] = "off"
  /\ Take(x, "downlink", m)
  /\ UNCHANGED <<table, fresh, holder, pullVars, cleanVars, fwd, retired, connected, recordVars, replaced>>

\* PublishDownlink: Send reads the table (gateways.get), found or not.
Send(x) ==
  /\ xpc[x] = "downlink"
  /\ holder = Nobody
  /\ Take(x, "idle", NoMac)
  /\ UNCHANGED <<table, fresh, holder, pullVars, cleanVars, fwd, retired, connected, recordVars, replaced>>

\* Mutant: the stuck handler is logged, and waited for.
WatchdogLogs(x, y) ==
  /\ xpc[x] \in {"connect", "disconnect", "downlink"}
  /\ xpc[y] = "off"
  /\ UNCHANGED vars

\* The watchdog expires while the handler is busy: handleChannels returns the
\* error and Start's loop calls it again, which starts another handler.
Watchdog(x, y) ==
  /\ xpc[x] \in {"connect", "disconnect", "downlink"}
  /\ x \notin retired
  /\ xpc[y] = "off"
  /\ retired' = retired \union {x}
  /\ replaced' = TRUE
  /\ xpc' = [xpc EXCEPT ![y] = "idle"]
  /\ UNCHANGED <<table, fresh, holder, pullVars, cleanVars, fwd, xmac, connected, recordVars>>

\* A retired handler is back at its select and finds doneCh closed.
Retire(x) ==
  /\ x \in retired
  /\ xpc[x] = "idle"
  /\ xpc' = [xpc EXCEPT ![x] = "off"]
  /\ retired' = retired \ {x}
  /\ UNCHANGED <<table, fresh, holder, pullVars, cleanVars, fwd, xmac, connected, recordVars, replaced>>

-----------------------------------------------------------------------------
Next ==
  \/ \E p \in Pulls, m \in Macs : PullArrives(p, m)
  \/ \E p \in Pulls : SetLock(p) \/ AnnounceNew(p)
  \/ \E m \in Macs : Expire(m) \/ CleanupVisit(m) \/ ConnectGateway(m)
  \/ CleanupLock \/ AnnounceExpired \/ CleanupUnlock
  \/ \E x \in Handlers : Receive(x) \/ HandleConnect(x) \/ HandleDisconnect(x)
                         \/ Send(x) \/ Retire(x)
  \/ \E x \in Handlers, m \in Macs : ReceiveDownlink(x, m)
  \/ \E x, y \in Handlers : Watchdog(x, y)

Spec == Init /\ [][Next]_vars

\* A waiting goroutine gets a lock that is released again and again (Go's
\* mutexes hand over to a waiter that starves) and a channel send that is
\* possible again and again; the watchdog's timer expires.
Fairness ==
  /\ \A p \in Pulls : SF_vars(SetLock(p) \/ AnnounceNew(p))
  /\ SF_vars(CleanupLock \/ AnnounceExpired)
  /\ WF_vars((\E m \in Macs : CleanupVisit(m)) \/ CleanupUnlock)
  /\ SF_vars(\E x \in Handlers : Receive(x))
  /\ \A x \in Handlers :
       /\ SF_vars(Send(x)) /\ SF_vars(Retire(x))
       /\ WF_vars(HandleConnect(x) \/ HandleDisconnect(x))
       /\ WF_vars(\E y \in Handlers : Watchdog(x, y))

FairSpec == Spec /\ Fairness

-----------------------------------------------------------------------------
(* Properties *)

TypeOK ==
  /\ table \subseteq Macs /\ fresh \subseteq Macs
  /\ holder \in Pulls \union {Cleaner, Nobody}
  /\ ppc \in [Pulls -> {"none", "lock", "announce"}]
  /\ pmac \in [Pulls -> Macs \union {NoMac}]
  /\ cpc \in {"sleep", "scan", "announce"}
  /\ todo \subseteq Macs /\ cmac \in Macs \union {NoMac}
  /\ fwd \in Messages \union {NoMsg}
  /\ xpc \in [Handlers -> {"off", "idle", "connect", "disconnect", "downlink"}]
  /\ xmac \in [Handlers -> Macs \union {NoMac}]
  /\ retired \subseteq Handlers /\ connected \subseteq Macs
  /\ onRecord \subseteq Macs /\ kept \subseteq Macs
  /\ replaced \in BOOLEAN

\* A gateway is announced once when it enters the table and once when it
\* leaves: two goroutines never announce the same gateway, and what is being
\* announced is news (backend.go:69-96, the callbacks run under the lock).
AnnouncedOnce ==
  /\ \A p \in Pulls : ppc[p] = "announce" => pmac[p] \notin table
  /\ \A p, q \in Pulls : ppc[p] = "announce" /\ ppc[q] = "announce" => p = q
  /\ cpc = "announce" => cmac \in table /\ \A p \in Pulls : ppc[p] # "announce"

\* With one handler that was never replaced: once every message has been
\* handled, the exchange's connected gateways are those in the table ("until a
\* disconnection message is received", exchange.go:33) and those it keeps, which
\* are not in the table: from the record and not heard of since, or because their
\* disconnect message was refused (exchange.go:261-268). A handler that was
\* replaced while it connects a gateway may finish after its replacement has
\* dropped the gateway's disconnect message (exchange.go:193-196, 371-376).
Handled == fwd = NoMsg /\ \A x \in Handlers : xpc[x] \notin {"connect", "disconnect"}
QuietAgrees ==
  Cardinality(Started) = 1 /\ ~replaced /\ Handled => connected \ kept = table

\* Every PULL_DATA packet is handled, whatever waits on the table's lock.
PullHandled == \A p \in Pulls : ppc[p] # "none" ~> ppc[p] = "none"

\* A gateway whose session ran out leaves the table, or is heard of again.
ExpiredLeaves == \A m \in Macs : m \in table \ fresh ~> m \notin table \ fresh
=============================================================================
