--------------------------- MODULE MiddlewareProofs ---------------------------
(***************************************************************************)
(* What the middleware keeps of a gateway agrees with what was handled,    *)
(* and goes with the gateway, for any number of workers, gateways, limits  *)
(* and messages.                                                           *)
(***************************************************************************)
EXTENDS Middleware, TLAPS

-----------------------------------------------------------------------------
(* The chain and the goroutines that run it *)

\* What cmd.go's order comes to for the messages whose handlers keep something.
LEMMA Places ==
  /\ DOMAIN Chain = 1 .. 5
  /\ Chain[1] = "lorafilter" /\ Chain[2] = "blacklist" /\ Chain[3] = "deduplicate"
  /\ Chain[4] = "ratelimit" /\ Chain[5] = "gatewayinfo"
  /\ ChainFor("disconnect") = {3, 4, 5}
<1>1. DOMAIN Chain = 1 .. 5
  BY DEF Chain
<1>2. /\ Chain[1] = "lorafilter" /\ Chain[2] = "blacklist" /\ Chain[3] = "deduplicate"
      /\ Chain[4] = "ratelimit" /\ Chain[5] = "gatewayinfo"
  BY DEF Chain
<1>3. /\ Handles("lorafilter") = {"uplink"}
      /\ Handles("blacklist") = {"uplink", "status"}
      /\ Handles("deduplicate") = {"uplink", "disconnect"}
      /\ Handles("ratelimit") = Kinds
      /\ Handles("gatewayinfo") = {"connect", "disconnect", "status"}
  BY DEF Handles
<1>4. "disconnect" \in Kinds
  BY DEF Kinds
<1>5. \A n \in 1 .. 5 : "disconnect" \in Handles(Chain[n]) <=> n \in {3, 4, 5}
  <2>1. \A n \in 1 .. 5 : n \in {1, 2, 3, 4, 5}
    OBVIOUS
  <2> QED BY <1>2, <1>3, <1>4, <2>1
<1>6. ChainFor("disconnect") = {3, 4, 5}
  BY <1>1, <1>5 DEF ChainFor
<1> QED BY <1>1, <1>2, <1>6

\* The middleware that runs is that of the first place that is left.
LEMMA RunsPlace ==
  ASSUME NEW j \in Running, job[j].rest \subseteq DOMAIN Chain, NEW n \in 1 .. 5, Runs(j, Chain[n])
  PROVE  First(job[j].rest) = {n} /\ \A o \in job[j].rest : n <= o
<1>1. PICK p \in First(job[j].rest) : Chain[p] = Chain[n]
  BY DEF Runs
<1>2. p \in 1 .. 5 /\ \A o \in job[j].rest : p <= o
  BY <1>1, Places DEF First
<1>3. p = n
  <2>1. p \in {1, 2, 3, 4, 5} /\ n \in {1, 2, 3, 4, 5}
    BY <1>2
  <2> QED BY <1>1, <2>1, Places
<1>4. First(job[j].rest) = {n}
  BY <1>1, <1>2, <1>3, Places DEF First
<1> QED BY <1>2, <1>3, <1>4

\* What is in hand is well formed: the chain is its kind's, or what is left of it,
\* and only what is counted gets to the limits.
JobInv ==
  /\ job \in [Jobs -> JobType \union {None}]
  /\ \A j \in Running :
       /\ job[j].rest \subseteq ChainFor(job[j].kind)
       /\ job[j].kind = "uplink" => job[j].msg \in Uplinks
       /\ job[j].at # "start" => job[j].kind \in Counted
       /\ job[j].at = "count" => job[j].hold \in Limiters

\* What a step does to the other goroutines, and to the message it goes on with.
Others(j) == \A i \in Jobs \ {j} : job'[i] = job[i]
GoesOn(j) ==
  /\ job'[j] # None
  /\ job'[j].kind = job[j].kind /\ job'[j].gw = job[j].gw /\ job'[j].msg = job[j].msg

\* A handler returns without error.
LEMMA PassEffect ==
  ASSUME JobInv, NEW j \in Running, Pass(j)
  PROVE  /\ JobInv' /\ Others(j) /\ GoesOn(j)
         /\ job'[j].rest = job[j].rest \ First(job[j].rest)
         /\ job'[j].at = "start" /\ job'[j].waited = job[j].waited
<1> DEFINE J == job[j]
           r == J.rest \ First(J.rest)
           K == [J EXCEPT !.rest = r, !.at = "start", !.hold = None]
<1>1. j \in Jobs /\ J \in JobType
  BY DEF JobInv, Running
<1>2. job' = [job EXCEPT ![j].rest = r, ![j].at = "start", ![j].hold = None]
  BY DEF Pass
<1>3. job' = [job EXCEPT ![j] = K]
  BY <1>1, <1>2
<1>4. /\ K \in JobType /\ r \subseteq J.rest
      /\ K.kind = J.kind /\ K.gw = J.gw /\ K.msg = J.msg /\ K.rest = r
      /\ K.at = "start" /\ K.waited = J.waited
  BY <1>1 DEF JobType
<1> HIDE DEF K, r
<1>5. job'[j] = K /\ Others(j) /\ job' \in [Jobs -> JobType \union {None}] /\ K # None
  BY <1>1, <1>3, <1>4, MiddlewareJobAssumption DEF JobInv, Others
<1>6. \A i \in Running' : i = j \/ (i \in Running /\ job'[i] = job[i])
  BY <1>5 DEF Running, Others
<1>7. J.rest \subseteq ChainFor(J.kind) /\ (J.kind = "uplink" => J.msg \in Uplinks)
  BY DEF JobInv
<1>8. JobInv'
  BY <1>4, <1>5, <1>6, <1>7 DEF JobInv
<1> QED BY <1>4, <1>5, <1>8 DEF GoesOn, r

\* A handler returns an error, or the chain ends.
LEMMA RefuseEffect ==
  ASSUME JobInv, NEW j \in Running, Refuse(j)
  PROVE  JobInv' /\ Others(j) /\ job'[j] = None
<1>1. j \in Jobs
  BY DEF Running
<1>2. job'[j] = None /\ Others(j) /\ job' \in [Jobs -> JobType \union {None}]
  BY <1>1 DEF JobInv, Refuse, Others
<1>3. \A i \in Running' : i \in Running /\ job'[i] = job[i]
  BY <1>2 DEF Running, Others
<1>4. JobInv'
  BY <1>2, <1>3 DEF JobInv
<1> QED BY <1>2, <1>4

\* A message that is counted has found the limits it counts on.
LEMMA HoldEffect ==
  ASSUME JobInv, NEW j \in Running, job[j].kind \in Counted,
         NEW l \in Limiters, Hold(j, l)
  PROVE  /\ JobInv' /\ Others(j) /\ GoesOn(j)
         /\ job'[j].rest = job[j].rest /\ job'[j].waited = job[j].waited
         /\ job'[j].at = "count" /\ job'[j].hold = l
<1> DEFINE J == job[j]
           K == [J EXCEPT !.at = "count", !.hold = l]
<1>1. j \in Jobs /\ J \in JobType
  BY DEF JobInv, Running
<1>2. job' = [job EXCEPT ![j] = K]
  BY <1>1 DEF Hold
<1>3. /\ K \in JobType
      /\ K.kind = J.kind /\ K.gw = J.gw /\ K.msg = J.msg /\ K.rest = J.rest /\ K.waited = J.waited
      /\ K.at = "count" /\ K.hold = l
  BY <1>1 DEF JobType
<1> HIDE DEF K
<1>4. job'[j] = K /\ Others(j) /\ job' \in [Jobs -> JobType \union {None}] /\ K # None
  BY <1>1, <1>2, <1>3, MiddlewareJobAssumption DEF JobInv, Others
<1>5. \A i \in Running' : i = j \/ (i \in Running /\ job'[i] = job[i])
  BY <1>4 DEF Running, Others
<1>6. J.rest \subseteq ChainFor(J.kind) /\ (J.kind = "uplink" => J.msg \in Uplinks)
  BY DEF JobInv
<1>7. JobInv'
  BY <1>3, <1>4, <1>5, <1>6 DEF JobInv
<1> QED BY <1>2, <1>3, <1>4, <1>7 DEF GoesOn

\* It has found none, and asks for the lock that is held for writing.
LEMMA LockEffect ==
  ASSUME JobInv, NEW j \in Running, job[j].kind \in Counted,
         job' = [job EXCEPT ![j].at = "lock"]
  PROVE  /\ JobInv' /\ Others(j) /\ GoesOn(j)
         /\ job'[j].rest = job[j].rest /\ job'[j].waited = job[j].waited
         /\ job'[j].at = "lock"
<1> DEFINE J == job[j]
           K == [J EXCEPT !.at = "lock"]
<1>1. j \in Jobs /\ J \in JobType
  BY DEF JobInv, Running
<1>2. job' = [job EXCEPT ![j] = K]
  BY <1>1 DEF Hold
<1>3. /\ K \in JobType
      /\ K.kind = J.kind /\ K.gw = J.gw /\ K.msg = J.msg /\ K.rest = J.rest /\ K.waited = J.waited
      /\ K.at = "lock"
  BY <1>1 DEF JobType
<1> HIDE DEF K
<1>4. job'[j] = K /\ Others(j) /\ job' \in [Jobs -> JobType \union {None}] /\ K # None
  BY <1>1, <1>2, <1>3, MiddlewareJobAssumption DEF JobInv, Others
<1>5. \A i \in Running' : i = j \/ (i \in Running /\ job'[i] = job[i])
  BY <1>4 DEF Running, Others
<1>6. J.rest \subseteq ChainFor(J.kind) /\ (J.kind = "uplink" => J.msg \in Uplinks)
  BY DEF JobInv
<1>7. JobInv'
  BY <1>3, <1>4, <1>5, <1>6 DEF JobInv
<1> QED BY <1>2, <1>3, <1>4, <1>7 DEF GoesOn

\* A worker executes the chain for a message.
LEMMA ExecuteEffect ==
  ASSUME JobInv, NEW j \in Jobs, NEW kind \in Kinds, NEW g \in Gateways, NEW m \in Uplinks \union {None},
         kind = "uplink" => m \in Uplinks, Execute(j, kind, g, m)
  PROVE  /\ JobInv' /\ Others(j) /\ job[j] = None /\ job'[j] # None
         /\ job'[j].kind = kind /\ job'[j].gw = g /\ job'[j].msg = m
         /\ job'[j].rest = ChainFor(kind) /\ job'[j].at = "start" /\ job'[j].waited
<1> DEFINE K == [kind |-> kind, gw |-> g, msg |-> m, rest |-> ChainFor(kind),
                 at |-> "start", hold |-> None, waited |-> TRUE]
<1>1. ChainFor(kind) \subseteq DOMAIN Chain
  BY DEF ChainFor
<1>2. /\ K \in JobType /\ K.kind = kind /\ K.gw = g /\ K.msg = m /\ K.rest = ChainFor(kind)
      /\ K.at = "start" /\ K.waited
  BY <1>1 DEF JobType
<1>3. job' = [job EXCEPT ![j] = K] /\ job[j] = None
  BY DEF Execute
<1> HIDE DEF K
<1>4. job'[j] = K /\ Others(j) /\ job' \in [Jobs -> JobType \union {None}] /\ K # None
  BY <1>2, <1>3, MiddlewareJobAssumption DEF JobInv, Others
<1>5. \A i \in Running' : i = j \/ (i \in Running /\ job'[i] = job[i])
  BY <1>4 DEF Running, Others
<1>6. JobInv'
  BY <1>2, <1>4, <1>5 DEF JobInv
<1> QED BY <1>2, <1>3, <1>4, <1>6

\* A worker no longer waits.
LEMMA TimeoutEffect ==
  ASSUME JobInv, NEW j \in Running, job' = [job EXCEPT ![j].waited = FALSE]
  PROVE  JobInv' /\ Others(j) /\ GoesOn(j) /\ job'[j].rest = job[j].rest
<1> DEFINE J == job[j]
           K == [J EXCEPT !.waited = FALSE]
<1>1. j \in Jobs /\ J \in JobType
  BY DEF JobInv, Running
<1>2. job' = [job EXCEPT ![j] = K]
  BY <1>1
<1>3. /\ K \in JobType
      /\ K.kind = J.kind /\ K.gw = J.gw /\ K.msg = J.msg /\ K.rest = J.rest
      /\ K.at = J.at /\ K.hold = J.hold
  BY <1>1 DEF JobType
<1> HIDE DEF K
<1>4. job'[j] = K /\ Others(j) /\ job' \in [Jobs -> JobType \union {None}] /\ K # None
  BY <1>1, <1>2, <1>3, MiddlewareJobAssumption DEF JobInv, Others
<1>5. \A i \in Running' : i = j \/ (i \in Running /\ job'[i] = job[i])
  BY <1>4 DEF Running, Others
<1>6. JobInv'
  BY <1>3, <1>4, <1>5 DEF JobInv
<1> QED BY <1>3, <1>4, <1>6 DEF GoesOn

\* A step of the chain, by its effect on the goroutines: one starts, for a message
\* of a gateway with nothing in hand but what may be beside it; one goes on, its
\* worker waiting unless the chain takes too long; one ends.
Starts(j) ==
  /\ job[j] = None /\ job'[j] # None /\ job'[j].waited
  /\ job'[j].rest = ChainFor(job'[j].kind) /\ job'[j].at = "start"
  /\ "spelling" \in faults \/ job'[j].gw \in Names
  /\ \/ "parallel" \in faults
     \/ \A i \in InHand(job'[j].gw) : job[i].kind \in Counted /\ job'[j].kind \in Counted
WaitsOn(j) ==
  /\ GoesOn(j) /\ job'[j].rest \subseteq job[j].rest
  /\ \/ "timeout" \in faults
     \/ /\ job'[j].waited = job[j].waited
        /\ job'[j].at = "count" => LimitRead(j) \/ LimitMake(j)
JobEffect ==
  \/ UNCHANGED job
  \/ \E j \in Jobs : Others(j) /\ Starts(j)
  \/ \E j \in Running : Others(j) /\ (job'[j] = None \/ WaitsOn(j))

\* Every step has one of these effects.
LEMMA JobStep ==
  ASSUME JobInv, limits \in [Gateways -> Limiters \union {None}], [Next]_vars
  PROVE  JobInv' /\ JobEffect /\ faults' = faults
<1>0. UNCHANGED job => JobInv' /\ JobEffect
  BY DEF JobInv, JobEffect, Running
<1>1. ASSUME NEW j \in Running, Pass(j) \/ Refuse(j) PROVE JobInv' /\ JobEffect
  BY <1>1, PassEffect, RefuseEffect DEF JobEffect, WaitsOn
<1>2. ASSUME NEW j \in Jobs, NEW kind \in Kinds, NEW g \in Gateways, NEW m \in Uplinks \union {None},
             kind = "uplink" => m \in Uplinks, Execute(j, kind, g, m),
             "spelling" \in faults \/ g \in Names,
             "parallel" \in faults \/ \A i \in InHand(g) : job[i].kind \in Counted /\ kind \in Counted
      PROVE  JobInv' /\ JobEffect /\ faults' = faults
  <2>1. /\ JobInv' /\ Others(j) /\ job[j] = None /\ job'[j] # None
        /\ job'[j].kind = kind /\ job'[j].gw = g
        /\ job'[j].rest = ChainFor(kind) /\ job'[j].at = "start" /\ job'[j].waited
    BY <1>2, ExecuteEffect
  <2>2. Starts(j)
    BY <1>2, <2>1 DEF Starts
  <2> QED BY <1>2, <2>1, <2>2 DEF JobEffect, Execute
<1>3. ASSUME NEW j \in Jobs, NEW g \in Gateways, Connect(j, g) PROVE JobInv' /\ JobEffect /\ faults' = faults
  <2>1. "connect" \in Kinds
    BY DEF Kinds
  <2> QED BY <1>2, <1>3, <2>1 DEF Connect
<1>4. ASSUME NEW j \in Jobs, NEW g \in Gateways, Disconnect(j, g)
      PROVE  JobInv' /\ JobEffect /\ faults' = faults
  <2>1. "disconnect" \in Kinds
    BY DEF Kinds
  <2> QED BY <1>2, <1>4, <2>1 DEF Disconnect
<1>5. ASSUME NEW j \in Jobs, NEW g \in Gateways, NEW k \in Counted, NEW m \in Uplinks \union {None},
             Message(j, k, g, m)
      PROVE  JobInv' /\ JobEffect /\ faults' = faults
  <2>1. k \in Kinds
    BY DEF Kinds
  <2> QED BY <1>2, <1>5, <2>1 DEF Message
<1>6. ASSUME NEW j \in Jobs, Timeout(j) PROVE JobInv' /\ JobEffect /\ faults' = faults
  <2>1. j \in Running /\ "timeout" \in faults
    BY <1>6 DEF Timeout, Waiting
  <2> QED BY <1>6, <2>1, TimeoutEffect DEF Timeout, JobEffect, WaitsOn
<1>7. ASSUME NEW j \in Jobs, Finish(j) PROVE JobInv' /\ JobEffect /\ faults' = faults
  BY <1>1, <1>7 DEF Finish, Refuse
<1>8. ASSUME NEW j \in Jobs,
             \/ LoraFilter(j) \/ Check(j) \/ Deduplicate(j) \/ DeduplicateDisconnect(j)
             \/ LimitConnect(j) \/ LimitDisconnect(j) \/ Limit(j) \/ LimitFails(j)
             \/ Get(j) \/ InfoDisconnect(j)
      PROVE  JobInv' /\ JobEffect /\ faults' = faults
  <2>1. j \in Running /\ (Pass(j) \/ Refuse(j)) /\ faults' = faults
    BY <1>8 DEF LoraFilter, Check, Deduplicate, DeduplicateDisconnect, LimitConnect,
                LimitDisconnect, Limit, LimitFails, Get, InfoDisconnect, Runs
  <2> QED BY <1>1, <2>1
<1>9. ASSUME NEW j \in Jobs, LimitRead(j) PROVE JobInv' /\ JobEffect /\ faults' = faults
  <2>1. /\ j \in Running /\ job[j].kind \in Counted /\ job[j].gw \in Gateways
        /\ faults' = faults
    BY <1>9 DEF LimitRead, Runs, JobInv, JobType, Running
  <2>2. CASE limits[job[j].gw] # None
    <3>1. limits[job[j].gw] \in Limiters /\ Hold(j, limits[job[j].gw])
      BY <1>9, <2>1, <2>2 DEF LimitRead
    <3>2. JobInv' /\ Others(j) /\ WaitsOn(j)
      BY <1>9, <2>1, <3>1, HoldEffect DEF WaitsOn
    <3> QED BY <2>1, <3>2 DEF JobEffect
  <2>3. CASE limits[job[j].gw] = None
    <3>1. job' = [job EXCEPT ![j].at = "lock"]
      BY <1>9, <2>3 DEF LimitRead
    <3>2. JobInv' /\ Others(j) /\ WaitsOn(j)
      BY <1>9, <2>1, <3>1, LockEffect DEF WaitsOn
    <3> QED BY <2>1, <3>2 DEF JobEffect
  <2> QED BY <2>2, <2>3
<1>10. ASSUME NEW j \in Jobs, LimitMake(j) PROVE JobInv' /\ JobEffect /\ faults' = faults
  <2>1. /\ j \in Running /\ job[j].kind \in Counted /\ job[j].gw \in Gateways
        /\ faults' = faults
    BY <1>10 DEF LimitMake, Runs, JobInv, JobType, Running
  <2>2. PICK l \in Limiters : Hold(j, l)
    BY <1>10, <2>1 DEF LimitMake
  <2>3. JobInv' /\ Others(j) /\ WaitsOn(j)
    BY <1>10, <2>1, <2>2, HoldEffect DEF WaitsOn
  <2> QED BY <2>1, <2>3 DEF JobEffect
<1>11. ASSUME NEW g \in Gateways, ConnectGateway(g) \/ Fetched(g) \/ Unset(g) \/ Expire(g)
       PROVE  UNCHANGED job /\ faults' = faults
  BY <1>11 DEF ConnectGateway, Fetched, Unset, Expire
<1>12. ASSUME NEW l \in Lists, NEW contents \in SUBSET Names, Read(l, contents)
       PROVE  UNCHANGED job /\ faults' = faults
  BY <1>12 DEF Read
<1>13. CASE UNCHANGED vars
  BY <1>0, <1>13 DEF vars
<1> QED
  BY <1>0, <1>3, <1>4, <1>5, <1>6, <1>7, <1>8, <1>9, <1>10, <1>11, <1>12, <1>13 DEF Next

-----------------------------------------------------------------------------
(* Types *)

MiddlewareInv == TypeOK /\ JobInv

\* A running message's fields.
LEMMA RunningType ==
  ASSUME JobInv, NEW j \in Running
  PROVE  /\ j \in Jobs /\ job[j].kind \in Kinds /\ job[j].gw \in Gateways
         /\ job[j].rest \subseteq ChainFor(job[j].kind) /\ job[j].rest \subseteq DOMAIN Chain
         /\ job[j].kind = "uplink" => job[j].msg \in Uplinks
BY DEF JobInv, JobType, Running

\* New limits are not anybody's, and start at nothing.
LEMMA NewLimitsEffect ==
  ASSUME TypeOK, JobInv, NEW g \in Gateways, NEW l \in Limiters, NewLimits(g, l)
  PROVE  /\ limits' = [limits EXCEPT ![g] = l] /\ limits' \in [Gateways -> Limiters \union {None}]
         /\ count' = [count EXCEPT ![l] = NoneCounted] /\ count' \in [Limiters -> [Counted -> Nat]]
         /\ \A k \in Counted : NoneCounted[k] = 0
         /\ \A m \in Limiters, k \in Counted : count'[m][k] <= Limits[k]
         /\ \A h \in Gateways : limits[h] # l
         /\ \A j \in Running : job[j].hold # l
<1>1. NoneCounted \in [Counted -> Nat] /\ \A k \in Counted : NoneCounted[k] = 0
  BY DEF NoneCounted
<1>2. l \in FreeLimiters
  BY DEF NewLimits, NewLimiter
<1>3. /\ limits' = [limits EXCEPT ![g] = l] /\ limits' \in [Gateways -> Limiters \union {None}]
      /\ count' = [count EXCEPT ![l] = NoneCounted] /\ count' \in [Limiters -> [Counted -> Nat]]
  BY <1>1 DEF NewLimits, TypeOK
<1>4. \A m \in Limiters, k \in Counted : count'[m][k] <= Limits[k]
  <2>1. \A m \in Limiters \ {l} : count'[m] = count[m]
    BY <1>3 DEF TypeOK
  <2>2. count'[l] = NoneCounted
    BY <1>3 DEF TypeOK
  <2> QED BY <1>1, <2>1, <2>2, MiddlewareNumbersAssumption DEF TypeOK
<1> QED BY <1>1, <1>2, <1>3, <1>4 DEF FreeLimiters

\* A message that counts where there is room leaves no counter over its limit.
LEMMA CountInEffect ==
  ASSUME TypeOK, NEW J, J.hold \in Limiters, J.kind \in Counted, Room(J), CountIn(J)
  PROVE  /\ count' \in [Limiters -> [Counted -> Nat]]
         /\ \A m \in Limiters, k \in Counted :
              count[m][k] <= count'[m][k] /\ count'[m][k] <= Limits[k]
<1> DEFINE c == IF Limits[J.kind] = 0 THEN 0 ELSE count[J.hold][J.kind] + 1
<1>1. /\ count \in [Limiters -> [Counted -> Nat]] /\ Limits \in [Counted -> Nat]
      /\ \A m \in Limiters, k \in Counted : count[m][k] <= Limits[k]
  BY MiddlewareNumbersAssumption DEF TypeOK
<1>2. c \in Nat /\ c <= Limits[J.kind] /\ count[J.hold][J.kind] <= c
  BY <1>1 DEF Room
<1>3. count' = [count EXCEPT ![J.hold][J.kind] = c]
  BY DEF CountIn
<1> HIDE DEF c
<1>4. count' \in [Limiters -> [Counted -> Nat]]
  BY <1>1, <1>2, <1>3
<1>5. \A m \in Limiters, k \in Counted :
        count'[m][k] = IF m = J.hold /\ k = J.kind THEN c ELSE count[m][k]
  BY <1>1, <1>3
<1>6. \A m \in Limiters, k \in Counted : count[m][k] <= count'[m][k] /\ count'[m][k] <= Limits[k]
  BY <1>1, <1>2, <1>5
<1> QED BY <1>4, <1>6

\* Every step keeps what the middleware has well formed, and the lookups of the
\* blacklist what its lists say.
LEMMA TypeStep == MiddlewareInv /\ [Next]_vars => MiddlewareInv'
<1> SUFFICES ASSUME MiddlewareInv, [Next]_vars PROVE MiddlewareInv'
  OBVIOUS
<1>1. JobInv /\ TypeOK
  BY DEF MiddlewareInv
<1>2. JobInv' /\ faults' = faults
  BY <1>1, JobStep DEF TypeOK
<1>3. job' \in [Jobs -> JobType \union {None}] /\ faults' \in FaultSets
  BY <1>1, <1>2 DEF JobInv, TypeOK
<1> SUFFICES TypeOK'
  BY <1>2 DEF MiddlewareInv
<1> USE DEF TypeOK, listVars, limitVars, infoVars
<1>4. ASSUME UNCHANGED <<listVars, last, limitVars, infoVars, handled>>, connected' \in [Gateways -> BOOLEAN]
      PROVE  TypeOK'
  BY <1>1, <1>3, <1>4
<1>5. ASSUME NEW j \in Jobs, NEW g \in Gateways,
             \/ Connect(j, g) \/ Disconnect(j, g)
             \/ \E k \in Counted, m \in Uplinks \union {None} : Message(j, k, g, m)
      PROVE  TypeOK'
  <2>1. connected' \in [Gateways -> BOOLEAN]
    BY <1>1, <1>5 DEF Connect, Disconnect, Message
  <2> QED BY <1>4, <1>5, <2>1 DEF Connect, Disconnect, Message, Execute
<1>6. ASSUME NEW j \in Jobs, Timeout(j) \/ LoraFilter(j) \/ Check(j) \/ LimitRead(j) PROVE TypeOK'
  BY <1>1, <1>4, <1>6 DEF Timeout, LoraFilter, Check, LimitRead
<1>7. ASSUME NEW g \in Gateways, ConnectGateway(g) PROVE TypeOK'
  BY <1>1, <1>4, <1>7 DEF ConnectGateway
<1>8. ASSUME NEW j \in Jobs, Finish(j) PROVE TypeOK'
  <2>1. j \in Running /\ job[j].gw \in Gateways /\ (job[j].kind = "uplink" => job[j].msg \in Uplinks)
    BY <1>1, <1>8, RunningType DEF Finish
  <2>2. handled' \in [Gateways -> SUBSET Uplinks]
    <3>1. CASE job[j].waited /\ job[j].kind = "uplink" /\ handled' # handled
      <4>1. handled' = [handled EXCEPT ![job[j].gw] = @ \union {job[j].msg}]
        BY <1>8, <3>1 DEF Finish
      <4> QED BY <1>1, <2>1, <3>1, <4>1
    <3>2. CASE ~(job[j].waited /\ job[j].kind = "uplink" /\ handled' # handled)
      <4>1. handled' = handled
        BY <1>8, <3>2 DEF Finish
      <4> QED BY <1>1, <4>1
    <3> QED BY <3>1, <3>2
  <2>3. connected' \in [Gateways -> BOOLEAN]
    BY <1>1, <1>8, <2>1 DEF Finish
  <2> QED BY <1>1, <1>3, <1>8, <2>2, <2>3 DEF Finish
<1>9. ASSUME NEW j \in Jobs, Deduplicate(j) PROVE TypeOK'
  <2>1. job[j].gw \in Gateways /\ job[j].msg \in Uplinks
    BY <1>1, <1>9, RunningType DEF Deduplicate, Runs
  <2>2. last' \in [Gateways -> Uplinks \union {None}]
    BY <1>1, <1>9, <2>1 DEF Deduplicate
  <2> QED BY <1>1, <1>3, <1>9, <2>2 DEF Deduplicate
<1>10. ASSUME NEW j \in Jobs, DeduplicateDisconnect(j) PROVE TypeOK'
  <2>1. last' \in [Gateways -> Uplinks \union {None}] /\ handled' \in [Gateways -> SUBSET Uplinks]
    BY <1>1, <1>10 DEF DeduplicateDisconnect
  <2> QED BY <1>1, <1>3, <1>10, <2>1 DEF DeduplicateDisconnect
<1>11. ASSUME NEW j \in Jobs, LimitConnect(j) PROVE TypeOK'
  <2>1. job[j].gw \in Gateways
    BY <1>1, <1>11, RunningType DEF LimitConnect, Runs
  <2>2. PICK l \in Limiters : NewLimits(job[j].gw, l)
    BY <1>11 DEF LimitConnect
  <2>3. passed' \in [Gateways -> [Counted -> Nat]]
    BY <1>1, <1>11 DEF LimitConnect, NoneCounted
  <2>4. /\ limits' \in [Gateways -> Limiters \union {None}] /\ count' \in [Limiters -> [Counted -> Nat]]
        /\ \A m \in Limiters, k \in Counted : count'[m][k] <= Limits[k]
    BY <1>1, <2>1, <2>2, NewLimitsEffect
  <2> QED BY <1>1, <1>3, <1>11, <2>3, <2>4 DEF LimitConnect
<1>12. ASSUME NEW j \in Jobs, LimitDisconnect(j) PROVE TypeOK'
  <2>1. /\ limits' \in [Gateways -> Limiters \union {None}]
        /\ passed' \in [Gateways -> [Counted -> Nat]]
    BY <1>1, <1>12 DEF LimitDisconnect, NoneCounted
  <2> QED BY <1>1, <1>3, <1>12, <2>1 DEF LimitDisconnect
<1>13. ASSUME NEW j \in Jobs, LimitMake(j) PROVE TypeOK'
  <2>1. job[j].gw \in Gateways
    BY <1>1, <1>13, RunningType DEF LimitMake, Runs
  <2>2. /\ limits' \in [Gateways -> Limiters \union {None}] /\ count' \in [Limiters -> [Counted -> Nat]]
        /\ \A m \in Limiters, k \in Counted : count'[m][k] <= Limits[k]
    <3>1. CASE limits[job[j].gw] # None
      BY <1>1, <1>13, <3>1 DEF LimitMake
    <3>2. CASE limits[job[j].gw] = None
      <4>1. PICK l \in Limiters : NewLimits(job[j].gw, l)
        BY <1>13, <3>2 DEF LimitMake
      <4> QED BY <1>1, <2>1, <4>1, NewLimitsEffect
    <3> QED BY <3>1, <3>2
  <2> QED BY <1>1, <1>3, <1>13, <2>2 DEF LimitMake
<1>14. ASSUME NEW j \in Jobs, Limit(j) PROVE TypeOK'
  <2> DEFINE J == job[j]
             p == IF Limits[J.kind] = 0 THEN 0 ELSE passed[J.gw][J.kind] + 1
  <2>1. /\ j \in Running /\ J.gw \in Gateways /\ J.kind \in Counted /\ J.hold \in Limiters
        /\ J.kind = "uplink" => J.msg \in Uplinks
    BY <1>1, <1>14, RunningType DEF Limit, Runs, JobInv
  <2>2. CASE Room(J)
    <3>1. /\ CountIn(J) /\ passed' = [passed EXCEPT ![J.gw][J.kind] = p]
          /\ UNCHANGED <<handled, limits, connected, listVars, last, infoVars>>
      BY <1>14, <2>2 DEF Limit
    <3>2. p \in Nat
      BY <1>1, <2>1
    <3> HIDE DEF p
    <3>3. passed' \in [Gateways -> [Counted -> Nat]]
      BY <1>1, <2>1, <3>1, <3>2
    <3>4. /\ count' \in [Limiters -> [Counted -> Nat]]
          /\ \A m \in Limiters, k \in Counted : count'[m][k] <= Limits[k]
      BY <1>1, <2>1, <2>2, <3>1, CountInEffect
    <3> QED BY <1>1, <1>3, <3>1, <3>3, <3>4
  <2>3. CASE ~Room(J)
    <3>1. handled' \in [Gateways -> SUBSET Uplinks]
      <4>1. CASE J.kind = "uplink"
        <5>1. handled' = [handled EXCEPT ![J.gw] = @ \union {J.msg}]
          BY <1>14, <2>3, <4>1 DEF Limit
        <5> QED BY <1>1, <2>1, <4>1, <5>1
      <4>2. CASE J.kind # "uplink"
        BY <1>1, <1>14, <2>3, <4>2 DEF Limit
      <4> QED BY <4>1, <4>2
    <3> QED BY <1>1, <1>3, <1>14, <2>3, <3>1 DEF Limit
  <2> QED BY <2>2, <2>3
<1>20. ASSUME NEW j \in Jobs, LimitFails(j) PROVE TypeOK'
  <2>1. job[j].kind \in Counted /\ job[j].hold \in Limiters
    BY <1>1, <1>20 DEF LimitFails, Runs, JobInv
  <2>2. /\ count' \in [Limiters -> [Counted -> Nat]]
        /\ \A m \in Limiters, k \in Counted : count'[m][k] <= Limits[k]
    BY <1>1, <1>20, <2>1, CountInEffect DEF LimitFails
  <2> QED BY <1>1, <1>3, <1>20, <2>2 DEF LimitFails
<1>15. ASSUME NEW j \in Jobs, Get(j) PROVE TypeOK'
  <2>1. job[j].gw \in Gateways
    BY <1>1, <1>15, RunningType DEF Get, Runs
  <2>2. fetching' \in [Gateways -> 0 .. MaxFetches]
    <3>1. CASE info[job[j].gw] = "fresh"
      BY <1>1, <1>15, <3>1 DEF Get
    <3>2. CASE info[job[j].gw] # "fresh"
      <4>1. /\ fetching' = [fetching EXCEPT ![job[j].gw] = fetching[job[j].gw] + 1]
            /\ fetching[job[j].gw] < MaxFetches
        BY <1>15, <3>2 DEF Get
      <4>2. fetching[job[j].gw] + 1 \in 0 .. MaxFetches
        BY <1>1, <2>1, <4>1, MiddlewareNumbersAssumption
      <4> QED BY <1>1, <4>1, <4>2
    <3> QED BY <3>1, <3>2
  <2>3. info' \in [Gateways -> {None, "fresh", "expired"}]
    BY <1>1, <1>15, <2>1 DEF Get
  <2> QED BY <1>1, <1>3, <1>15, <2>2, <2>3 DEF Get
<1>16. ASSUME NEW j \in Jobs, InfoDisconnect(j) PROVE TypeOK'
  <2>1. job[j].gw \in Gateways
    BY <1>1, <1>16, RunningType DEF InfoDisconnect, Runs
  <2>2. unsets' \in [Gateways -> 0 .. MaxFetches]
    BY <1>1, <1>16, <2>1, MiddlewareNumbersAssumption DEF InfoDisconnect
  <2> QED BY <1>1, <1>3, <1>16, <2>2 DEF InfoDisconnect
<1>17. ASSUME NEW g \in Gateways, Fetched(g) \/ Unset(g) \/ Expire(g) PROVE TypeOK'
  <2>1. /\ fetching' \in [Gateways -> 0 .. MaxFetches] /\ unsets' \in [Gateways -> 0 .. MaxFetches]
    <3>1. CASE Fetched(g)
      <4>1. fetching[g] - 1 \in 0 .. MaxFetches
        BY <1>1, <3>1, MiddlewareNumbersAssumption DEF Fetched
      <4> QED BY <1>1, <3>1, <4>1 DEF Fetched
    <3>2. CASE Unset(g)
      <4>1. unsets[g] - 1 \in 0 .. MaxFetches
        BY <1>1, <3>2, MiddlewareNumbersAssumption DEF Unset
      <4> QED BY <1>1, <3>2, <4>1 DEF Unset
    <3>3. CASE Expire(g)
      BY <1>1, <3>3 DEF Expire
    <3> QED BY <1>17, <3>1, <3>2, <3>3
  <2>2. info' \in [Gateways -> {None, "fresh", "expired"}]
    BY <1>1, <1>17 DEF Fetched, Unset, Expire
  <2> QED BY <1>1, <1>3, <1>17, <2>1, <2>2 DEF Fetched, Unset, Expire
<1>18. ASSUME NEW l \in Lists, NEW contents \in SUBSET Names, Read(l, contents) PROVE TypeOK'
  <2>1. listed' \in [Lists -> SUBSET Gateways] /\ lookup' = UNION {listed'[n] : n \in Lists}
    BY <1>1, <1>18 DEF Read, LookupOf, Names
  <2> QED BY <1>1, <1>3, <1>18, <2>1 DEF Read
<1>19. CASE UNCHANGED vars
  BY <1>1, <1>4, <1>19 DEF vars
<1> QED
  BY <1>5, <1>6, <1>7, <1>8, <1>9, <1>10, <1>11, <1>12, <1>13, <1>14, <1>15, <1>16, <1>17, <1>18, <1>19,
     <1>20 DEF Next

\* Nothing is in hand and nothing but Redis has information at the start.
LEMMA TypeInit == Init => MiddlewareInv
<1> SUFFICES ASSUME Init PROVE MiddlewareInv
  OBVIOUS
<1>1. JobInv
  BY DEF Init, JobInv, Running
<1>2. count \in [Limiters -> [Counted -> Nat]] /\ \A l \in Limiters, k \in Counted : count[l][k] <= Limits[k]
  BY MiddlewareNumbersAssumption DEF Init, NoneCounted
<1>3. info \in [Gateways -> {None, "fresh", "expired"}]
  BY DEF Init
<1>4. fetching \in [Gateways -> 0 .. MaxFetches] /\ unsets \in [Gateways -> 0 .. MaxFetches]
  BY MiddlewareNumbersAssumption DEF Init
<1>5. listed \in [Lists -> SUBSET Gateways]
  BY DEF Init, Names
<1>6. passed \in [Gateways -> [Counted -> Nat]] /\ handled \in [Gateways -> SUBSET Uplinks]
  BY DEF Init, NoneCounted
<1>7. TypeOK
  BY <1>1, <1>2, <1>3, <1>4, <1>5, <1>6 DEF Init, TypeOK, JobInv, LookupOf
<1> QED BY <1>1, <1>7 DEF MiddlewareInv

\* What the middleware keeps stays well formed; the lookups of the blacklist are
\* what its lists say, and no counter is over its limit.
THEOREM TypeCorrect == Spec => []TypeOK
<1>1. MiddlewareInv => TypeOK
  BY DEF MiddlewareInv
<1> QED
  BY <1>1, TypeInit, TypeStep, PTL DEF Spec

-----------------------------------------------------------------------------
(* Messages of a gateway beside each other *)

\* Workers that do not give up wait for all that runs. A connect or disconnect
\* message is then alone in hand, if messages are handled in their order.
TimeInv == "timeout" \notin faults => \A j \in Running : job[j].waited
Alone ==
  faults \intersect {"parallel", "timeout"} = {} =>
    \A i, j \in Running : i # j /\ job[i].gw = job[j].gw =>
      job[i].kind \in Counted /\ job[j].kind \in Counted

\* The goroutines after a step on one of them.
LEMMA RunningAfter ==
  ASSUME NEW j, Others(j)
  PROVE  \A i \in Running' : i = j \/ (i \in Running /\ job'[i] = job[i])
BY DEF Others, Running

\* Every step keeps both.
LEMMA AloneStep ==
  ASSUME TimeInv, Alone, JobEffect, faults' = faults
  PROVE  TimeInv' /\ Alone'
<1>1. CASE UNCHANGED job
  BY <1>1 DEF TimeInv, Alone, Running
<1>2. ASSUME NEW j \in Jobs, Others(j), Starts(j) PROVE TimeInv' /\ Alone'
  <2>1. \A i \in Running' : i = j \/ (i \in Running /\ job'[i] = job[i])
    BY <1>2, RunningAfter
  <2>2. TimeInv'
    BY <1>2, <2>1 DEF TimeInv, Starts
  <2>3. ASSUME faults \intersect {"parallel", "timeout"} = {},
               NEW i \in Running, job[i].gw = job'[j].gw
        PROVE  job[i].kind \in Counted /\ job'[j].kind \in Counted
    <3>1. i \in InHand(job'[j].gw)
      BY <2>3 DEF TimeInv, InHand, Waiting
    <3> QED BY <1>2, <2>3, <3>1 DEF Starts
  <2>4. Alone'
    BY <1>2, <2>1, <2>3 DEF Alone
  <2> QED BY <2>2, <2>4
<1>3. ASSUME NEW j \in Running, Others(j), job'[j] = None \/ WaitsOn(j) PROVE TimeInv' /\ Alone'
  <2>1. \A i \in Running' : i = j \/ (i \in Running /\ job'[i] = job[i])
    BY <1>3, RunningAfter
  <2>2. job'[j] = None => j \notin Running'
    BY DEF Running
  <2>3. \A i \in Running' : /\ i \in Running /\ job'[i].gw = job[i].gw /\ job'[i].kind = job[i].kind
                            /\ "timeout" \notin faults => job'[i].waited = job[i].waited
    BY <1>3, <2>1, <2>2 DEF WaitsOn, GoesOn
  <2> QED BY <1>3, <2>3 DEF TimeInv, Alone
<1> QED BY <1>1, <1>2, <1>3 DEF JobEffect

-----------------------------------------------------------------------------
(* The limits *)

\* What has passed was counted on the gateway's limits, which are those that the
\* messages in hand count on.
LimitInv ==
  faults \intersect {"parallel", "timeout"} = {} =>
    /\ \A g \in Gateways, k \in Counted :
         passed[g][k] <= IF limits[g] = None THEN 0 ELSE count[limits[g]][k]
    /\ \A j \in Running : job[j].at = "count" => job[j].hold = limits[job[j].gw]

\* Every step keeps the count.
LEMMA LimitStep ==
  ASSUME MiddlewareInv, Alone, LimitInv, [Next]_vars
  PROVE  LimitInv'
<1>1. /\ TypeOK /\ JobInv /\ JobInv' /\ JobEffect /\ faults' = faults
      /\ limits \in [Gateways -> Limiters \union {None}]
  BY JobStep DEF MiddlewareInv, TypeOK
<1> SUFFICES ASSUME faults \intersect {"parallel", "timeout"} = {}
             PROVE  /\ \A g \in Gateways, k \in Counted :
                         passed'[g][k] <= IF limits'[g] = None THEN 0 ELSE count'[limits'[g]][k]
                    /\ \A j \in Running' : job'[j].at = "count" => job'[j].hold = limits'[job'[j].gw]
  BY <1>1 DEF LimitInv
<1> DEFINE PassedPart == \A g \in Gateways, k \in Counted :
                           passed[g][k] <= IF limits[g] = None THEN 0 ELSE count[limits[g]][k]
           HoldPart == \A j \in Running : job[j].at = "count" => job[j].hold = limits[job[j].gw]
<1>2. PassedPart /\ HoldPart
  BY DEF LimitInv
<1> SUFFICES PassedPart' /\ HoldPart'
  OBVIOUS
<1>3. ASSUME ~\E j \in Jobs : LimitRead(j) \/ LimitMake(j), NEW i \in Running', job'[i].at = "count"
      PROVE  i \in Running /\ job'[i] = job[i]
  <2>1. CASE UNCHANGED job
    BY <2>1 DEF Running
  <2>2. ASSUME NEW j \in Jobs, Others(j), Starts(j) PROVE i \in Running /\ job'[i] = job[i]
    BY <1>3, <2>2, RunningAfter DEF Starts
  <2>3. ASSUME NEW j \in Running, Others(j), job'[j] = None \/ WaitsOn(j)
        PROVE  i \in Running /\ job'[i] = job[i]
    <3>1. i # j
      <4>1. j \in Jobs /\ job'[i] # None
        BY DEF Running
      <4> QED BY <1>3, <2>3, <4>1 DEF WaitsOn
    <3> QED BY <2>3, <3>1, RunningAfter
  <2> QED BY <1>1, <2>1, <2>2, <2>3 DEF JobEffect
<1>4. ASSUME ~\E j \in Jobs : LimitRead(j) \/ LimitMake(j), UNCHANGED limitVars
      PROVE  PassedPart' /\ HoldPart'
  BY <1>2, <1>3, <1>4 DEF limitVars
<1>5. ASSUME NEW j \in Jobs, LimitRead(j) PROVE PassedPart' /\ HoldPart'
  <2>1. j \in Running /\ job[j].kind \in Counted /\ UNCHANGED limitVars
    BY <1>5 DEF LimitRead, Runs
  <2>2. /\ Others(j) /\ GoesOn(j)
        /\ job'[j].at = "count" => job'[j].hold = limits[job[j].gw]
    <3>1. job[j].gw \in Gateways
      BY <1>1, <2>1, RunningType
    <3>2. CASE limits[job[j].gw] # None
      <4>1. limits[job[j].gw] \in Limiters /\ Hold(j, limits[job[j].gw])
        BY <1>1, <1>5, <3>1, <3>2 DEF LimitRead
      <4> QED BY <1>1, <2>1, <4>1, HoldEffect
    <3>3. CASE limits[job[j].gw] = None
      <4>1. job' = [job EXCEPT ![j].at = "lock"]
        BY <1>5, <3>3 DEF LimitRead
      <4> QED BY <1>1, <2>1, <4>1, LockEffect
    <3> QED BY <3>2, <3>3
  <2>3. \A i \in Running' : i = j \/ (i \in Running /\ job'[i] = job[i])
    BY <2>2, RunningAfter
  <2> QED BY <1>2, <2>1, <2>2, <2>3 DEF GoesOn, limitVars
<1>6. ASSUME NEW j \in Jobs, LimitMake(j) PROVE PassedPart' /\ HoldPart'
  <2> DEFINE g == job[j].gw
  <2>1. j \in Running /\ job[j].kind \in Counted /\ g \in Gateways /\ UNCHANGED passed
    BY <1>1, <1>6, RunningType DEF LimitMake, Runs, JobInv
  <2>2. CASE limits[g] # None
    <3>1. limits[g] \in Limiters /\ Hold(j, limits[g]) /\ UNCHANGED <<limits, count>>
      BY <1>1, <1>6, <2>1, <2>2 DEF LimitMake
    <3>2. Others(j) /\ GoesOn(j) /\ job'[j].hold = limits[g]
      BY <1>1, <2>1, <3>1, HoldEffect
    <3>3. \A i \in Running' : i = j \/ (i \in Running /\ job'[i] = job[i])
      BY <3>2, RunningAfter
    <3> QED BY <1>2, <2>1, <3>1, <3>2, <3>3 DEF GoesOn
  <2>3. CASE limits[g] = None
    <3>1. PICK l \in Limiters : NewLimits(g, l) /\ Hold(j, l)
      BY <1>6, <2>3 DEF LimitMake
    <3>2. Others(j) /\ GoesOn(j) /\ job'[j].hold = l
      BY <1>1, <2>1, <3>1, HoldEffect
    <3>3. \A i \in Running' : i = j \/ (i \in Running /\ job'[i] = job[i])
      BY <3>2, RunningAfter
    <3>4. /\ limits' = [limits EXCEPT ![g] = l] /\ count' = [count EXCEPT ![l] = NoneCounted]
          /\ \A k \in Counted : NoneCounted[k] = 0
          /\ \A h \in Gateways : limits[h] # l
      BY <1>1, <2>1, <3>1, NewLimitsEffect
    <3>5. /\ limits'[g] = l /\ \A h \in Gateways \ {g} : limits'[h] = limits[h]
          /\ count'[l] = NoneCounted /\ \A m \in Limiters \ {l} : count'[m] = count[m]
      BY <1>1, <2>1, <3>4 DEF TypeOK
    <3>6. ASSUME NEW h \in Gateways, NEW k \in Counted
          PROVE  passed'[h][k] <= IF limits'[h] = None THEN 0 ELSE count'[limits'[h]][k]
      <4>1. CASE h = g
        <5>1. passed[g][k] <= 0
          BY <1>2, <2>1, <2>3
        <5>2. l # None
          BY MiddlewareSetsAssumption
        <5> QED BY <2>1, <3>4, <3>5, <4>1, <5>1, <5>2
      <4>2. CASE h # g
        <5>1. limits'[h] = limits[h] /\ limits[h] # l /\ limits[h] \in Limiters \union {None}
          BY <1>1, <3>4, <3>5, <4>2
        <5> QED BY <1>2, <2>1, <3>5, <5>1
      <4> QED BY <4>1, <4>2
    <3>7. ASSUME NEW i \in Running', job'[i].at = "count" PROVE job'[i].hold = limits'[job'[i].gw]
      <4>1. CASE i = j
        BY <3>2, <3>5, <4>1 DEF GoesOn
      <4>2. CASE i # j
        <5>1. i \in Running /\ job'[i] = job[i]
          BY <3>3, <4>2
        <5>2. job[i].hold = limits[job[i].gw] /\ job[i].hold \in Limiters /\ job[i].gw \in Gateways
          BY <1>1, <1>2, <3>7, <5>1, RunningType DEF JobInv
        <5>3. job[i].gw # g
          BY <2>3, <5>2, MiddlewareSetsAssumption
        <5> QED BY <3>5, <5>1, <5>2, <5>3
      <4> QED BY <4>1, <4>2
    <3> QED BY <3>6, <3>7
  <2> QED BY <2>2, <2>3
<1>7. ASSUME NEW j \in Jobs, LimitConnect(j) \/ LimitDisconnect(j) PROVE PassedPart' /\ HoldPart'
  <2> DEFINE g == job[j].gw
  <2>1. j \in Running /\ job[j].kind \in {"connect", "disconnect"} /\ g \in Gateways /\ Pass(j)
    BY <1>1, <1>7, RunningType DEF LimitConnect, LimitDisconnect, Runs
  <2>2. "connect" \notin Counted /\ "disconnect" \notin Counted
    BY DEF Counted
  <2>3. \A i \in Running \ {j} : job[i].gw # g
    BY <2>1, <2>2 DEF Alone
  <2>4. Others(j) /\ job'[j].at = "start"
    BY <1>1, <2>1, PassEffect
  <2>5. \A i \in Running' : i = j \/ (i \in Running /\ job'[i] = job[i])
    BY <2>4, RunningAfter
  <2>6. passed' = [passed EXCEPT ![g] = NoneCounted]
    BY <1>7 DEF LimitConnect, LimitDisconnect
  <2>7. \A k \in Counted : NoneCounted[k] = 0
    BY DEF NoneCounted
  <2>8. \A k \in Counted : passed'[g][k] = 0
    BY <1>1, <2>1, <2>6, <2>7 DEF TypeOK
  <2>9. \A h \in Gateways \ {g} : passed'[h] = passed[h]
    BY <1>1, <2>6 DEF TypeOK
  <2>10. /\ \A h \in Gateways \ {g} : limits'[h] = limits[h]
         /\ \A k \in Counted : 0 <= IF limits'[g] = None THEN 0 ELSE count'[limits'[g]][k]
         /\ \A h \in Gateways \ {g}, k \in Counted : limits[h] # None => count'[limits[h]][k] = count[limits[h]][k]
    <3>1. CASE LimitConnect(j)
      <4>1. PICK l \in Limiters : NewLimits(g, l)
        BY <3>1 DEF LimitConnect
      <4>2. /\ limits' = [limits EXCEPT ![g] = l] /\ count' = [count EXCEPT ![l] = NoneCounted]
            /\ \A h \in Gateways : limits[h] # l
        BY <1>1, <2>1, <4>1, NewLimitsEffect
      <4>3. /\ limits'[g] = l /\ \A h \in Gateways \ {g} : limits'[h] = limits[h]
            /\ count'[l] = NoneCounted /\ \A m \in Limiters \ {l} : count'[m] = count[m]
        BY <1>1, <2>1, <4>2 DEF TypeOK
      <4> QED BY <1>1, <2>7, <4>2, <4>3
    <3>2. CASE LimitDisconnect(j)
      BY <1>1, <2>1, <3>2 DEF LimitDisconnect
    <3> QED BY <1>7, <3>1, <3>2
  <2>11. PassedPart'
    BY <1>2, <2>8, <2>9, <2>10
  <2>12. ASSUME NEW i \in Running', job'[i].at = "count" PROVE job'[i].hold = limits'[job'[i].gw]
    <3>1. i # j /\ i \in Running /\ job'[i] = job[i]
      BY <2>4, <2>5, <2>12
    <3>2. job[i].gw # g /\ job[i].gw \in Gateways
      BY <1>1, <2>3, <3>1, RunningType
    <3> QED BY <1>2, <2>10, <2>12, <3>1, <3>2
  <2> QED BY <2>11, <2>12
<1>8. ASSUME NEW j \in Jobs, Limit(j) PROVE PassedPart' /\ HoldPart'
  <2> DEFINE J == job[j]
             c == IF Limits[J.kind] = 0 THEN 0 ELSE count[J.hold][J.kind] + 1
             p == IF Limits[J.kind] = 0 THEN 0 ELSE passed[J.gw][J.kind] + 1
  <2>1. /\ j \in Running /\ J.gw \in Gateways /\ J.kind \in Counted /\ J.hold \in Limiters
        /\ J.hold = limits[J.gw] /\ UNCHANGED limits
    BY <1>1, <1>2, <1>8, RunningType DEF Limit, Runs, JobInv
  <2>2. J.hold # None
    BY <2>1, MiddlewareSetsAssumption
  <2>3. HoldPart'
    <3>1. Pass(j) \/ Refuse(j)
      BY <1>8 DEF Limit
    <3>2. Others(j) /\ (job'[j] = None \/ job'[j].at = "start")
      BY <1>1, <2>1, <3>1, PassEffect, RefuseEffect
    <3>3. \A i \in Running' : i = j \/ (i \in Running /\ job'[i] = job[i])
      BY <3>2, RunningAfter
    <3>4. \A i \in Running' : job'[i] # None
      BY DEF Running
    <3> QED BY <1>2, <2>1, <3>2, <3>3, <3>4
  <2>4. PassedPart'
    <3>1. CASE Room(J)
      <4>1. /\ count' = [count EXCEPT ![J.hold][J.kind] = c]
            /\ passed' = [passed EXCEPT ![J.gw][J.kind] = p]
        BY <1>8, <3>1 DEF Limit, CountIn
      <4>2. /\ passed[J.gw][J.kind] <= count[J.hold][J.kind]
            /\ passed[J.gw][J.kind] \in Nat /\ count[J.hold][J.kind] \in Nat
            /\ count[J.hold][J.kind] <= Limits[J.kind]
        BY <1>1, <1>2, <2>1, <2>2 DEF TypeOK
      <4>3. p <= c /\ count[J.hold][J.kind] <= c /\ c \in Nat /\ p \in Nat
        BY <4>2
      <4> HIDE DEF p, c
      <4>4. /\ \A h \in Gateways, k \in Counted :
                 passed'[h][k] = IF h = J.gw /\ k = J.kind THEN p ELSE passed[h][k]
            /\ \A m \in Limiters, k \in Counted :
                 count'[m][k] = IF m = J.hold /\ k = J.kind THEN c ELSE count[m][k]
        BY <1>1, <2>1, <4>1 DEF TypeOK
      <4>5. ASSUME NEW h \in Gateways, NEW k \in Counted
            PROVE  passed'[h][k] <= IF limits[h] = None THEN 0 ELSE count'[limits[h]][k]
        <5>1. passed[h][k] <= (IF limits[h] = None THEN 0 ELSE count[limits[h]][k]) /\ passed[h][k] \in Nat
          BY <1>1, <1>2 DEF TypeOK
        <5>2. CASE limits[h] = None
          <6>1. h # J.gw
            BY <2>1, <2>2, <5>2
          <6> QED BY <4>4, <5>1, <5>2, <6>1
        <5>3. CASE limits[h] # None
          <6>1. limits[h] \in Limiters /\ count[limits[h]][k] \in Nat
            BY <1>1, <5>3 DEF TypeOK
          <6>2. count'[limits[h]][k] = (IF limits[h] = J.hold /\ k = J.kind THEN c ELSE count[limits[h]][k])
            BY <4>4, <6>1
          <6>3. CASE h = J.gw /\ k = J.kind
            BY <2>1, <4>3, <4>4, <5>3, <6>2, <6>3
          <6>4. CASE ~(h = J.gw /\ k = J.kind)
            <7>1. passed'[h][k] = passed[h][k]
              BY <4>4, <6>4
            <7>2. count[limits[h]][k] <= count'[limits[h]][k] /\ count'[limits[h]][k] \in Nat
              BY <4>3, <6>1, <6>2
            <7> QED BY <5>1, <5>3, <6>1, <7>1, <7>2
          <6> QED BY <6>3, <6>4
        <5> QED BY <5>2, <5>3
      <4> QED BY <2>1, <4>5
    <3>2. CASE ~Room(J)
      BY <1>2, <1>8, <2>1, <3>2 DEF Limit
    <3> QED BY <3>1, <3>2
  <2> QED BY <2>3, <2>4
<1>10. ASSUME NEW j \in Jobs, LimitFails(j) PROVE PassedPart' /\ HoldPart'
  <2>1. /\ j \in Running /\ job[j].kind \in Counted /\ job[j].hold \in Limiters
        /\ Refuse(j) /\ UNCHANGED <<limits, passed>>
    BY <1>1, <1>10 DEF LimitFails, Runs, JobInv
  <2>2. Others(j) /\ job'[j] = None
    BY <1>1, <2>1, RefuseEffect
  <2>3. HoldPart'
    <3>1. \A i \in Running' : i \in Running /\ job'[i] = job[i]
      BY <2>2, RunningAfter DEF Running
    <3> QED BY <1>2, <2>1, <3>1
  <2>4. /\ count' \in [Limiters -> [Counted -> Nat]]
        /\ \A m \in Limiters, k \in Counted : count[m][k] <= count'[m][k]
    BY <1>1, <1>10, <2>1, CountInEffect DEF LimitFails, TypeOK
  <2>5. ASSUME NEW g \in Gateways, NEW k \in Counted
        PROVE  passed'[g][k] <= IF limits'[g] = None THEN 0 ELSE count'[limits'[g]][k]
    <3>1. passed[g][k] <= (IF limits[g] = None THEN 0 ELSE count[limits[g]][k]) /\ passed[g][k] \in Nat
      BY <1>1, <1>2 DEF TypeOK
    <3>2. CASE limits[g] = None
      BY <2>1, <3>1, <3>2
    <3>3. CASE limits[g] # None
      <4>1. limits[g] \in Limiters
        BY <1>1, <3>3
      <4>2. /\ count[limits[g]][k] \in Nat /\ count'[limits[g]][k] \in Nat
            /\ count[limits[g]][k] <= count'[limits[g]][k]
        BY <1>1, <2>4, <4>1 DEF TypeOK
      <4> QED BY <2>1, <3>1, <3>3, <4>2
    <3> QED BY <3>2, <3>3
  <2> QED BY <2>3, <2>5
<1>9. CASE \A j \in Jobs : ~(\/ LimitRead(j) \/ LimitMake(j) \/ LimitConnect(j) \/ LimitDisconnect(j)
                            \/ Limit(j) \/ LimitFails(j))
  <2>1. UNCHANGED limitVars
    BY <1>9 DEF Next, vars, Connect, Disconnect, Message, Execute, Timeout, Finish, LoraFilter, Check,
                Deduplicate, DeduplicateDisconnect, Get, InfoDisconnect, ConnectGateway, Fetched,
                Unset, Expire, Read
  <2> QED BY <1>4, <1>9, <2>1
<1> QED BY <1>5, <1>6, <1>7, <1>8, <1>9, <1>10

\* No more messages of a kind pass than the limit allows, however many workers find
\* no limits at once: they all come to count on the limits of the first
\* (ratelimit.go:111-133).
THEOREM LimitsHold == Spec => []WithinLimit
<1>1. Init => TimeInv /\ Alone /\ LimitInv
  <2> SUFFICES ASSUME Init PROVE TimeInv /\ Alone /\ LimitInv
    OBVIOUS
  <2>1. Running = {}
    BY DEF Init, Running
  <2>2. \A g \in Gateways, k \in Counted : limits[g] = None /\ passed[g][k] = 0
    BY DEF Init, NoneCounted
  <2> QED BY <2>1, <2>2 DEF TimeInv, Alone, LimitInv
<1>2. MiddlewareInv /\ TimeInv /\ Alone /\ [Next]_vars => TimeInv' /\ Alone'
  BY JobStep, AloneStep DEF MiddlewareInv, TypeOK
<1>3. MiddlewareInv /\ Alone /\ LimitInv /\ [Next]_vars => LimitInv'
  BY LimitStep
<1>4. MiddlewareInv /\ LimitInv => WithinLimit
  <2> SUFFICES ASSUME MiddlewareInv, LimitInv, faults \intersect {"parallel", "timeout"} = {},
                      NEW g \in Gateways, NEW k \in Counted
               PROVE  passed[g][k] <= Limits[k]
    BY DEF WithinLimit
  <2>1. /\ passed[g][k] \in Nat /\ Limits[k] \in Nat /\ limits[g] \in Limiters \union {None}
        /\ passed[g][k] <= IF limits[g] = None THEN 0 ELSE count[limits[g]][k]
    BY MiddlewareNumbersAssumption DEF MiddlewareInv, TypeOK, LimitInv
  <2>2. CASE limits[g] = None
    BY <2>1, <2>2
  <2>3. CASE limits[g] # None
    <3>1. count[limits[g]][k] \in Nat /\ count[limits[g]][k] <= Limits[k]
      BY <2>1, <2>3 DEF MiddlewareInv, TypeOK
    <3> QED BY <2>1, <2>3, <3>1
  <2> QED BY <2>2, <2>3
<1> QED
  BY <1>1, <1>2, <1>3, <1>4, TypeInit, TypeStep, PTL DEF Spec

-----------------------------------------------------------------------------
(* What deduplicate knows *)

\* The message brings the gateway's last one to its end, past the middleware that
\* may find that it is not worth it.
Bears(j, g) ==
  /\ job[j].gw = g /\ job[j].kind = "uplink" /\ job[j].msg = last[g]
  /\ job[j].rest \intersect (1 .. 3) = {}

\* A message on record was handled, or is in hand.
Known(g) == last[g] # None => last[g] \in handled[g] \/ \E j \in Running : Bears(j, g)
KnownInv == faults \intersect {"timeout", "backend", "counter"} = {} => \A g \in Gateways : Known(g)

\* It remains so if it is the same message, unless the one in hand ends without
\* having been handled.
LEMMA KnownFrame ==
  ASSUME NEW g \in Gateways, Known(g), JobEffect, last'[g] = last[g], handled[g] \subseteq handled'[g],
         \A i \in Running : job'[i] = None /\ Bears(i, g) => last[g] \in handled'[g]
  PROVE  Known(g)'
<1> SUFFICES ASSUME last[g] # None, last[g] \notin handled'[g]
             PROVE  \E j \in Running' : Bears(j, g)'
  BY DEF Known
<1>1. PICK j \in Running : Bears(j, g)
  BY DEF Known
<1>2. j \in Jobs /\ job[j] # None /\ job'[j] # None
  BY <1>1 DEF Running
<1>3. job'[j] = job[j] \/ WaitsOn(j)
  <2>1. ASSUME NEW i \in Jobs, Others(i), Starts(i) PROVE job'[j] = job[j]
    BY <1>2, <2>1 DEF Others, Starts
  <2>2. ASSUME NEW i \in Running, Others(i), job'[i] = None \/ WaitsOn(i)
        PROVE  job'[j] = job[j] \/ WaitsOn(j)
    BY <1>2, <2>2 DEF Others
  <2> QED BY <2>1, <2>2 DEF JobEffect
<1>4. /\ job'[j].gw = job[j].gw /\ job'[j].kind = job[j].kind /\ job'[j].msg = job[j].msg
      /\ job'[j].rest \subseteq job[j].rest
  BY <1>3 DEF WaitsOn, GoesOn
<1>5. j \in Running' /\ Bears(j, g)'
  BY <1>1, <1>2, <1>4 DEF Bears, Running
<1> QED BY <1>5

\* Every step keeps it.
LEMMA KnownStep ==
  ASSUME MiddlewareInv, TimeInv, KnownInv, [Next]_vars
  PROVE  KnownInv'
<1>1. /\ TypeOK /\ JobInv /\ JobEffect /\ faults' = faults
      /\ limits \in [Gateways -> Limiters \union {None}]
  BY JobStep DEF MiddlewareInv, TypeOK
<1> SUFFICES ASSUME faults \intersect {"timeout", "backend", "counter"} = {}, NEW g \in Gateways
             PROVE  Known(g)'
  BY <1>1 DEF KnownInv
<1>2. Known(g)
  BY DEF KnownInv
<1>3. ASSUME last'[g] = last[g], handled[g] \subseteq handled'[g],
             \A i \in Running : job'[i] = None /\ Bears(i, g) => last[g] \in handled'[g]
      PROVE  Known(g)'
  BY <1>1, <1>2, <1>3, KnownFrame
<1>4. ASSUME UNCHANGED <<last, handled>>, \A i \in Running : job'[i] # None PROVE Known(g)'
  BY <1>3, <1>4
<1>5. ASSUME NEW j \in Running, Pass(j), UNCHANGED <<last, handled>> PROVE Known(g)'
  <2>1. Others(j) /\ job'[j] # None
    BY <1>1, <1>5, PassEffect DEF GoesOn
  <2>2. \A i \in Running : job'[i] # None
    BY <2>1 DEF Others, Running
  <2> QED BY <1>4, <1>5, <2>2
<1>6. ASSUME NEW j \in Running, NEW n \in 1 .. 3, Runs(j, Chain[n]), Refuse(j), UNCHANGED <<last, handled>>
      PROVE  Known(g)'
  <2>1. n \in 1 .. 5 /\ job[j].rest \subseteq DOMAIN Chain
    BY <1>1, RunningType
  <2>2. First(job[j].rest) = {n}
    BY <1>6, <2>1, RunsPlace
  <2>3. ~Bears(j, g)
    BY <2>2 DEF First, Bears
  <2>4. Others(j)
    BY <1>1, <1>6, RefuseEffect
  <2>5. \A i \in Running : ~(job'[i] = None /\ Bears(i, g))
    BY <2>3, <2>4 DEF Others, Running
  <2> QED BY <1>3, <1>6, <2>5
<1>7. ASSUME NEW j \in Jobs, NEW h \in Gateways,
             \/ Connect(j, h) \/ Disconnect(j, h)
             \/ \E k \in Counted, m \in Uplinks \union {None} : Message(j, k, h, m)
      PROVE  Known(g)'
  <2>1. /\ UNCHANGED <<last, handled>> /\ job[j] = None
        /\ \E K : K \in JobType /\ job' = [job EXCEPT ![j] = K]
    <3>1. ASSUME NEW kind \in Kinds, NEW m \in Uplinks \union {None}, Execute(j, kind, h, m)
          PROVE  \E K : K \in JobType /\ job' = [job EXCEPT ![j] = K]
      <4>1. ChainFor(kind) \subseteq DOMAIN Chain
        BY DEF ChainFor
      <4>2. [kind |-> kind, gw |-> h, msg |-> m, rest |-> ChainFor(kind),
             at |-> "start", hold |-> None, waited |-> TRUE] \in JobType
        BY <4>1 DEF JobType
      <4> QED BY <3>1, <4>2 DEF Execute
    <3>2. {"connect", "disconnect"} \union Counted \subseteq Kinds
      BY DEF Kinds
    <3> QED BY <1>7, <3>1, <3>2 DEF Connect, Disconnect, Message, Execute
  <2>2. \A i \in Running : job'[i] # None
    BY <1>1, <2>1 DEF Running, JobInv
  <2> QED BY <1>4, <2>1, <2>2
<1>8. ASSUME NEW j \in Jobs, LoraFilter(j) \/ Check(j) PROVE Known(g)'
  <2>1. j \in Running /\ (Pass(j) \/ Refuse(j)) /\ UNCHANGED <<last, handled>>
    BY <1>8 DEF LoraFilter, Check, Runs
  <2>2. \E n \in 1 .. 3 : Runs(j, Chain[n])
    BY <1>8, Places DEF LoraFilter, Check
  <2> QED BY <1>5, <1>6, <2>1, <2>2
<1>9. ASSUME NEW j \in Jobs, Deduplicate(j) PROVE Known(g)'
  <2>1. j \in Running /\ Runs(j, Chain[3]) /\ job[j].kind = "uplink" /\ UNCHANGED handled
    BY <1>9, Places DEF Deduplicate, Runs
  <2>2. CASE last[job[j].gw] = job[j].msg
    BY <1>6, <1>9, <2>1, <2>2 DEF Deduplicate
  <2>3. CASE last[job[j].gw] # job[j].msg
    <3>1. Pass(j) /\ last' = [last EXCEPT ![job[j].gw] = job[j].msg]
      BY <1>9, <2>3 DEF Deduplicate
    <3>2. /\ Others(j) /\ GoesOn(j) /\ j \in Jobs
          /\ job'[j].rest = job[j].rest \ First(job[j].rest)
      BY <1>1, <2>1, <3>1, PassEffect
    <3>3. CASE job[j].gw = g
      <4>1. last'[g] = job[j].msg
        BY <1>1, <3>1, <3>3 DEF TypeOK
      <4>2. First(job[j].rest) = {3} /\ (\A o \in job[j].rest : 3 <= o) /\ job[j].rest \subseteq 1 .. 5
        BY <1>1, <2>1, RunsPlace, RunningType, Places
      <4>3. job'[j].rest \intersect (1 .. 3) = {}
        BY <3>2, <4>2
      <4>4. j \in Running' /\ Bears(j, g)'
        BY <2>1, <3>2, <3>3, <4>1, <4>3 DEF Bears, GoesOn, Running
      <4> QED BY <4>4 DEF Known
    <3>4. CASE job[j].gw # g
      <4>1. last'[g] = last[g] /\ handled'[g] = handled[g]
        BY <1>1, <2>1, <3>1, <3>4 DEF TypeOK
      <4>2. \A i \in Running : job'[i] # None
        BY <3>2 DEF Others, GoesOn, Running
      <4> QED BY <1>3, <4>1, <4>2
    <3> QED BY <3>3, <3>4
  <2> QED BY <2>2, <2>3
<1>10. ASSUME NEW j \in Jobs, DeduplicateDisconnect(j) PROVE Known(g)'
  <2>1. /\ j \in Running /\ Pass(j)
        /\ last' = [last EXCEPT ![job[j].gw] = None]
        /\ handled' = [handled EXCEPT ![job[j].gw] = {}]
    BY <1>10 DEF DeduplicateDisconnect, Runs
  <2>2. CASE job[j].gw = g
    BY <1>1, <2>1, <2>2 DEF Known, TypeOK
  <2>3. CASE job[j].gw # g
    <3>1. last'[g] = last[g] /\ handled'[g] = handled[g]
      BY <1>1, <2>1, <2>3 DEF TypeOK
    <3>2. \A i \in Running : job'[i] # None
      BY <1>1, <2>1, PassEffect DEF Others, GoesOn, Running
    <3> QED BY <1>3, <3>1, <3>2
  <2> QED BY <2>2, <2>3
<1>11. ASSUME NEW j \in Jobs,
              LimitConnect(j) \/ LimitDisconnect(j) \/ Get(j) \/ InfoDisconnect(j)
       PROVE  Known(g)'
  <2>1. j \in Running /\ Pass(j) /\ UNCHANGED <<last, handled>>
    BY <1>11 DEF LimitConnect, LimitDisconnect, Get, InfoDisconnect, Runs
  <2> QED BY <1>5, <2>1
<1>12. ASSUME NEW j \in Jobs, LimitRead(j) \/ LimitMake(j) PROVE Known(g)'
  <2>1. /\ UNCHANGED <<last, handled>> /\ j \in Running
        /\ \/ job' = [job EXCEPT ![j].at = "lock"]
           \/ \E l \in Limiters : Hold(j, l)
    <3>1. j \in Running /\ job[j].gw \in Gateways
      BY <1>1, <1>12, RunningType DEF LimitRead, LimitMake, Runs
    <3> QED BY <1>1, <1>12, <3>1 DEF LimitRead, LimitMake
  <2>2. job[j].kind \in Counted
    BY <1>1, <1>12, <2>1 DEF LimitRead, LimitMake, JobInv
  <2>3. Others(j) /\ job'[j] # None
    BY <1>1, <2>1, <2>2, HoldEffect, LockEffect DEF GoesOn
  <2>4. \A i \in Running : job'[i] # None
    BY <2>3 DEF Others, Running
  <2> QED BY <1>4, <2>1, <2>4
<1>13. ASSUME NEW j \in Jobs, Limit(j) \/ Finish(j) PROVE Known(g)'
  <2>1. /\ j \in Running /\ UNCHANGED last /\ job[j].gw \in Gateways
        /\ job[j].kind = "uplink" => job[j].msg \in Uplinks
    BY <1>1, <1>13, RunningType DEF Limit, Finish, Runs
  <2>2. CASE Pass(j) /\ UNCHANGED handled
    BY <1>5, <2>1, <2>2
  <2>3. CASE /\ Refuse(j)
             /\ handled' = IF job[j].kind = "uplink"
                             THEN [handled EXCEPT ![job[j].gw] = @ \union {job[j].msg}] ELSE handled
    <3>1. handled[g] \subseteq handled'[g]
      BY <1>1, <2>1, <2>3 DEF TypeOK
    <3>2. job[j].kind = "uplink" => job[j].msg \in handled'[job[j].gw]
      BY <1>1, <2>1, <2>3 DEF TypeOK
    <3>3. Others(j)
      BY <1>1, <2>1, <2>3, RefuseEffect
    <3>4. \A i \in Running : job'[i] = None /\ Bears(i, g) => last[g] \in handled'[g]
      BY <3>2, <3>3 DEF Others, Running, Bears
    <3> QED BY <1>3, <2>1, <3>1, <3>4
  <2>4. CASE Limit(j)
    BY <2>2, <2>3, <2>4 DEF Limit
  <2>5. CASE Finish(j)
    <3>1. job[j].waited /\ "backend" \notin faults
      BY <2>1 DEF TimeInv
    <3> QED BY <2>3, <2>5, <3>1 DEF Finish, Refuse
  <2> QED BY <1>13, <2>4, <2>5
<1>14. ASSUME NEW j \in Jobs, Timeout(j) \/ LimitFails(j) PROVE Known(g)'
  BY <1>14 DEF Timeout, LimitFails
<1>15. ASSUME \/ \E h \in Gateways : ConnectGateway(h) \/ Fetched(h) \/ Unset(h) \/ Expire(h)
              \/ \E l \in Lists, contents \in SUBSET Names : Read(l, contents)
              \/ UNCHANGED vars
       PROVE  Known(g)'
  <2>1. UNCHANGED <<last, handled, job>>
    BY <1>15 DEF ConnectGateway, Fetched, Unset, Expire, Read, vars
  <2>2. \A i \in Running : job'[i] # None
    BY <2>1 DEF Running
  <2> QED BY <1>4, <2>1, <2>2
<1> QED
  BY <1>7, <1>8, <1>9, <1>10, <1>11, <1>12, <1>13, <1>14, <1>15 DEF Next

\* What deduplicate refuses was handled or is on its way to be.
THEOREM KnownHandled == Spec => []KnownWasHandled
<1>1. Init => TimeInv /\ Alone /\ KnownInv
  BY DEF Init, TimeInv, Alone, KnownInv, Known, Running
<1>2. MiddlewareInv /\ TimeInv /\ Alone /\ KnownInv /\ [Next]_vars => TimeInv' /\ Alone' /\ KnownInv'
  <2> SUFFICES ASSUME MiddlewareInv, TimeInv, Alone, KnownInv, [Next]_vars
               PROVE  TimeInv' /\ Alone' /\ KnownInv'
    OBVIOUS
  <2>1. JobEffect /\ faults' = faults
    BY JobStep DEF MiddlewareInv, TypeOK
  <2> QED BY <2>1, AloneStep, KnownStep
<1>3. MiddlewareInv /\ KnownInv => KnownWasHandled
  <2> SUFFICES ASSUME MiddlewareInv, KnownInv, faults \intersect {"timeout", "backend", "counter"} = {},
                      NEW g \in Gateways, last[g] # None, last[g] \notin handled[g]
               PROVE  \E j \in Of(g) : /\ job[j].kind = "uplink" /\ job[j].msg = last[g]
                                       /\ ~Runs(j, "lorafilter") /\ ~Runs(j, "blacklist")
                                       /\ ~Runs(j, "deduplicate")
    BY DEF KnownWasHandled
  <2>1. PICK j \in Running : Bears(j, g)
    BY DEF KnownInv, Known
  <2>2. \A n \in First(job[j].rest) : Chain[n] \in {"ratelimit", "gatewayinfo"}
    <3>1. job[j].rest \subseteq 1 .. 5
      BY RunningType, Places DEF MiddlewareInv
    <3>2. \A n \in First(job[j].rest) : n \in {4, 5}
      BY <2>1, <3>1 DEF First, Bears
    <3> QED BY <3>2, Places
  <2> QED BY <2>1, <2>2 DEF Bears, Of, Runs
<1> QED
  BY <1>1, <1>2, <1>3, TypeInit, TypeStep, PTL DEF Spec

-----------------------------------------------------------------------------
(* What is kept of a gateway that has gone *)

\* The gateway is not there, or its disconnect message is past the nth middleware.
Leaving(g, n) ==
  ~connected[g] \/ \E j \in Running : job[j].gw = g /\ job[j].kind = "disconnect" /\ n \notin job[j].rest

\* The middleware that the disconnect message has passed forgot the gateway; it is
\* not fetched for, and what was fetched is there or about to be removed.
Forget(g) ==
  /\ ~connected[g] => \A j \in Running : job[j].gw # g
  /\ Leaving(g, 3) => last[g] = None
  /\ Leaving(g, 4) => limits[g] = None
  /\ faults \intersect {"slow", "stored"} = {} =>
       /\ Leaving(g, 0) => fetching[g] = 0
       /\ Leaving(g, 5) => info[g] = None \/ unsets[g] > 0
ForgetInv ==
  faults \intersect {"parallel", "late", "timeout", "spelling"} = {} =>
  /\ \A g \in Gateways : Forget(g)
  /\ \A j \in Running : job[j].gw \in Names

\* What is kept of a gateway.
SameOf(g) ==
  /\ connected'[g] = connected[g] /\ last'[g] = last[g] /\ limits'[g] = limits[g]
  /\ fetching'[g] = fetching[g] /\ info'[g] = info[g] /\ unsets'[g] = unsets[g]

\* A step on what is of another gateway keeps it.
LEMMA ElsewhereForget ==
  ASSUME NEW g \in Gateways, Forget(g), faults' = faults, SameOf(g),
         NEW j \in Jobs, Others(j), job'[j] = None \/ job'[j].gw # g
  PROVE  Forget(g)'
<1>1. \A i \in Running' : job'[i].gw = g => i \in Running /\ job'[i] = job[i]
  BY RunningAfter DEF Running
<1>2. \A n : Leaving(g, n)' => Leaving(g, n)
  BY <1>1 DEF Leaving, SameOf
<1> QED BY <1>1, <1>2 DEF Forget, SameOf

\* A gateway that is there and has no disconnect message in hand is not forgotten.
LEMMA PresentForget ==
  ASSUME NEW g \in Gateways, connected'[g], \A i \in Running' : job'[i].gw = g => job'[i].kind # "disconnect"
  PROVE  Forget(g)'
<1>1. \A n : ~Leaving(g, n)'
  BY DEF Leaving
<1> QED BY <1>1 DEF Forget

\* Nor does a disconnect message run beside another message of its gateway.
LEMMA NoneBeside ==
  ASSUME Alone, faults \intersect {"parallel", "timeout"} = {}, NEW j \in Running, job[j].kind = "disconnect"
  PROVE  \A i \in Running : job[i].gw = job[j].gw => i = j
<1>1. "disconnect" \notin Counted
  BY DEF Counted
<1> QED BY <1>1 DEF Alone

\* A message of another kind goes on or ends.
LEMMA OtherForget ==
  ASSUME MiddlewareInv, Alone, faults \intersect {"parallel", "timeout"} = {},
         NEW j \in Running, job[j].kind # "disconnect", NEW g, g = job[j].gw, Forget(g),
         Others(j), job'[j] = None \/ GoesOn(j), connected'[g] = connected[g]
  PROVE  Forget(g)'
<1>1. g \in Gateways /\ connected[g]
  BY RunningType DEF MiddlewareInv, Forget
<1>2. \A i \in Running : job[i].gw = g => job[i].kind # "disconnect"
  BY NoneBeside
<1>3. \A i \in Running' : i \in Running /\ job'[i].gw = job[i].gw /\ job'[i].kind = job[i].kind
  BY RunningAfter DEF GoesOn, Running
<1>4. \A i \in Running' : job'[i].gw = g => job'[i].kind # "disconnect"
  BY <1>2, <1>3
<1>5. connected'[g]
  BY <1>1
<1> QED BY <1>1, <1>4, <1>5, PresentForget

\* A handler runs for messages of its kinds.
LEMMA RunsHandled ==
  ASSUME JobInv, NEW j \in Jobs, NEW m, Runs(j, m)
  PROVE  job[j].kind \in Handles(m)
BY RunningType DEF Runs, ChainFor, First

\* A disconnect message passes the nth middleware.
LEMMA PassForget ==
  ASSUME MiddlewareInv, Alone, faults \intersect {"parallel", "timeout"} = {}, faults' = faults,
         NEW j \in Running, Pass(j), job[j].kind = "disconnect", Forget(job[j].gw),
         NEW n \in 1 .. 5, Runs(j, Chain[n]), connected' = connected,
         NEW g, g = job[j].gw,
         n # 3 => last'[g] = last[g], n = 3 => last'[g] = None,
         n # 4 => limits'[g] = limits[g], n = 4 => limits'[g] = None,
         n # 5 => UNCHANGED unsets, n = 5 => unsets'[g] > 0, UNCHANGED <<fetching, info>>
  PROVE  Forget(g)'
<1>1. JobInv /\ g \in Gateways /\ job[j].rest \subseteq DOMAIN Chain
  BY RunningType DEF MiddlewareInv
<1>2. connected[g]
  BY DEF Forget
<1>3. First(job[j].rest) = {n}
  BY <1>1, RunsPlace
<1>4. /\ Others(j) /\ GoesOn(j) /\ job'[j].rest = job[j].rest \ {n}
  BY <1>1, <1>3, PassEffect
<1>5. \A i \in Running' : i \in Running /\ job'[i].gw = job[i].gw /\ job'[i].kind = job[i].kind
  BY <1>4, RunningAfter DEF GoesOn
<1>6. \A i \in Running' : job'[i].gw = g => i = j
  BY <1>5, NoneBeside
<1>7. \A m : m # n /\ Leaving(g, m)' => Leaving(g, m)
  <2> SUFFICES ASSUME NEW m, m # n, Leaving(g, m)' PROVE Leaving(g, m)
    OBVIOUS
  <2>1. m \notin job'[j].rest
    BY <1>2, <1>6 DEF Leaving
  <2>2. m \notin job[j].rest
    BY <1>4, <2>1
  <2> QED BY <2>2 DEF Leaving
<1>8. connected'[g]
  BY <1>2
<1>9. Leaving(g, 3)' => last'[g] = None
  BY <1>7 DEF Forget
<1>10. Leaving(g, 4)' => limits'[g] = None
  BY <1>7 DEF Forget
<1>11. faults \intersect {"slow", "stored"} = {} /\ Leaving(g, 0)' => fetching'[g] = 0
  BY <1>7 DEF Forget
<1>12. faults \intersect {"slow", "stored"} = {} /\ Leaving(g, 5)' => info'[g] = None \/ unsets'[g] > 0
  BY <1>7 DEF Forget
<1> QED BY <1>8, <1>9, <1>10, <1>11, <1>12 DEF Forget

\* Messages have IDs in lower case, if devices spell them so.
LEMMA NamesStep ==
  ASSUME JobInv, limits \in [Gateways -> Limiters \union {None}], "spelling" \notin faults,
         \A j \in Running : job[j].gw \in Names, [Next]_vars
  PROVE  \A j \in Running' : job'[j].gw \in Names
<1>1. JobEffect
  BY JobStep
<1>2. CASE UNCHANGED job
  BY <1>2 DEF Running
<1>3. ASSUME NEW j \in Running, Others(j), job'[j] = None \/ WaitsOn(j)
      PROVE  \A i \in Running' : job'[i].gw \in Names
  BY <1>3, RunningAfter DEF WaitsOn, GoesOn, Running
<1>4. ASSUME NEW j \in Jobs, Others(j), Starts(j)
      PROVE  \A i \in Running' : job'[i].gw \in Names
  <2>1. job'[j].gw \in Names
    BY <1>4 DEF Starts
  <2> QED BY <1>4, <2>1, RunningAfter
<1> QED BY <1>1, <1>2, <1>3, <1>4 DEF JobEffect

\* Every step keeps a gateway that leaves forgotten.
LEMMA ForgetStep ==
  ASSUME MiddlewareInv, TimeInv, Alone, Alone', ForgetInv, [Next]_vars
  PROVE  ForgetInv'
<1>1. /\ TypeOK /\ JobInv /\ faults' = faults /\ limits \in [Gateways -> Limiters \union {None}]
  BY JobStep DEF MiddlewareInv, TypeOK
<1> SUFFICES ASSUME faults \intersect {"parallel", "late", "timeout", "spelling"} = {}
             PROVE  (\A g \in Gateways : Forget(g)') /\ \A j \in Running' : job'[j].gw \in Names
  BY <1>1 DEF ForgetInv
<1>24. \A j \in Running' : job'[j].gw \in Names
  BY <1>1, NamesStep DEF ForgetInv
<1> SUFFICES ASSUME NEW g \in Gateways PROVE Forget(g)'
  BY <1>24
<1>2. (\A h \in Gateways : Forget(h)) /\ \A j \in Running : job[j].gw \in Names
  BY DEF ForgetInv
<1>3. faults \intersect {"parallel", "timeout"} = {} /\ faults' \intersect {"parallel", "timeout"} = {}
  BY <1>1
<1>4. ASSUME NEW j \in Running, job[j].kind # "disconnect", Pass(j) \/ Refuse(j) \/ LimitRead(j) \/ LimitMake(j),
             connected' = connected, job[j].gw # g => SameOf(g)
      PROVE  Forget(g)'
  <2>1. Others(j) /\ (job'[j] = None \/ GoesOn(j))
    <3>1. CASE LimitRead(j) \/ LimitMake(j)
      <4>1. job[j].gw \in Gateways /\ job[j].kind \in Counted
        BY <1>1, <3>1, RunningType DEF LimitRead, LimitMake, JobInv
      <4>2. job' = [job EXCEPT ![j].at = "lock"] \/ \E l \in Limiters : Hold(j, l)
        BY <1>1, <3>1, <4>1 DEF LimitRead, LimitMake
      <4> QED BY <1>1, <4>1, <4>2, HoldEffect, LockEffect
    <3>2. CASE Pass(j) \/ Refuse(j)
      BY <1>1, <3>2, PassEffect, RefuseEffect
    <3> QED BY <1>4, <3>1, <3>2
  <2>2. CASE job[j].gw = g
    BY <1>2, <1>3, <1>4, <2>1, <2>2, OtherForget
  <2>3. CASE job[j].gw # g
    <3>1. j \in Jobs /\ (job'[j] = None \/ job'[j].gw # g)
      BY <2>1, <2>3 DEF GoesOn, Running
    <3> QED BY <1>1, <1>2, <1>4, <2>1, <2>3, <3>1, ElsewhereForget
  <2> QED BY <2>2, <2>3
<1>5. ASSUME NEW j \in Running, Pass(j), job[j].gw # g, SameOf(g) PROVE Forget(g)'
  <2>1. Others(j) /\ GoesOn(j) /\ j \in Jobs
    BY <1>1, <1>5, PassEffect DEF Running
  <2> QED BY <1>1, <1>2, <1>5, <2>1, ElsewhereForget DEF GoesOn
<1>6. ASSUME NEW j \in Jobs, NEW h \in Gateways, NEW kind \in Kinds, NEW m \in Uplinks \union {None},
             kind = "uplink" => m \in Uplinks, Execute(j, kind, h, m),
             connected'[h], h # g => connected'[g] = connected[g],
             kind = "disconnect" => connected[h] /\ ("slow" \in faults \/ fetching[h] = 0)
      PROVE  Forget(g)'
  <2>1. /\ Others(j) /\ job[j] = None /\ job'[j] # None
        /\ job'[j].kind = kind /\ job'[j].gw = h /\ job'[j].rest = ChainFor(kind)
    BY <1>1, <1>6, ExecuteEffect
  <2>2. UNCHANGED <<last, limits, fetching, info, unsets>>
    BY <1>6 DEF Execute, limitVars, infoVars
  <2>3. j \in Running'
    BY <2>1 DEF Running
  <2>4. CASE h # g
    <3>1. SameOf(g)
      BY <1>6, <2>2, <2>4 DEF SameOf
    <3> QED BY <1>1, <1>2, <2>1, <2>4, <3>1, ElsewhereForget
  <2>5. CASE h = g /\ kind # "disconnect"
    <3>1. \A i \in Running' : job'[i].gw = g => job'[i].kind # "disconnect"
      <4>1. "disconnect" \notin Counted
        BY DEF Counted
      <4> QED BY <1>3, <2>1, <2>3, <2>5, <4>1 DEF Alone
    <3> QED BY <1>6, <2>5, <3>1, PresentForget
  <2>6. CASE h = g /\ kind = "disconnect"
    <3>1. \A i \in Running' : job'[i].gw = g => i = j
      <4>1. "disconnect" \notin Counted
        BY DEF Counted
      <4> QED BY <1>3, <2>1, <2>3, <2>6, <4>1 DEF Alone
    <3>2. \A n \in {3, 4, 5} : ~Leaving(g, n)'
      BY <1>6, <2>1, <2>6, <3>1, Places DEF Leaving
    <3>3. faults \intersect {"slow", "stored"} = {} => fetching'[g] = 0
      BY <1>6, <2>2, <2>6
    <3> QED BY <1>1, <1>6, <2>6, <3>2, <3>3 DEF Forget
  <2> QED BY <2>4, <2>5, <2>6
<1>7. ASSUME NEW j \in Jobs, NEW h \in Gateways, Connect(j, h) \/ Disconnect(j, h) PROVE Forget(g)'
  <2>1. {"connect", "disconnect"} \subseteq Kinds
    BY DEF Kinds
  <2>4. Lower[h] = h
    BY <1>7 DEF Connect, Disconnect, Names
  <2>2. CASE Connect(j, h)
    <3>1. connected'[h] /\ (h # g => connected'[g] = connected[g])
      BY <1>1, <2>2, <2>4 DEF Connect, TypeOK
    <3> QED BY <1>6, <2>1, <2>2, <3>1 DEF Connect
  <2>3. CASE Disconnect(j, h)
    BY <1>6, <2>1, <2>3, <2>4 DEF Disconnect
  <2> QED BY <1>7, <2>2, <2>3
<1>8. ASSUME NEW j \in Jobs, NEW h \in Gateways, NEW k \in Counted, NEW m \in Uplinks \union {None},
             Message(j, k, h, m)
      PROVE  Forget(g)'
  <2>1. k \in Kinds /\ k # "disconnect"
    BY DEF Kinds, Counted
  <2>2. connected'[h] /\ UNCHANGED connected
    BY <1>8 DEF Message
  <2> QED BY <1>6, <1>8, <2>1, <2>2 DEF Message
<1>9. ASSUME NEW j \in Jobs, LoraFilter(j) \/ Check(j) PROVE Forget(g)'
  <2>1. j \in Running /\ (Pass(j) \/ Refuse(j)) /\ connected' = connected /\ SameOf(g)
    BY <1>9 DEF LoraFilter, Check, Runs, SameOf, limitVars, infoVars
  <2>2. job[j].kind # "disconnect"
    BY <1>1, <1>9, RunsHandled DEF LoraFilter, Check, Handles
  <2> QED BY <1>4, <2>1, <2>2
<1>10. ASSUME NEW j \in Jobs, Deduplicate(j) PROVE Forget(g)'
  <2>1. /\ j \in Running /\ (Pass(j) \/ Refuse(j)) /\ connected' = connected /\ job[j].kind # "disconnect"
        /\ last' = last \/ last' = [last EXCEPT ![job[j].gw] = job[j].msg]
    BY <1>10 DEF Deduplicate, Runs
  <2>2. job[j].gw # g => SameOf(g)
    BY <1>1, <1>10, <2>1 DEF Deduplicate, TypeOK, SameOf, limitVars, infoVars
  <2> QED BY <1>4, <2>1, <2>2
<1>11. ASSUME NEW j \in Jobs, LimitConnect(j) PROVE Forget(g)'
  <2>1. /\ j \in Running /\ Pass(j) /\ connected' = connected /\ job[j].kind # "disconnect"
        /\ \E l : limits' = [limits EXCEPT ![job[j].gw] = l]
    BY <1>11 DEF LimitConnect, Runs, NewLimits
  <2>2. job[j].gw # g => SameOf(g)
    BY <1>1, <1>11, <2>1 DEF LimitConnect, TypeOK, SameOf, infoVars
  <2> QED BY <1>4, <2>1, <2>2
<1>12. ASSUME NEW j \in Jobs, LimitRead(j) \/ LimitMake(j) PROVE Forget(g)'
  <2>1. /\ j \in Running /\ connected' = connected /\ job[j].kind # "disconnect"
        /\ limits' = limits \/ \E l : limits' = [limits EXCEPT ![job[j].gw] = l]
    BY <1>1, <1>12 DEF LimitRead, LimitMake, NewLimits, Runs, JobInv, Counted, limitVars
  <2>2. job[j].gw # g => SameOf(g)
    BY <1>1, <1>12, <2>1 DEF LimitRead, LimitMake, TypeOK, SameOf, infoVars
  <2> QED BY <1>4, <1>12, <2>1, <2>2
<1>13. ASSUME NEW j \in Jobs, Limit(j) \/ LimitFails(j) PROVE Forget(g)'
  <2>1. /\ j \in Running /\ (Pass(j) \/ Refuse(j)) /\ connected' = connected /\ SameOf(g)
        /\ job[j].kind # "disconnect"
    BY <1>1, <1>13 DEF Limit, LimitFails, Runs, JobInv, Counted, SameOf, infoVars
  <2> QED BY <1>4, <2>1
<1>14. ASSUME NEW j \in Jobs, Get(j) PROVE Forget(g)'
  <2>1. j \in Running /\ Pass(j) /\ connected' = connected /\ job[j].kind # "disconnect"
    BY <1>14 DEF Get, Runs
  <2>2. job[j].gw # g => SameOf(g)
    BY <1>1, <1>14 DEF Get, TypeOK, SameOf, limitVars
  <2> QED BY <1>4, <2>1, <2>2
<1>15. ASSUME NEW j \in Jobs, DeduplicateDisconnect(j) PROVE Forget(g)'
  <2>1. /\ j \in Running /\ Pass(j) /\ connected' = connected /\ job[j].kind = "disconnect"
        /\ job[j].gw \in Gateways /\ Runs(j, Chain[3]) /\ UNCHANGED <<limits, fetching, info, unsets>>
        /\ last' = [last EXCEPT ![job[j].gw] = None]
    BY <1>1, <1>15, Places, RunningType DEF DeduplicateDisconnect, Runs, limitVars, infoVars
  <2>2. last'[job[j].gw] = None /\ (job[j].gw # g => last'[g] = last[g])
    BY <1>1, <2>1 DEF TypeOK
  <2>3. CASE job[j].gw = g
    BY <1>1, <1>2, <1>3, <2>1, <2>2, <2>3, PassForget
  <2> QED BY <1>5, <2>1, <2>2, <2>3 DEF SameOf
<1>16. ASSUME NEW j \in Jobs, LimitDisconnect(j) PROVE Forget(g)'
  <2>1. /\ j \in Running /\ Pass(j) /\ connected' = connected /\ job[j].kind = "disconnect"
        /\ job[j].gw \in Gateways /\ Runs(j, Chain[4]) /\ UNCHANGED <<last, fetching, info, unsets>>
        /\ limits' = [limits EXCEPT ![job[j].gw] = None]
    BY <1>1, <1>16, Places, RunningType DEF LimitDisconnect, Runs, infoVars
  <2>2. limits'[job[j].gw] = None /\ (job[j].gw # g => limits'[g] = limits[g])
    BY <1>1, <2>1 DEF TypeOK
  <2>3. CASE job[j].gw = g
    BY <1>1, <1>2, <1>3, <2>1, <2>2, <2>3, PassForget
  <2> QED BY <1>5, <2>1, <2>2, <2>3 DEF SameOf
<1>17. ASSUME NEW j \in Jobs, InfoDisconnect(j) PROVE Forget(g)'
  <2>1. /\ j \in Running /\ Pass(j) /\ connected' = connected /\ job[j].kind = "disconnect"
        /\ job[j].gw \in Gateways /\ Runs(j, Chain[5]) /\ UNCHANGED <<last, limits, fetching, info>>
        /\ unsets' = [unsets EXCEPT ![job[j].gw] = @ + 1]
    BY <1>1, <1>17, Places, RunningType DEF InfoDisconnect, Runs, limitVars
  <2>2. unsets'[job[j].gw] > 0 /\ (job[j].gw # g => unsets'[g] = unsets[g])
    BY <1>1, <2>1, MiddlewareNumbersAssumption DEF TypeOK
  <2>3. CASE job[j].gw = g
    BY <1>1, <1>2, <1>3, <2>1, <2>2, <2>3, PassForget
  <2> QED BY <1>5, <2>1, <2>2, <2>3 DEF SameOf
<1>18. ASSUME NEW j \in Jobs, Finish(j) PROVE Forget(g)'
  <2>1. /\ j \in Running /\ job[j].rest = {} /\ Refuse(j) /\ job[j].waited /\ job[j].gw \in Gateways
        /\ UNCHANGED <<last, limits, fetching, info, unsets>>
    BY <1>1, <1>18, RunningType DEF Finish, Refuse, TimeInv, limitVars, infoVars
  <2>2. Others(j) /\ job'[j] = None
    BY <1>1, <2>1, RefuseEffect
  <2>3. CASE job[j].kind # "disconnect"
    <3>1. connected' = connected
      BY <1>18, <2>3 DEF Finish
    <3>2. SameOf(g)
      BY <2>1, <3>1 DEF SameOf
    <3> QED BY <1>4, <2>1, <2>3, <3>1, <3>2
  <2>4. CASE job[j].kind = "disconnect"
    <3>1. connected' = [connected EXCEPT ![job[j].gw] = FALSE]
      BY <1>2, <1>18, <2>1, <2>4 DEF Finish, Names
    <3>2. CASE job[j].gw = g
      <4>1. \A n : Leaving(g, n)
        BY <2>1, <2>4, <3>2 DEF Leaving
      <4>2. \A i \in Running' : job'[i].gw # g
        <5>1. \A i \in Running' : i # j /\ i \in Running /\ job'[i] = job[i]
          BY <2>2, RunningAfter DEF Running
        <5>2. \A i \in Running : job[i].gw = g => i = j
          BY <1>3, <2>1, <2>4, <3>2, NoneBeside
        <5> QED BY <5>1, <5>2
      <4>3. /\ last[g] = None /\ limits[g] = None
            /\ faults \intersect {"slow", "stored"} = {} =>
                 fetching[g] = 0 /\ (info[g] = None \/ unsets[g] > 0)
        BY <1>2, <4>1 DEF Forget
      <4> QED BY <1>1, <2>1, <4>2, <4>3 DEF Forget
    <3>3. CASE job[j].gw # g
      <4>1. SameOf(g) /\ j \in Jobs
        BY <1>1, <2>1, <3>1, <3>3 DEF SameOf, TypeOK, Running
      <4> QED BY <1>1, <1>2, <2>2, <4>1, ElsewhereForget
    <3> QED BY <3>2, <3>3
  <2> QED BY <2>3, <2>4
<1>19. ASSUME NEW j \in Jobs, Timeout(j) PROVE Forget(g)'
  BY <1>19 DEF Timeout
<1>20. ASSUME UNCHANGED job, SameOf(g) PROVE Forget(g)'
  <2>1. Running' = Running /\ \A n : Leaving(g, n)' <=> Leaving(g, n)
    BY <1>20 DEF Running, Leaving, SameOf
  <2> QED BY <1>1, <1>2, <1>20, <2>1 DEF Forget, SameOf
<1>21. ASSUME NEW h \in Gateways, ConnectGateway(h) PROVE Forget(g)'
  <2>1. /\ UNCHANGED <<job, last, limits, fetching, info, unsets>>
        /\ ~connected[h] /\ connected' = [connected EXCEPT ![h] = TRUE]
    BY <1>21 DEF ConnectGateway, limitVars, infoVars
  <2>2. CASE h = g
    <3>1. connected'[g] /\ \A i \in Running' : job'[i].gw # g
      BY <1>1, <1>2, <2>1, <2>2 DEF Forget, Running, TypeOK
    <3> QED BY <3>1, PresentForget
  <2>3. CASE h # g
    BY <1>1, <1>20, <2>1, <2>3 DEF SameOf, TypeOK
  <2> QED BY <2>2, <2>3
<1>22. ASSUME NEW h \in Gateways, Fetched(h) \/ Unset(h) \/ Expire(h) PROVE Forget(g)'
  <2>1. UNCHANGED <<job, connected, last, limits, faults>>
    BY <1>22 DEF Fetched, Unset, Expire, limitVars
  <2>2. CASE h # g
    <3>1. SameOf(g)
      BY <1>1, <1>22, <2>1, <2>2 DEF SameOf, Fetched, Unset, Expire, TypeOK
    <3> QED BY <1>20, <2>1, <3>1
  <2>3. CASE h = g
    <3>1. \A n : Leaving(g, n)' <=> Leaving(g, n)
      BY <2>1 DEF Running, Leaving
    <3>2. Leaving(g, 5) => Leaving(g, 0)
      <4>1. \A j \in Running : 0 \notin job[j].rest
        BY <1>1, RunningType, Places
      <4> QED BY <4>1 DEF Leaving
    <3>3. ASSUME faults \intersect {"slow", "stored"} = {}
          PROVE  /\ Leaving(g, 0) => fetching'[g] = 0
                 /\ Leaving(g, 5) => info'[g] = None \/ unsets'[g] > 0
      <4>1. /\ Leaving(g, 0) => fetching[g] = 0
            /\ Leaving(g, 5) => info[g] = None \/ unsets[g] > 0
        BY <1>2, <3>3 DEF Forget
      <4>2. CASE Fetched(g)
        <5>1. ~Leaving(g, 0)
          BY <4>1, <4>2 DEF Fetched
        <5> QED BY <3>2, <5>1
      <4>3. CASE Unset(g)
        BY <1>1, <4>1, <4>3 DEF Unset, TypeOK
      <4>4. CASE Expire(g)
        <5>1. info[g] # None /\ UNCHANGED <<fetching, unsets>>
          BY <4>4, MiddlewareSetsAssumption DEF Expire
        <5> QED BY <4>1, <5>1
      <4> QED BY <1>22, <2>3, <4>2, <4>3, <4>4
    <3> QED BY <1>2, <2>1, <3>1, <3>3 DEF Forget, Running
  <2> QED BY <2>2, <2>3
<1>23. ASSUME (\E l \in Lists, contents \in SUBSET Names : Read(l, contents)) \/ UNCHANGED vars
       PROVE  Forget(g)'
  BY <1>20, <1>23 DEF Read, vars, SameOf, limitVars, infoVars
<1> QED
  BY <1>7, <1>8, <1>9, <1>10, <1>11, <1>12, <1>13, <1>14, <1>15, <1>16, <1>17, <1>18, <1>19,
     <1>21, <1>22, <1>23 DEF Next

\* Nothing is kept of a gateway that has gone.
THEOREM GoneIsForgotten == Spec => []Forgotten
<1>1. Init => TimeInv /\ Alone /\ ForgetInv
  <2> SUFFICES ASSUME Init PROVE TimeInv /\ Alone /\ ForgetInv
    OBVIOUS
  <2>1. Running = {}
    BY DEF Init, Running
  <2>2. ASSUME NEW g \in Gateways PROVE Forget(g)
    <3>1. last[g] = None /\ limits[g] = None /\ fetching[g] = 0
      BY DEF Init
    <3>2. "stored" \notin faults => info[g] = None
      BY DEF Init
    <3> QED BY <2>1, <3>1, <3>2 DEF Forget
  <2> QED BY <2>1, <2>2 DEF TimeInv, Alone, ForgetInv
<1>2. MiddlewareInv /\ TimeInv /\ Alone /\ ForgetInv /\ [Next]_vars => TimeInv' /\ Alone' /\ ForgetInv'
  <2> SUFFICES ASSUME MiddlewareInv, TimeInv, Alone, ForgetInv, [Next]_vars
               PROVE  TimeInv' /\ Alone' /\ ForgetInv'
    OBVIOUS
  <2>1. JobEffect /\ faults' = faults
    BY JobStep DEF MiddlewareInv, TypeOK
  <2>2. TimeInv' /\ Alone'
    BY <2>1, AloneStep
  <2> QED BY <2>2, ForgetStep
<1>3. ForgetInv => Forgotten
  <2> SUFFICES ASSUME ForgetInv, NEW g \in Gateways, ~connected[g], Of(g) = {}, unsets[g] = 0,
                      faults \intersect {"parallel", "late", "timeout", "spelling"} = {}
               PROVE  /\ last[g] = None /\ limits[g] = None
                      /\ faults \intersect {"slow", "stored"} = {} => info[g] = None
    BY DEF Forgotten
  <2>1. Forget(g) /\ \A n : Leaving(g, n)
    BY DEF ForgetInv, Leaving
  <2> QED BY <2>1 DEF Forget
<1> QED
  BY <1>1, <1>2, <1>3, TypeInit, TypeStep, PTL DEF Spec
=============================================================================
