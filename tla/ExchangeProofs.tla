--------------------------- MODULE ExchangeProofs ---------------------------
(***************************************************************************)
(* Theorems about Exchange for every set of gateways, backends, workers    *)
(* and done channels.                                                      *)
(***************************************************************************)
EXTENDS Exchange, FiniteSetTheorems, TLAPS

-----------------------------------------------------------------------------
(* What the operators of the model do *)

\* `go activate...` for every backend: only free slots change, and every
\* backend of the ID gets one of its own (exchange.go:175-181, 242-247).
LEMMA ActivateEffect ==
  ASSUME TypeOK, NEW id \in Ids, Activate(id)
  PROVE  /\ apc' \in [Chans -> {"free", "subscribe", "register", "run", "send", "unsubscribe"}]
         /\ task' \in [Chans -> (Backends \X Ids) \union {NoTask}]
         /\ gauge' \in Int
         /\ \A c \in Chans :
              \/ apc'[c] = apc[c] /\ task'[c] = task[c]
              \/ apc[c] = "free" /\ apc'[c] = "subscribe" /\ task'[c] \in Backends \X {id}
         /\ \A be \in BackendsOf(id) : \E c \in Chans :
              apc[c] = "free" /\ apc'[c] = "subscribe" /\ task'[c] = <<be, id>>
         /\ \A c, d \in Chans : /\ apc[c] = "free" /\ apc'[c] = "subscribe"
                                /\ apc[d] = "free" /\ apc'[d] = "subscribe"
                                /\ task'[c] = task'[d]
                                => c = d
<1>1. PICK f \in [BackendsOf(id) -> FreeChans] :
        /\ IsInjective(f)
        /\ apc' = [c \in Chans |-> IF c \in Range(f) THEN "subscribe" ELSE apc[c]]
        /\ task' = [c \in Chans |-> IF c \in Range(f)
                                    THEN <<CHOOSE be \in BackendsOf(id) : f[be] = c, id>>
                                    ELSE task[c]]
  BY DEF Activate
<1> DEFINE server(c) == CHOOSE be \in BackendsOf(id) : f[be] = c
<1>2. BackendsOf(id) \subseteq Backends
  BY DEF BackendsOf, Backends
<1>3. \A c \in Range(f) : server(c) \in BackendsOf(id) /\ f[server(c)] = c
  BY DEF Range
<1>4. \A be \in BackendsOf(id) : f[be] \in Range(f) /\ server(f[be]) = be
  <2> TAKE be \in BackendsOf(id)
  <2>1. f[be] \in Range(f)
    BY DEF Range
  <2>2. server(f[be]) \in BackendsOf(id) /\ f[server(f[be])] = f[be]
    BY <2>1, <1>3
  <2>3. server(f[be]) = be
    BY <2>2, <1>1 DEF IsInjective
  <2> QED BY <2>1, <2>3
<1>5. \A c \in Range(f) : c \in Chans /\ apc[c] = "free"
  BY DEF Range, FreeChans
<1>6. \A c \in Chans :
        /\ apc'[c] = IF c \in Range(f) THEN "subscribe" ELSE apc[c]
        /\ task'[c] = IF c \in Range(f) THEN <<server(c), id>> ELSE task[c]
  BY <1>1
<1>7. \A c \in Range(f) : <<server(c), id>> \in Backends \X {id}
  BY <1>2, <1>3
<1>8. /\ apc' \in [Chans -> {"free", "subscribe", "register", "run", "send", "unsubscribe"}]
      /\ task' \in [Chans -> (Backends \X Ids) \union {NoTask}]
  <2>1. apc' \in [Chans -> {"free", "subscribe", "register", "run", "send", "unsubscribe"}]
    BY <1>1 DEF TypeOK
  <2>2. \A c \in Chans : (IF c \in Range(f) THEN <<server(c), id>> ELSE task[c])
                            \in (Backends \X Ids) \union {NoTask}
    BY <1>7 DEF TypeOK
  <2> HIDE DEF server
  <2>3. task' = [c \in Chans |-> IF c \in Range(f) THEN <<server(c), id>> ELSE task[c]]
    BY <1>1 DEF server
  <2> QED BY <2>1, <2>2, <2>3
<1> HIDE DEF server
<1>9. gauge' \in Int
  BY DEF Activate, TypeOK
<1>10. \A c \in Chans :
         \/ apc'[c] = apc[c] /\ task'[c] = task[c]
         \/ apc[c] = "free" /\ apc'[c] = "subscribe" /\ task'[c] \in Backends \X {id}
  BY <1>5, <1>6, <1>7
<1>11. ASSUME NEW be \in BackendsOf(id)
       PROVE  \E c \in Chans :
                apc[c] = "free" /\ apc'[c] = "subscribe" /\ task'[c] = <<be, id>>
  <2>1. /\ f[be] \in Chans
        /\ apc[f[be]] = "free" /\ apc'[f[be]] = "subscribe" /\ task'[f[be]] = <<be, id>>
    BY <1>4, <1>5, <1>6, <1>11
  <2> QED BY <2>1
<1>12. ASSUME NEW c \in Chans, NEW d \in Chans, task'[c] = task'[d],
              apc[c] = "free", apc'[c] = "subscribe", apc[d] = "free", apc'[d] = "subscribe"
       PROVE  c = d
  <2>1. c \in Range(f) /\ d \in Range(f)
    BY <1>6, <1>12
  <2>2. server(c) = server(d)
    <3>1. <<server(c), id>> = <<server(d), id>>
      BY <1>6, <1>12, <2>1
    <3> QED BY <3>1
  <2> QED BY <1>3, <2>1, <2>2
<1> QED BY <1>8, <1>9, <1>10, <1>11, <1>12

-----------------------------------------------------------------------------
(* The control invariant *)

\* Inductive: CloseOnce needs SlotShape (a slot is free only when no list holds
\* its channel), and both need to know the message a worker has in hand.
ControlInv == TypeOK /\ ActivationShape /\ CloseOnce /\ Stoppable

\* The control invariant holds when the exchange has been made (New).
LEMMA InitControl == Init => ControlInv
<1> SUFFICES ASSUME Init PROVE ControlInv
  OBVIOUS
<1> USE DEF Init, Registered
<1>1. TypeOK
  BY IdsAssumption DEF TypeOK
<1>2. ActivationShape /\ CloseOnce /\ Stoppable
  BY DEF ActivationShape, SlotShape, HandlerShape, CloseOnce, Stoppable
<1> QED BY <1>1, <1>2 DEF ControlInv

\* Types: every step keeps every variable in its set.
LEMMA TypeStep == ControlInv /\ [Next]_vars => TypeOK'
<1> SUFFICES ASSUME ControlInv, [Next]_vars PROVE TypeOK'
  OBVIOUS
<1>0. TypeOK /\ SlotShape /\ HandlerShape
  BY DEF ControlInv, ActivationShape
<1> USE <1>0 DEF TypeOK, Done, Goto, workerVars, actVars, doneVars, bootVars
<1>m. \A m \in Messages : m.gw \in Gateways /\ m.key \in Keys \union {NoKey} /\ m.gw \in Ids
  BY DEF Messages, Ids
<1>r. Registered \subseteq Chans
  BY DEF Registered
<1>1. ASSUME NEW s \in South, NEW m \in Messages, Offer(s, m) PROVE TypeOK'
  BY <1>1 DEF Offer
<1>2. ASSUME NEW s \in South, NEW w \in Workers, Receive(s, w) PROVE TypeOK'
  BY <1>2 DEF Receive
<1>3. ASSUME NEW w \in Workers, SetKey(w) PROVE TypeOK'
  <2>1. wmsg[w] \in Messages
    BY <1>3 DEF SetKey, HandlerShape
  <2> QED BY <1>3, <2>1, <1>m DEF SetKey
<1>4. ASSUME NEW w \in Workers, AddGateway(w) PROVE TypeOK'
  <2>1. wmsg[w].gw \in Ids
    BY <1>4, <1>m DEF AddGateway, HandlerShape
  <2> QED BY <1>4, <2>1 DEF AddGateway
<1>5. ASSUME NEW w \in Workers, ConnectRefused(w) PROVE TypeOK'
  BY <1>5 DEF ConnectRefused
<1>6. ASSUME NEW w \in Workers, ActivateGateway(w) PROVE TypeOK'
  <2>1. wmsg[w].gw \in Ids
    BY <1>6, <1>m DEF ActivateGateway, HandlerShape
  <2>2. Activate(wmsg[w].gw)
    BY <1>6 DEF ActivateGateway
  <2> QED BY <1>6, <2>1, <2>2, ActivateEffect DEF ActivateGateway
<1>7. ASSUME NEW w \in Workers, ContainsGateway(w) \/ ValidateKey(w) \/ DisconnectRefused(w)
      PROVE TypeOK'
  BY <1>7 DEF ContainsGateway, ValidateKey, DisconnectRefused
<1>8. ASSUME NEW w \in Workers, DeactivateNorth(w) PROVE TypeOK'
  <2>1. wmsg[w].gw \in Ids
    BY <1>8, <1>m DEF DeactivateNorth, HandlerShape
  <2> QED BY <1>8, <2>1 DEF DeactivateNorth, Delete
<1>9. ASSUME NEW w \in Workers, DeactivateSouth(w) PROVE TypeOK'
  <2>1. wmsg[w].gw \in Ids
    BY <1>9, <1>m DEF DeactivateSouth, HandlerShape
  <2> QED BY <1>9, <2>1 DEF DeactivateSouth, Delete
<1>10. ASSUME NEW w \in Workers, RemoveGateway(w) PROVE TypeOK'
  BY <1>10 DEF RemoveGateway
<1>11. ASSUME NEW w \in Workers, Route(w) \/ Quit(w) PROVE TypeOK'
  BY <1>11 DEF Route, Quit
<1>12. ASSUME NEW c \in Chans, NEW w \in Workers, Handoff(c, w) PROVE TypeOK'
  BY <1>12 DEF Handoff
<1>13. ASSUME NEW c \in Chans, Subscribe(c) \/ SubscribeFails(c) PROVE TypeOK'
  BY <1>13 DEF Subscribe, SubscribeFails
<1>14. ASSUME NEW c \in Chans, Register(c) PROVE TypeOK'
  <2>1. task[c] \in Backends \X Ids
    BY <1>14 DEF Register, SlotShape
  <2> QED BY <1>14, <2>1 DEF Register, Append
<1>15. ASSUME NEW c \in Chans, Take(c) \/ Leave(c) PROVE TypeOK'
  BY <1>15 DEF Take, Leave
<1>16. ASSUME NEW c \in Chans, Unsubscribe(c) PROVE TypeOK'
  BY <1>16 DEF Unsubscribe
<1>17. ASSUME NEW id \in Ids, ForceAdd(id) PROVE TypeOK'
  BY <1>17 DEF ForceAdd
<1>18. ASSUME ForceActivate PROVE TypeOK'
  <2>1. booting \in Ids /\ Activate(booting)
    BY <1>18 DEF ForceActivate
  <2> QED BY <1>18, <2>1, ActivateEffect DEF ForceActivate
<1>19. ASSUME CloseDone \/ Sweep PROVE TypeOK'
  BY <1>19, <1>r DEF CloseDone, Sweep
<1>20. ASSUME UNCHANGED vars PROVE TypeOK'
  BY <1>20 DEF vars
<1> QED
  BY <1>1, <1>2, <1>3, <1>4, <1>5, <1>6, <1>7, <1>8, <1>9, <1>10, <1>11, <1>12, <1>13,
     <1>14, <1>15, <1>16, <1>17, <1>18, <1>19, <1>20
     DEF Next, WorkerStep, ActivationStep, Boot

\* Handlers: a worker in a case of the select has that case's message in hand.
LEMMA HandlerStep == TypeOK /\ HandlerShape /\ [Next]_vars => HandlerShape'
<1> SUFFICES ASSUME TypeOK, HandlerShape, [Next]_vars PROVE HandlerShape'
  OBVIOUS
<1> USE DEF TypeOK, HandlerShape, Done, Goto, workerVars
<1>1. ASSUME NEW s \in South, NEW w \in Workers, Receive(s, w) PROVE HandlerShape'
  <2>1. held[s] \in Messages /\ held[s].kind \in {"connect", "disconnect"}
    BY <1>1 DEF Receive, Messages
  <2> QED BY <1>1, <2>1 DEF Receive
<1>2. ASSUME NEW w \in Workers,
             SetKey(w) \/ AddGateway(w) \/ ConnectRefused(w) \/ ActivateGateway(w)
      PROVE  HandlerShape'
  BY <1>2 DEF SetKey, AddGateway, ConnectRefused, ActivateGateway
<1>3. ASSUME NEW w \in Workers,
             \/ ContainsGateway(w) \/ ValidateKey(w) \/ DisconnectRefused(w)
             \/ DeactivateNorth(w) \/ DeactivateSouth(w) \/ RemoveGateway(w)
      PROVE  HandlerShape'
  BY <1>3 DEF ContainsGateway, ValidateKey, DisconnectRefused, DeactivateNorth,
              DeactivateSouth, RemoveGateway
<1>4. ASSUME NEW w \in Workers, Route(w) \/ Quit(w) \/ (\E c \in Chans : Handoff(c, w))
      PROVE  HandlerShape'
  BY <1>4 DEF Route, Quit, Handoff
<1>5. ASSUME UNCHANGED workerVars PROVE HandlerShape'
  BY <1>5
<1>6. ASSUME \/ \E s \in South, m \in Messages : Offer(s, m)
             \/ \E c \in Chans : ActivationStep(c)
             \/ Boot \/ CloseDone \/ Sweep
      PROVE  HandlerShape'
  BY <1>5, <1>6 DEF Offer, ActivationStep, Subscribe, SubscribeFails, Register, Take, Leave, Unsubscribe,
     Boot, ForceAdd, ForceActivate, CloseDone, Sweep
<1>7. ASSUME UNCHANGED vars PROVE HandlerShape'
  BY <1>5, <1>7 DEF vars
<1> QED
  BY <1>1, <1>2, <1>3, <1>4, <1>6, <1>7 DEF Next, WorkerStep

\* Slots and done lists: what happens to one done channel.
SlotInv == SlotShape /\ CloseOnce /\ Stoppable

\* Starting activations takes free slots, which no list mentions.
LEMMA ActivateStep ==
  ASSUME TypeOK, SlotInv, NEW id \in Ids, Activate(id), UNCHANGED doneVars
  PROVE  SlotInv'
<1>1. \A c \in Chans :
        \/ apc'[c] = apc[c] /\ task'[c] = task[c]
        \/ apc[c] = "free" /\ apc'[c] = "subscribe" /\ task'[c] # NoTask
  BY ActivateEffect, NullAssumption
<1>2. UNCHANGED <<closed, northDone, southDone>> /\ Registered' = Registered
  BY DEF doneVars, Registered
<1>3. \A c \in Chans : apc[c] = "free" => c \notin closed /\ c \notin Registered
  BY DEF SlotInv, SlotShape
<1>4. SlotShape'
  BY <1>1, <1>2, <1>3 DEF SlotInv, SlotShape
<1>5. Stoppable'
  BY <1>1, <1>2, <1>3 DEF SlotInv, Stoppable
<1>6. \A i \in Ids : \A c \in northDone[i] \union southDone[i] : c \in Chans /\ c \in Registered
  BY DEF Registered, TypeOK
<1>7. CloseOnce'
  BY <1>1, <1>2, <1>3, <1>6 DEF SlotInv, CloseOnce
<1> QED BY <1>4, <1>5, <1>7 DEF SlotInv

\* Registering puts an open channel into the one list of its gateway and side.
LEMMA RegisterStep ==
  ASSUME TypeOK, SlotInv, NEW c \in Chans, Register(c)
  PROVE  SlotInv'
<1>1. PICK be \in Backends, id \in Ids : task[c] = <<be, id>>
  BY DEF Register, SlotInv, SlotShape, TypeOK
<1>2. /\ UNCHANGED <<task, closed>>
      /\ apc[c] = "register" /\ c \notin closed
      /\ \A d \in Chans : apc'[d] = IF d = c THEN "run" ELSE apc[d]
  BY DEF Register, SlotInv, SlotShape, TypeOK
<1>3. \A i \in Ids : \A d :
        /\ d \in northDone'[i] <=> d \in northDone[i] \/ (be \in North /\ i = id /\ d = c)
        /\ d \in southDone'[i] <=> d \in southDone[i] \/ (be \in South /\ i = id /\ d = c)
  <2>1. CASE be \in North
    <3>1. northDone' = [northDone EXCEPT ![id] = @ \union {c}] /\ UNCHANGED southDone
      BY <1>1, <2>1, BackendsAssumption DEF Register, Append
    <3> QED BY <2>1, <3>1, BackendsAssumption DEF TypeOK
  <2>2. CASE be \in South
    <3>1. southDone' = [southDone EXCEPT ![id] = @ \union {c}] /\ UNCHANGED northDone
      BY <1>1, <2>2, BackendsAssumption DEF Register, Append
    <3> QED BY <2>2, <3>1, BackendsAssumption DEF TypeOK
  <2> QED BY <2>1, <2>2 DEF Backends
<1>4. \A d \in Chans : d \in Registered' <=> d \in Registered \/ d = c
  BY <1>1, <1>3 DEF Registered, Backends
<1>5. SlotShape'
  BY <1>2, <1>4 DEF SlotInv, SlotShape
<1>6. Stoppable'
  BY <1>2, <1>4 DEF SlotInv, Stoppable
<1>7. CloseOnce'
  <2>1. ASSUME NEW i \in Ids, NEW d \in northDone'[i]
        PROVE  d \notin closed /\ task[d] \in North \X {i}
    <3>1. CASE d \in northDone[i]
      BY <3>1 DEF SlotInv, CloseOnce
    <3>2. CASE be \in North /\ i = id /\ d = c
      BY <3>2, <1>1, <1>2
    <3> QED BY <2>1, <3>1, <3>2, <1>3
  <2>2. ASSUME NEW i \in Ids, NEW d \in southDone'[i]
        PROVE  d \notin closed /\ task[d] \in South \X {i}
    <3>1. CASE d \in southDone[i]
      BY <3>1 DEF SlotInv, CloseOnce
    <3>2. CASE be \in South /\ i = id /\ d = c
      BY <3>2, <1>1, <1>2
    <3> QED BY <2>2, <3>1, <3>2, <1>3
  <2> QED BY <2>1, <2>2, <1>2 DEF CloseOnce
<1> QED BY <1>5, <1>6, <1>7 DEF SlotInv

\* Every step keeps the slots, the done lists and the closed channels consistent.
LEMMA SlotStep == ControlInv /\ [Next]_vars => SlotInv'
<1> SUFFICES ASSUME ControlInv, [Next]_vars PROVE SlotInv'
  OBVIOUS
<1>0. TypeOK /\ HandlerShape /\ SlotInv
  BY DEF ControlInv, ActivationShape, SlotInv
<1> USE <1>0, NullAssumption DEF SlotInv, SlotShape, CloseOnce, Stoppable, TypeOK, Registered
<1>m. \A m \in Messages : m.gw \in Ids
  BY DEF Messages, Ids
<1>u. ASSUME UNCHANGED <<apc, task, closed, northDone, southDone>> PROVE SlotInv'
  BY <1>u
<1>1. ASSUME NEW w \in Workers, ActivateGateway(w) PROVE SlotInv'
  BY <1>1, ActivateStep, <1>m DEF ActivateGateway, HandlerShape
<1>2. ASSUME ForceActivate PROVE SlotInv'
  BY <1>2, ActivateStep DEF ForceActivate
<1>3. ASSUME NEW w \in Workers, DeactivateNorth(w) PROVE SlotInv'
  <2>1. wmsg[w].gw \in Ids
    BY <1>3, <1>m DEF DeactivateNorth, HandlerShape
  <2>2. UNCHANGED <<apc, task, southDone>>
    BY <1>3 DEF DeactivateNorth, actVars
  <2> QED BY <1>3, <2>1, <2>2, BackendsAssumption DEF DeactivateNorth, Delete
<1>4. ASSUME NEW w \in Workers, DeactivateSouth(w) PROVE SlotInv'
  <2>1. wmsg[w].gw \in Ids
    BY <1>4, <1>m DEF DeactivateSouth, HandlerShape
  <2>2. UNCHANGED <<apc, task, northDone>>
    BY <1>4 DEF DeactivateSouth, actVars
  <2> QED BY <1>4, <2>1, <2>2, BackendsAssumption DEF DeactivateSouth, Delete
<1>5. ASSUME NEW c \in Chans, NEW w \in Workers, Handoff(c, w) PROVE SlotInv'
  BY <1>5 DEF Handoff, doneVars
<1>6. ASSUME NEW c \in Chans, Subscribe(c) \/ SubscribeFails(c) PROVE SlotInv'
  BY <1>6 DEF Subscribe, SubscribeFails, doneVars
<1>7. ASSUME NEW c \in Chans, Register(c) PROVE SlotInv'
  BY <1>7, RegisterStep
<1>8. ASSUME NEW c \in Chans, Take(c) \/ Leave(c) PROVE SlotInv'
  BY <1>8 DEF Take, Leave, doneVars
<1>9. ASSUME NEW c \in Chans, Unsubscribe(c) PROVE SlotInv'
  BY <1>9 DEF Unsubscribe
<1>10. ASSUME Sweep PROVE SlotInv'
  BY <1>10 DEF Sweep, actVars
<1>11. ASSUME \/ \E s \in South, m \in Messages : Offer(s, m)
              \/ \E s \in South, w \in Workers : Receive(s, w)
              \/ \E w \in Workers :
                   \/ SetKey(w) \/ AddGateway(w) \/ ConnectRefused(w) \/ ContainsGateway(w)
                   \/ ValidateKey(w) \/ DisconnectRefused(w) \/ RemoveGateway(w)
                   \/ Route(w) \/ Quit(w)
              \/ \E id \in Ids : ForceAdd(id)
              \/ CloseDone
       PROVE  SlotInv'
  BY <1>u, <1>11 DEF Offer, Receive, SetKey, AddGateway, ConnectRefused, ContainsGateway,
     ValidateKey, DisconnectRefused, RemoveGateway, Route, Quit, ForceAdd, CloseDone,
     actVars, doneVars
<1>12. ASSUME UNCHANGED vars PROVE SlotInv'
  BY <1>u, <1>12 DEF vars
<1> QED
  BY <1>1, <1>2, <1>3, <1>4, <1>5, <1>6, <1>7, <1>8, <1>9, <1>10, <1>11, <1>12
     DEF Next, WorkerStep, ActivationStep, Boot

\* The control invariant holds in every reachable state: types, and the parts
\* the theorems below state one by one.
THEOREM Control == Spec => []ControlInv
<1>1. ControlInv /\ [Next]_vars => ControlInv'
  BY TypeStep, HandlerStep, SlotStep DEF ControlInv, ActivationShape, SlotInv
<1> QED BY InitControl, <1>1, PTL DEF Spec

\* Type correctness.
THEOREM TypeCorrect == Spec => []TypeOK
<1>1. ControlInv => TypeOK
  BY DEF ControlInv
<1> QED BY <1>1, Control, PTL

\* No done channel is closed twice, whatever deactivations and Stop race
\* (exchange.go:504-524, 563-578).
THEOREM ClosedOnce == Spec => []CloseOnce
<1>1. ControlInv => CloseOnce
  BY DEF ControlInv
<1> QED BY <1>1, Control, PTL

\* No activation escapes: each one in its loop has been told to end or is in
\* the list that the next deactivation or Stop closes (exchange.go:439-441).
THEOREM AllStoppable == Spec => []Stoppable
<1>1. ControlInv => Stoppable
  BY DEF ControlInv
<1> QED BY <1>1, Control, PTL

-----------------------------------------------------------------------------
(* A connected gateway is served *)

\* Only closing its done channel takes a live activation out of service.
LEMMA LiveStays ==
  ASSUME ControlInv, [Next]_vars, NEW c \in Chans, Live(c), closed' \subseteq closed
  PROVE  Live(c)' /\ task'[c] = task[c]
<1>0. TypeOK /\ SlotShape /\ HandlerShape
  BY DEF ControlInv, ActivationShape
<1> USE <1>0 DEF Live, TypeOK
<1>a. ASSUME NEW id \in Ids, Activate(id), UNCHANGED closed
      PROVE  Live(c)' /\ task'[c] = task[c]
  BY <1>a, ActivateEffect
<1>b. ASSUME UNCHANGED <<apc, task, closed>> PROVE Live(c)' /\ task'[c] = task[c]
  BY <1>b
<1>1. ASSUME NEW w \in Workers, ActivateGateway(w) PROVE Live(c)' /\ task'[c] = task[c]
  <2>1. wmsg[w].gw \in Ids
    BY <1>1 DEF ActivateGateway, HandlerShape, Messages, Ids
  <2> QED BY <1>1, <1>a, <2>1 DEF ActivateGateway, doneVars
<1>2. ASSUME ForceActivate PROVE Live(c)' /\ task'[c] = task[c]
  BY <1>2, <1>a DEF ForceActivate, doneVars
<1>3. ASSUME NEW d \in Chans, NEW w \in Workers, Handoff(d, w)
      PROVE  Live(c)' /\ task'[c] = task[c]
  BY <1>3 DEF Handoff, doneVars
<1>4. ASSUME NEW d \in Chans, Subscribe(d) \/ SubscribeFails(d) \/ Register(d) \/ Take(d)
      PROVE  Live(c)' /\ task'[c] = task[c]
  BY <1>4 DEF Subscribe, SubscribeFails, Register, Take, doneVars
<1>5. ASSUME NEW d \in Chans, Leave(d) \/ Unsubscribe(d)
      PROVE  Live(c)' /\ task'[c] = task[c]
  <2>1. d # c
    BY <1>5 DEF Leave, Unsubscribe
  <2> QED BY <1>5, <2>1 DEF Leave, Unsubscribe, doneVars
<1>6. ASSUME \E w \in Workers : DeactivateNorth(w) \/ DeactivateSouth(w)
      PROVE  Live(c)' /\ task'[c] = task[c]
  BY <1>6 DEF DeactivateNorth, DeactivateSouth, actVars
<1>7. ASSUME \/ \E s \in South, m \in Messages : Offer(s, m)
             \/ \E s \in South, w \in Workers : Receive(s, w)
             \/ \E w \in Workers :
                  \/ SetKey(w) \/ AddGateway(w) \/ ConnectRefused(w) \/ ContainsGateway(w)
                  \/ ValidateKey(w) \/ DisconnectRefused(w) \/ RemoveGateway(w)
                  \/ Route(w) \/ Quit(w)
             \/ \E id \in Ids : ForceAdd(id)
             \/ CloseDone
             \/ UNCHANGED vars
      PROVE  Live(c)' /\ task'[c] = task[c]
  BY <1>7, <1>b DEF Offer, Receive, SetKey, AddGateway, ConnectRefused, ContainsGateway,
     ValidateKey, DisconnectRefused, RemoveGateway, Route, Quit, ForceAdd, CloseDone,
     actVars, doneVars, vars
<1>8. ASSUME Sweep PROVE Live(c)' /\ task'[c] = task[c]
  BY <1>8 DEF Sweep, actVars
<1> QED
  BY <1>1, <1>2, <1>3, <1>4, <1>5, <1>6, <1>7, <1>8 DEF Next, WorkerStep, ActivationStep, Boot

\* Deactivation takes the activations of its own gateway only.
LEMMA OthersStayLive ==
  ASSUME ControlInv, NEW w \in Workers, DeactivateNorth(w) \/ DeactivateSouth(w),
         NEW c \in Chans, Live(c), task[c] \in Backends \X Ids, task[c][2] # wmsg[w].gw
  PROVE  Live(c)' /\ task'[c] = task[c]
<1>1. UNCHANGED <<apc, task>>
  BY DEF DeactivateNorth, DeactivateSouth, actVars
<1>2. wmsg[w].gw \in Ids
  BY DEF DeactivateNorth, DeactivateSouth, ControlInv, ActivationShape, HandlerShape, Messages, Ids
<1>3. c \notin northDone[wmsg[w].gw] /\ c \notin southDone[wmsg[w].gw]
  BY <1>2 DEF ControlInv, CloseOnce
<1>4. c \notin closed'
  BY <1>3 DEF DeactivateNorth, DeactivateSouth, Live
<1> QED BY <1>1, <1>4 DEF Live

\* Starting the activations of an ID serves it.
LEMMA ActivateServes ==
  ASSUME ControlInv, NEW id \in Ids, Activate(id), UNCHANGED closed
  PROVE  Served(id)'
<1>1. TypeOK /\ SlotShape
  BY DEF ControlInv, ActivationShape
<1>2. ASSUME NEW be \in BackendsOf(id)
      PROVE  \E c \in Chans : task'[c] = <<be, id>> /\ Live(c)'
  BY <1>1, <1>2, ActivateEffect DEF Live, SlotShape
<1> QED BY <1>2 DEF Served, BackendsOf

\* What accounts for a connected gateway: the invariant of ServedStep.
Covered(id) == Connecting(id) \/ Disconnecting(id) \/ Served(id)

\* The set of faults of a behaviour does not change.
LEMMA FaultsStay == [Next]_vars => faults' = faults
BY DEF Next, vars, WorkerStep, ActivationStep, Boot, Offer, Receive, SetKey, AddGateway,
   ConnectRefused, ActivateGateway, ContainsGateway, ValidateKey, DisconnectRefused,
   DeactivateNorth, DeactivateSouth, RemoveGateway, Route, Quit, Handoff, Subscribe, SubscribeFails,
   Register, Take, Leave, Unsubscribe, ForceAdd, ForceActivate, CloseDone, Sweep

\* Every step keeps the connected gateways accounted for, action by action: what
\* ends a gateway's activations is preceded by its removal being under way.
LEMMA ServedStep ==
  ASSUME "middleware" \notin faults, ControlInv, ConnectedIsServed, [Next]_vars
  PROVE  ConnectedIsServed'
<1> SUFFICES ASSUME phase' = "running", NEW id \in gateways' PROVE Covered(id)'
  BY DEF ConnectedIsServed, Covered
<1>t. TypeOK /\ HandlerShape
  BY DEF ControlInv, ActivationShape
<1> USE <1>t DEF TypeOK
<1>i. id \in Ids
  BY TypeStep
<1>p. ~Sweep /\ ~CloseDone
  BY DEF Sweep, CloseDone
<1>r. UNCHANGED phase
  BY <1>p DEF Next, vars, WorkerStep, ActivationStep, Boot, Offer, Receive, SetKey, AddGateway,
     ConnectRefused, ActivateGateway, ContainsGateway, ValidateKey, DisconnectRefused,
     DeactivateNorth, DeactivateSouth, RemoveGateway, Route, Quit, Handoff, Subscribe, SubscribeFails,
     Register, Take, Leave, Unsubscribe, ForceAdd, ForceActivate
<1>c. id \in gateways => Covered(id)
  BY <1>r DEF ConnectedIsServed, Covered
\* A step that closes no done channel keeps a served gateway served.
<1>s. ASSUME Served(id), closed' \subseteq closed PROVE Served(id)'
  <2>1. \A c \in Chans : Live(c) => Live(c)' /\ task'[c] = task[c]
    BY <1>s, LiveStays
  <2> QED BY <1>s, <2>1 DEF Served, BackendsOf
\* A step of one worker leaves the others where they are.
<1>w. ASSUME NEW w \in Workers, UNCHANGED booting,
             \A v \in Workers \ {w} : wpc'[v] = wpc[v] /\ wmsg'[v] = wmsg[v],
             ~(wpc[w] \in {"activate", "south", "remove"} /\ wmsg[w].gw = id),
             Connecting(id) \/ Disconnecting(id)
      PROVE  Covered(id)'
  <2>1. CASE booting = id
    BY <1>w, <2>1 DEF Covered, Connecting
  <2>2. CASE \E v \in Workers \ {w} : wpc[v] = "activate" /\ wmsg[v].gw = id
    BY <1>w, <2>2 DEF Covered, Connecting
  <2>3. CASE \E v \in Workers \ {w} : wpc[v] \in {"south", "remove"} /\ wmsg[v].gw = id
    BY <1>w, <2>3 DEF Covered, Disconnecting
  <2> QED BY <1>w, <2>1, <2>2, <2>3 DEF Connecting, Disconnecting
\* A step that is not about a worker or the boot leaves them all there.
<1>b. ASSUME UNCHANGED <<booting, wpc, wmsg>>, Connecting(id) \/ Disconnecting(id)
      PROVE  Covered(id)'
  BY <1>b DEF Covered, Connecting, Disconnecting
<1>1. ASSUME NEW w \in Workers,
             \/ \E s \in South : Receive(s, w)
             \/ SetKey(w) \/ ContainsGateway(w) \/ ValidateKey(w) \/ Route(w) \/ Quit(w)
             \/ \E c \in Chans : Handoff(c, w)
      PROVE  Covered(id)'
  <2>1. /\ UNCHANGED <<gateways, booting, closed>>
        /\ wpc[w] \notin {"activate", "south", "remove"}
        /\ \A v \in Workers \ {w} : wpc'[v] = wpc[v] /\ wmsg'[v] = wmsg[v]
    BY <1>1 DEF Receive, SetKey, ContainsGateway, ValidateKey, Route, Quit, Handoff, Goto, Done,
       bootVars, doneVars
  <2> QED BY <1>c, <1>s, <1>w, <2>1 DEF Covered
<1>2. ASSUME NEW w \in Workers, AddGateway(w) PROVE Covered(id)'
  <2>1. /\ UNCHANGED <<booting, closed>>
        /\ wpc[w] = "add"
        /\ \A v \in Workers \ {w} : wpc'[v] = wpc[v] /\ wmsg'[v] = wmsg[v]
    BY <1>2 DEF AddGateway, Goto, Done, bootVars, doneVars
  <2>2. CASE id \in gateways
    BY <1>c, <1>s, <1>w, <2>1, <2>2 DEF Covered
  <2>3. CASE id \notin gateways
    BY <1>2, <2>3 DEF AddGateway, Goto, Covered, Connecting
  <2> QED BY <2>2, <2>3
<1>3. ASSUME NEW w \in Workers, ActivateGateway(w) PROVE Covered(id)'
  <2>1. /\ UNCHANGED <<gateways, booting, closed>>
        /\ wpc[w] = "activate"
        /\ \A v \in Workers \ {w} : wpc'[v] = wpc[v] /\ wmsg'[v] = wmsg[v]
        /\ Activate(wmsg[w].gw)
    BY <1>3 DEF ActivateGateway, Goto, Done, bootVars, doneVars
  <2>2. CASE id = wmsg[w].gw
    BY <2>1, <2>2, ActivateServes DEF Covered
  <2>3. CASE id # wmsg[w].gw
    BY <1>c, <1>s, <1>w, <2>1, <2>3 DEF Covered
  <2> QED BY <2>2, <2>3
<1>4. ASSUME NEW w \in Workers, DeactivateNorth(w) \/ DeactivateSouth(w) PROVE Covered(id)'
  <2>1. /\ UNCHANGED <<gateways, booting>>
        /\ wpc[w] \in {"north", "south"} /\ wpc'[w] \in {"south", "remove"}
        /\ UNCHANGED wmsg
        /\ \A v \in Workers \ {w} : wpc'[v] = wpc[v] /\ wmsg'[v] = wmsg[v]
    BY <1>4 DEF DeactivateNorth, DeactivateSouth, Goto, bootVars
  <2>2. CASE id = wmsg[w].gw
    BY <2>1, <2>2 DEF Covered, Disconnecting
  <2>3. CASE id # wmsg[w].gw
    <3>1. Served(id) => Served(id)'
      <4>1. ASSUME NEW c \in Chans, NEW be \in BackendsOf(id), Live(c), task[c] = <<be, id>>
            PROVE  Live(c)' /\ task'[c] = task[c]
        <5>1. task[c] \in Backends \X Ids /\ task[c][2] # wmsg[w].gw
          BY <4>1, <1>i, <2>3 DEF BackendsOf, Backends
        <5> QED BY <4>1, <5>1, <1>4, OthersStayLive
      <4> QED BY <4>1 DEF Served, BackendsOf
    <3> QED BY <1>c, <1>w, <2>1, <2>3, <3>1 DEF Covered
  <2> QED BY <2>2, <2>3
<1>5. ASSUME NEW w \in Workers, RemoveGateway(w) PROVE Covered(id)'
  <2>1. /\ UNCHANGED <<booting, closed>>
        /\ id \in gateways /\ id # wmsg[w].gw
        /\ \A v \in Workers \ {w} : wpc'[v] = wpc[v] /\ wmsg'[v] = wmsg[v]
    BY <1>5 DEF RemoveGateway, Goto, Done, bootVars, doneVars
  <2> QED BY <1>c, <1>s, <1>w, <2>1 DEF Covered
<1>6. ASSUME \/ \E s \in South, m \in Messages : Offer(s, m)
             \/ \E c \in Chans : ActivationStep(c)
             \/ UNCHANGED vars
      PROVE  Covered(id)'
  <2>1. UNCHANGED <<gateways, booting, wpc, wmsg>> /\ closed' \subseteq closed
    BY <1>6 DEF Offer, ActivationStep, Subscribe, SubscribeFails, Register, Take, Leave, Unsubscribe, vars,
       bootVars, workerVars, doneVars
  <2> QED BY <1>c, <1>s, <1>b, <2>1 DEF Covered
<1>7. ASSUME NEW i \in Ids, ForceAdd(i) PROVE Covered(id)'
  <2>1. UNCHANGED <<wpc, wmsg, closed>> /\ booting = NoId
    BY <1>7 DEF ForceAdd, workerVars, doneVars
  <2>2. CASE id \in gateways
    <3>1. Connecting(id) \/ Disconnecting(id) => Covered(id)'
      BY <1>i, <2>1, IdsAssumption DEF Covered, Connecting, Disconnecting
    <3> QED BY <1>c, <1>s, <2>1, <2>2, <3>1 DEF Covered
  <2>3. CASE id \notin gateways
    BY <1>7, <2>3 DEF ForceAdd, Covered, Connecting
  <2> QED BY <2>2, <2>3
<1>8. ASSUME ForceActivate PROVE Covered(id)'
  <2>1. UNCHANGED <<gateways, wpc, wmsg, closed>> /\ booting \in Ids /\ Activate(booting)
    BY <1>8 DEF ForceActivate, workerVars, doneVars
  <2>2. CASE id = booting
    BY <2>1, <2>2, ActivateServes DEF Covered
  <2>3. CASE id # booting
    <3>1. Connecting(id) \/ Disconnecting(id) => Covered(id)'
      BY <2>1, <2>3 DEF Covered, Connecting, Disconnecting
    <3> QED BY <1>c, <1>s, <2>1, <3>1 DEF Covered
  <2> QED BY <2>2, <2>3
<1> QED
  BY <1>p, <1>1, <1>2, <1>3, <1>4, <1>5, <1>6, <1>7, <1>8
     DEF Next, WorkerStep, Boot, ConnectRefused, DisconnectRefused

\* For every number of workers, gateways and backends: while the exchange runs
\* and no middleware fails, a connected gateway has an activation on every
\* backend, is about to, or is being disconnected (exchange.go:29-33).
THEOREM ConnectedServed == Spec => []ConnectedIsServed
<1>1. Init => ConnectedIsServed
  BY DEF Init, ConnectedIsServed
<1>2. ControlInv /\ ConnectedIsServed /\ [Next]_vars => ConnectedIsServed'
  <2>1. CASE "middleware" \in faults
    BY <2>1, FaultsStay DEF ConnectedIsServed
  <2> QED BY <2>1, ServedStep
<1> QED BY <1>1, <1>2, Control, PTL DEF Spec

-----------------------------------------------------------------------------
(* One message at a time *)

\* What "parallel" rules out: two messages in hand, or one while ConnectGateway
\* is at work. Then the ID being activated or removed is in the set.
OneInHand ==
  /\ \A v, w \in Workers : wmsg[v] # NoMsg /\ wmsg[w] # NoMsg => v = w
  /\ booting # NoId => AllIdle /\ booting \in gateways
  /\ \A w \in Workers :
       wpc[w] \in {"activate", "validate", "north", "south", "remove"} =>
         wmsg[w].gw \in gateways

\* A worker at a handler's step has a message in hand.
LEMMA InHand ==
  ASSUME ControlInv, NEW w \in Workers, wpc[w] \notin {"idle", "route", "quit"}
  PROVE  wmsg[w] \in Messages /\ wmsg[w] # NoMsg /\ wmsg[w].gw \in Ids
BY NullAssumption DEF ControlInv, ActivationShape, HandlerShape, TypeOK, Messages, Ids

\* Every step keeps one message in hand: a message is received, and
\* ConnectGateway goes on to the next ID, when nothing else is in hand.
LEMMA OneInHandStep ==
  ASSUME "parallel" \notin faults, ControlInv, OneInHand, [Next]_vars
  PROVE  OneInHand'
<1>t. TypeOK /\ TypeOK'
  BY TypeStep DEF ControlInv
<1> USE <1>t DEF TypeOK, OneInHand, AllIdle, Goto, Done, workerVars, bootVars
<1>1. ASSUME NEW s \in South, NEW w \in Workers, Receive(s, w) PROVE OneInHand'
  BY <1>1 DEF Receive
<1>2. ASSUME NEW w \in Workers,
             SetKey(w) \/ ContainsGateway(w) \/ ValidateKey(w) \/ Route(w) \/ Quit(w)
             \/ ConnectRefused(w) \/ DisconnectRefused(w) \/ ActivateGateway(w)
             \/ DeactivateNorth(w) \/ DeactivateSouth(w) \/ (\E c \in Chans : Handoff(c, w))
      PROVE  OneInHand'
  BY <1>2 DEF SetKey, ContainsGateway, ValidateKey, Route, Quit, ConnectRefused,
     DisconnectRefused, ActivateGateway, DeactivateNorth, DeactivateSouth, Handoff
<1>3. ASSUME NEW w \in Workers, AddGateway(w) PROVE OneInHand'
  <2>1. CASE wmsg[w].gw \in gateways
    BY <1>3, <2>1 DEF AddGateway
  <2>2. CASE wmsg[w].gw \notin gateways
    <3>1. /\ gateways' = gateways \union {wmsg[w].gw}
          /\ wpc' = [wpc EXCEPT ![w] = "activate"]
          /\ UNCHANGED <<wmsg, booting>>
      BY <1>3, <2>2 DEF AddGateway
    <3> QED BY <3>1
  <2> QED BY <2>1, <2>2
<1>4. ASSUME NEW w \in Workers, RemoveGateway(w) PROVE OneInHand'
  <2>1. wpc[w] = "remove" /\ wmsg[w] # NoMsg
    BY <1>4, InHand DEF RemoveGateway
  <2>2. booting = NoId
    BY <2>1
  <2>3. ASSUME NEW v \in Workers, v # w
        PROVE  wpc'[v] \notin {"activate", "validate", "north", "south", "remove"}
    <3>1. wmsg[v] = NoMsg
      BY <2>1, <2>3
    <3> QED BY <1>4, <2>3, <3>1, InHand DEF RemoveGateway
  <2> QED BY <1>4, <2>1, <2>2, <2>3 DEF RemoveGateway
<1>5. ASSUME NEW i \in Ids, ForceAdd(i) PROVE OneInHand'
  BY <1>5 DEF ForceAdd
<1>6. ASSUME ForceActivate PROVE OneInHand'
  BY <1>6 DEF ForceActivate
<1>7. ASSUME UNCHANGED <<gateways, wpc, wmsg, booting>> PROVE OneInHand'
  BY <1>7
<1>8. ASSUME \/ \E s \in South, m \in Messages : Offer(s, m)
             \/ \E c \in Chans : ActivationStep(c)
             \/ CloseDone \/ Sweep \/ UNCHANGED vars
      PROVE  OneInHand'
  BY <1>7, <1>8 DEF Offer, ActivationStep, Subscribe, SubscribeFails, Register, Take, Leave,
     Unsubscribe, CloseDone, Sweep, vars
<1> QED
  BY <1>1, <1>2, <1>3, <1>4, <1>5, <1>6, <1>8 DEF Next, WorkerStep, Boot

-----------------------------------------------------------------------------
(* The gauge *)

\* What the gauge has not counted yet: the ID a handler, or ConnectGateway, has
\* added to the set and is about to activate.
Uncounted == Cardinality({w \in Workers : wpc[w] = "activate"}) + Cardinality({booting} \ {NoId})

\* Inductive once one message is in hand: an ID is added when it was not in the
\* set, and removed when it was.
Counted == IsFiniteSet(gateways) /\ gauge + Uncounted = Cardinality(gateways)

\* With one message in hand, at most one ID is uncounted.
LEMMA UncountedValue ==
  ASSUME ControlInv, OneInHand
  PROVE  /\ booting # NoId => Uncounted = 1
         /\ \A w \in Workers : wpc[w] = "activate" => Uncounted = 1
         /\ booting = NoId /\ (\A w \in Workers : wpc[w] # "activate") => Uncounted = 0
         /\ Cardinality({w \in Workers : wpc[w] = "activate"}) \in Nat
         /\ Cardinality({booting} \ {NoId}) \in Nat
<1> DEFINE A == {w \in Workers : wpc[w] = "activate"}
<1>1. \A w \in A : A = {w} /\ booting = NoId
  BY InHand DEF OneInHand, AllIdle
<1>2. booting = NoId => {booting} \ {NoId} = {}
  OBVIOUS
<1>3. booting # NoId => {booting} \ {NoId} = {booting}
  OBVIOUS
<1>4. Uncounted = Cardinality(A) + Cardinality({booting} \ {NoId})
  BY DEF Uncounted
<1>5. A = {} => Cardinality(A) = 0
  BY FS_EmptySet
<1>6. \A w \in A : Cardinality(A) = 1
  BY <1>1, FS_Singleton
<1>7. booting = NoId => Cardinality({booting} \ {NoId}) = 0
  BY <1>2, FS_EmptySet
<1>8. booting # NoId => Cardinality({booting} \ {NoId}) = 1
  BY <1>3, FS_Singleton
<1>9. ASSUME booting # NoId PROVE Uncounted = 1
  <2>1. A = {}
    BY <1>1, <1>9
  <2> HIDE DEF A
  <2> QED BY <1>4, <1>5, <1>8, <1>9, <2>1
<1>10. ASSUME NEW w \in Workers, wpc[w] = "activate" PROVE Uncounted = 1
  <2>1. w \in A /\ booting = NoId
    BY <1>1, <1>10
  <2> HIDE DEF A
  <2> QED BY <1>4, <1>6, <1>7, <2>1
<1>11. ASSUME booting = NoId, \A w \in Workers : wpc[w] # "activate" PROVE Uncounted = 0
  <2>1. A = {}
    BY <1>11
  <2> HIDE DEF A
  <2> QED BY <1>4, <1>5, <1>7, <1>11, <2>1
<1>12. Cardinality(A) \in Nat /\ Cardinality({booting} \ {NoId}) \in Nat
  <2> HIDE DEF A
  <2> QED BY <1>5, <1>6, <1>7, <1>8
<1> QED BY <1>9, <1>10, <1>11, <1>12

\* Every step keeps the gauge right: the set gains an ID that becomes the
\* uncounted one, the uncounted one is counted, or a counted one is removed.
LEMMA CountedStep ==
  ASSUME "parallel" \notin faults, "middleware" \notin faults,
         ControlInv, OneInHand, Counted, [Next]_vars
  PROVE  Counted'
<1>t. TypeOK /\ ControlInv' /\ OneInHand'
  BY TypeStep, HandlerStep, SlotStep, OneInHandStep DEF ControlInv, ActivationShape, SlotInv
<1>v. /\ booting' # NoId => Uncounted' = 1
      /\ \A w \in Workers : wpc'[w] = "activate" => Uncounted' = 1
      /\ booting' = NoId /\ (\A w \in Workers : wpc'[w] # "activate") => Uncounted' = 0
  <2>1. (ControlInv /\ OneInHand =>
           /\ booting # NoId => Uncounted = 1
           /\ \A w \in Workers : wpc[w] = "activate" => Uncounted = 1
           /\ booting = NoId /\ (\A w \in Workers : wpc[w] # "activate") => Uncounted = 0)'
    BY UncountedValue, PTL
  <2> QED BY <1>t, <2>1
<1>0. gauge \in Int /\ IsFiniteSet(gateways) /\ Cardinality(gateways) \in Nat
      /\ gauge + Uncounted = Cardinality(gateways) /\ Uncounted \in {0, 1}
  BY <1>t, FS_CardinalityType, UncountedValue DEF Counted, TypeOK
\* One handler at a step of a connect or disconnect message is the only one.
<1>1. ASSUME NEW w \in Workers, wpc[w] \in {"add", "activate", "remove"}
      PROVE  booting = NoId /\ \A v \in Workers \ {w} : wpc[v] # "activate"
  BY <1>1, InHand DEF OneInHand, AllIdle
<1>2. ASSUME UNCHANGED <<gateways, gauge, booting>>,
             \A w \in Workers : wpc'[w] = "activate" <=> wpc[w] = "activate"
      PROVE  Counted'
  <2>1. {w \in Workers : wpc'[w] = "activate"} = {w \in Workers : wpc[w] = "activate"}
    BY <1>2
  <2> QED BY <1>2, <2>1 DEF Counted, Uncounted
<1>3. ASSUME NEW w \in Workers, AddGateway(w) PROVE Counted'
  <2>1. CASE wmsg[w].gw \in gateways
    BY <1>2, <1>3, <2>1, <1>t DEF AddGateway, Done, Goto, bootVars, TypeOK
  <2>2. CASE wmsg[w].gw \notin gateways
    <3>1. /\ gateways' = gateways \union {wmsg[w].gw} /\ gauge' = gauge
          /\ wpc[w] = "add" /\ wpc'[w] = "activate"
      BY <1>3, <2>2, <1>t DEF AddGateway, Goto, TypeOK
    <3>2. Uncounted = 0 /\ Uncounted' = 1
      BY <3>1, <1>1, <1>v, UncountedValue
    <3>3. IsFiniteSet(gateways') /\ Cardinality(gateways') = Cardinality(gateways) + 1
      BY <3>1, <1>0, <2>2, FS_AddElement
    <3> QED BY <3>1, <3>2, <3>3, <1>0 DEF Counted
  <2> QED BY <2>1, <2>2
<1>4. ASSUME NEW w \in Workers, ActivateGateway(w) PROVE Counted'
  <2>1. /\ UNCHANGED <<gateways, booting>> /\ gauge' = gauge + 1
        /\ wpc[w] = "activate" /\ wpc'[w] = "idle"
        /\ \A v \in Workers \ {w} : wpc'[v] = wpc[v]
    BY <1>4, <1>t DEF ActivateGateway, Activate, Done, Goto, bootVars, TypeOK
  <2>2. Uncounted = 1 /\ Uncounted' = 0
    BY <2>1, <1>1, <1>v, UncountedValue
  <2> QED BY <2>1, <2>2, <1>0 DEF Counted
<1>5. ASSUME NEW w \in Workers, RemoveGateway(w) PROVE Counted'
  <2>1. /\ gateways' = gateways \ {wmsg[w].gw} /\ gauge' = gauge - 1 /\ booting' = booting
        /\ wpc[w] = "remove" /\ wpc'[w] = "idle"
        /\ \A v \in Workers \ {w} : wpc'[v] = wpc[v]
    BY <1>5, <1>t DEF RemoveGateway, Done, Goto, bootVars, TypeOK
  <2>2. Uncounted = 0 /\ Uncounted' = 0
    BY <2>1, <1>1, <1>v, UncountedValue
  <2>3. wmsg[w].gw \in gateways
    BY <2>1 DEF OneInHand
  <2>4. IsFiniteSet(gateways') /\ Cardinality(gateways') = Cardinality(gateways) - 1
    BY <2>1, <2>3, <1>0, FS_RemoveElement
  <2> QED BY <2>1, <2>2, <2>4, <1>0 DEF Counted
<1>6. ASSUME NEW i \in Ids, ForceAdd(i) PROVE Counted'
  <2>1. CASE i \in gateways
    <3>1. gateways' = gateways /\ booting' = booting /\ UNCHANGED <<wpc, gauge>>
      BY <1>6, <2>1 DEF ForceAdd, workerVars
    <3> QED BY <1>2, <3>1
  <2>2. CASE i \notin gateways
    <3>1. /\ gateways' = gateways \union {i} /\ UNCHANGED <<wpc, gauge>>
          /\ booting = NoId /\ booting' = i /\ i # NoId
          /\ \A w \in Workers : wmsg[w] = NoMsg
      BY <1>6, <2>2, IdsAssumption DEF ForceAdd, workerVars, AllIdle
    <3>2. Uncounted = 0 /\ Uncounted' = 1
      BY <3>1, <1>v, InHand, UncountedValue
    <3>3. IsFiniteSet(gateways') /\ Cardinality(gateways') = Cardinality(gateways) + 1
      BY <3>1, <1>0, <2>2, FS_AddElement
    <3> QED BY <3>1, <3>2, <3>3, <1>0 DEF Counted
  <2> QED BY <2>1, <2>2
<1>7. ASSUME ForceActivate PROVE Counted'
  <2>1. /\ UNCHANGED <<gateways, wpc, wmsg>> /\ gauge' = gauge + 1
        /\ booting # NoId /\ booting' = NoId
    BY <1>7 DEF ForceActivate, Activate, workerVars
  <2>2. \A w \in Workers : wpc[w] # "activate"
    BY <2>1, InHand DEF OneInHand, AllIdle
  <2>3. Uncounted = 1 /\ Uncounted' = 0
    BY <2>1, <2>2, <1>v, UncountedValue
  <2> QED BY <2>1, <2>3, <1>0 DEF Counted
<1>8. ASSUME NEW w \in Workers,
             \/ \E s \in South : Receive(s, w)
             \/ SetKey(w) \/ ContainsGateway(w) \/ ValidateKey(w)
             \/ DeactivateNorth(w) \/ DeactivateSouth(w) \/ Route(w) \/ Quit(w)
             \/ \E c \in Chans : Handoff(c, w)
      PROVE  Counted'
  <2>1. /\ UNCHANGED <<gateways, gauge, booting>>
        /\ wpc[w] # "activate" /\ wpc'[w] # "activate"
        /\ \A v \in Workers \ {w} : wpc'[v] = wpc[v]
    BY <1>8, <1>t DEF Receive, SetKey, ContainsGateway, ValidateKey, DeactivateNorth,
       DeactivateSouth, Route, Quit, Handoff, Goto, Done, bootVars, TypeOK
  <2> QED BY <1>2, <2>1
<1>9. ASSUME \/ \E s \in South, m \in Messages : Offer(s, m)
             \/ \E c \in Chans : ActivationStep(c)
             \/ CloseDone \/ Sweep \/ UNCHANGED vars
      PROVE  Counted'
  <2>1. UNCHANGED <<gateways, gauge, booting, wpc>>
    BY <1>9 DEF Offer, ActivationStep, Subscribe, SubscribeFails, Register, Take, Leave,
       Unsubscribe, CloseDone, Sweep, vars, workerVars, bootVars
  <2> QED BY <1>2, <2>1
<1> QED
  BY <1>3, <1>4, <1>5, <1>6, <1>7, <1>8, <1>9
     DEF Next, WorkerStep, Boot, ConnectRefused, DisconnectRefused

\* With one message handled at a time, for any number of workers.
THEOREM OneMessage == Spec => []("parallel" \notin faults => OneInHand)
<1>1. Init => OneInHand
  BY DEF Init, OneInHand, AllIdle
<1>2. /\ ControlInv /\ ("parallel" \notin faults => OneInHand) /\ [Next]_vars
      => ("parallel" \notin faults => OneInHand)'
  BY FaultsStay, OneInHandStep
<1> QED BY <1>1, <1>2, Control, PTL DEF Spec

\* For any number of gateways and workers: when messages are handled one at a
\* time and no middleware refuses one, the gauge counts the connected gateways,
\* but for the one being connected (exchange.go:181, 247, 272).
THEOREM GaugeIsExact == Spec => []GaugeExact
<1> DEFINE Quiet == faults \intersect {"parallel", "middleware"} = {}
<1>1. Init => Counted
  <2> SUFFICES ASSUME Init PROVE Counted
    OBVIOUS
  <2>1. ControlInv /\ OneInHand
    BY InitControl DEF Init, OneInHand, AllIdle
  <2>2. Uncounted = 0
    BY <2>1, UncountedValue DEF Init
  <2> QED BY <2>2, FS_EmptySet DEF Init, Counted
<1>2. /\ ControlInv /\ ("parallel" \notin faults => OneInHand)
      /\ (Quiet => Counted) /\ [Next]_vars
      => (Quiet => Counted)'
  BY FaultsStay, CountedStep
<1>3. ControlInv /\ ("parallel" \notin faults => OneInHand) /\ (Quiet => Counted) => GaugeExact
  <2> SUFFICES ASSUME ControlInv, OneInHand, Counted PROVE GaugeExact
    BY DEF GaugeExact
  <2>1. Cardinality({w \in Workers : wpc[w] = "activate"}) \in Nat
        /\ Cardinality({booting} \ {NoId}) \in Nat /\ gauge \in Int
    BY UncountedValue DEF ControlInv, TypeOK
  <2> QED BY <2>1 DEF GaugeExact, Counted, Uncounted
<1> QED BY <1>1, <1>2, <1>3, Control, OneMessage, PTL DEF Spec

-----------------------------------------------------------------------------
(* Messages are carried only while the gateway is connected *)

\* A slot that no goroutine is started in advances: through its activation's
\* steps, to its end; a closed done channel stays closed until then.
Advances(c) ==
  /\ task'[c] \in {task[c], NoTask}
  /\ task'[c] # NoTask =>
       /\ c \in closed => c \in closed'
       /\ apc[c] \in {"run", "send", "unsubscribe"} => apc'[c] \in {"run", "send", "unsubscribe"}

\* A step that starts no activations lets every slot advance.
LEMMA SlotsAdvance ==
  ASSUME ControlInv, [Next]_vars, ~ForceActivate, \A w \in Workers : ~ActivateGateway(w)
  PROVE  \A c \in Chans : Advances(c)
<1>t. TypeOK /\ SlotShape /\ HandlerShape
  BY DEF ControlInv, ActivationShape
<1> SUFFICES ASSUME NEW c \in Chans PROVE Advances(c)
  OBVIOUS
<1> USE <1>t DEF TypeOK, Advances
<1>2. ASSUME UNCHANGED <<apc, task>>, closed \subseteq closed' PROVE Advances(c)
  BY <1>2
<1>3. ASSUME NEW d \in Chans, Subscribe(d) \/ SubscribeFails(d) \/ Register(d) \/ Take(d) \/ Leave(d)
      PROVE  Advances(c)
  BY <1>3 DEF Subscribe, SubscribeFails, Register, Take, Leave, doneVars
<1>4. ASSUME NEW d \in Chans, Unsubscribe(d) PROVE Advances(c)
  BY <1>4 DEF Unsubscribe
<1>5. ASSUME NEW d \in Chans, NEW w \in Workers, Handoff(d, w) PROVE Advances(c)
  BY <1>5 DEF Handoff, doneVars
<1>6. ASSUME \/ \E s \in South, m \in Messages : Offer(s, m)
             \/ \E s \in South, w \in Workers : Receive(s, w)
             \/ \E w \in Workers :
                  \/ SetKey(w) \/ AddGateway(w) \/ ConnectRefused(w) \/ ContainsGateway(w)
                  \/ ValidateKey(w) \/ DisconnectRefused(w) \/ RemoveGateway(w)
                  \/ Route(w) \/ Quit(w) \/ DeactivateNorth(w) \/ DeactivateSouth(w)
             \/ \E id \in Ids : ForceAdd(id)
             \/ CloseDone \/ Sweep \/ UNCHANGED vars
      PROVE  Advances(c)
  BY <1>6, <1>2 DEF Offer, Receive, SetKey, AddGateway, ConnectRefused, ContainsGateway,
     ValidateKey, DisconnectRefused, RemoveGateway, Route, Quit, DeactivateNorth,
     DeactivateSouth, ForceAdd, CloseDone, Sweep, actVars, doneVars, vars
<1> QED
  BY <1>3, <1>4, <1>5, <1>6 DEF Next, WorkerStep, ActivationStep, Boot

\* A handler of a disconnect message finds no activation of its gateway that is
\* still to register, and closes those of either side in turn.
EndsInOrder(w) ==
  \A c \in Of(wmsg[w].gw) :
    /\ wpc[w] \in {"contains", "validate", "north", "south", "remove"} =>
         apc[c] \in {"run", "send", "unsubscribe"}
    /\ wpc[w] \in {"south", "remove"} /\ task[c][1] \in North => c \in closed
    /\ wpc[w] = "remove" => c \in closed

\* A handler of a connect message that will add its gateway finds no activation
\* of it left.
StartsFresh(w) ==
  wpc[w] = "activate" \/ (wpc[w] \in {"setkey", "add"} /\ wmsg[w].gw \notin gateways) =>
    Of(wmsg[w].gw) = {}

\* There is one activation per backend and gateway.
Single == \A c, d \in Chans : task[c] = task[d] /\ task[c] # NoTask => c = d

\* A gateway that still has a live activation is connected.
LiveConnected == \A c \in Chans : Live(c) => task[c][2] \in gateways

\* Inductive for orderly messages: each part needs the one before it at the next
\* message about the gateway.
OrderInv ==
  /\ LiveConnected
  /\ \A w \in Workers : EndsInOrder(w) /\ StartsFresh(w)
  /\ booting # NoId => Of(booting) = {}
  /\ Single

\* Starting the activations of a connected ID that has none, when no message is
\* in hand after it.
LEMMA ActivateInOrder ==
  ASSUME ControlInv, OrderInv, NEW id \in Ids, Activate(id), UNCHANGED <<closed, gateways>>,
         id \in gateways, Of(id) = {}, booting' = NoId,
         \A w \in Workers : wpc'[w] \in {"idle", "route", "quit"}
  PROVE  OrderInv'
<1>t. TypeOK /\ SlotShape
  BY DEF ControlInv, ActivationShape
<1>1. \A c \in Chans :
        \/ apc'[c] = apc[c] /\ task'[c] = task[c]
        \/ apc[c] = "free" /\ apc'[c] = "subscribe" /\ task'[c] \in Backends \X {id}
  BY <1>t, ActivateEffect
<1>2. LiveConnected'
  BY <1>1 DEF OrderInv, LiveConnected, Live
<1>3. Single'
  <2> SUFFICES ASSUME NEW c \in Chans, NEW d \in Chans, task'[c] = task'[d], task'[c] # NoTask
               PROVE  c = d
    BY DEF Single
  <2>1. CASE task'[c] = task[c] /\ task'[d] = task[d]
    BY <2>1 DEF OrderInv, Single
  <2>2. CASE /\ apc[c] = "free" /\ apc'[c] = "subscribe"
             /\ apc[d] = "free" /\ apc'[d] = "subscribe"
    BY <2>2, <1>t, ActivateEffect
  <2>3. ASSUME NEW x \in Chans, NEW y \in Chans, task'[x] = task[x], task'[x] # NoTask,
               task'[y] \in Backends \X {id}, task'[x] = task'[y]
        PROVE  FALSE
    BY <2>3 DEF Of
  <2> QED BY <1>1, <2>1, <2>2, <2>3
<1>4. \A w \in Workers : EndsInOrder(w)' /\ StartsFresh(w)'
  BY DEF EndsInOrder, StartsFresh
<1> QED BY <1>2, <1>3, <1>4 DEF OrderInv

\* Deactivating one side closes every activation of the gateway on that side.
LEMMA DeactivateCloses ==
  ASSUME ControlInv, NEW w \in Workers, NEW c \in Of(wmsg[w].gw),
         apc[c] \in {"run", "send", "unsubscribe"}
  PROVE  /\ DeactivateNorth(w) /\ task[c][1] \in North => c \in closed'
         /\ DeactivateSouth(w) /\ task[c][1] \in South => c \in closed'
<1>t. TypeOK /\ SlotShape /\ CloseOnce /\ Stoppable
  BY DEF ControlInv, ActivationShape
<1>1. c \in Chans /\ task[c] \in Backends \X Ids /\ task[c][2] = wmsg[w].gw
  BY <1>t DEF Of, TypeOK
<1>2. CASE c \in closed
  BY <1>2 DEF DeactivateNorth, DeactivateSouth
<1>3. CASE c \notin closed
  <2>1. PICK i \in Ids : c \in northDone[i] \union southDone[i]
    BY <1>1, <1>3, <1>t DEF SlotShape, Stoppable, Registered
  <2>2. /\ c \in northDone[i] => task[c] \in North \X {i}
        /\ c \in southDone[i] => task[c] \in South \X {i}
    BY <2>1, <1>t DEF CloseOnce
  <2>3. i = wmsg[w].gw
    BY <2>1, <2>2, <1>1
  <2>4. /\ task[c][1] \in North => c \in northDone[wmsg[w].gw]
        /\ task[c][1] \in South => c \in southDone[wmsg[w].gw]
    BY <2>1, <2>2, <2>3, <1>1, BackendsAssumption
  <2> QED BY <2>4 DEF DeactivateNorth, DeactivateSouth
<1> QED BY <1>2, <1>3

\* Every step of an orderly behaviour keeps the order.
LEMMA OrderStep ==
  ASSUME Orderly, ControlInv, OneInHand, OrderInv, [Next]_vars
  PROVE  OrderInv'
<1>t. TypeOK /\ SlotShape /\ TypeOK' /\ SlotShape' /\ "late" \notin faults /\ "parallel" \notin faults
  BY TypeStep, SlotStep DEF ControlInv, ActivationShape, SlotInv, Orderly
\* One handler at a step of a message is the only one.
<1>o. ASSUME NEW w \in Workers, wpc[w] \notin {"idle", "route", "quit"}
      PROVE  booting = NoId /\ \A v \in Workers \ {w} : wpc[v] \in {"idle", "route", "quit"}
  BY <1>o, InHand DEF OneInHand, AllIdle
<1>1. ASSUME NEW w \in Workers, ActivateGateway(w) PROVE OrderInv'
  <2>1. /\ Activate(wmsg[w].gw) /\ wpc[w] = "activate" /\ wpc'[w] = "idle"
        /\ UNCHANGED <<closed, gateways, booting>>
        /\ \A v \in Workers \ {w} : wpc'[v] = wpc[v]
    BY <1>1, <1>t DEF ActivateGateway, Done, Goto, doneVars, bootVars, TypeOK
  <2>2. wmsg[w].gw \in Ids /\ wmsg[w].gw \in gateways /\ Of(wmsg[w].gw) = {}
    BY <2>1, InHand DEF OneInHand, OrderInv, StartsFresh
  <2>3. booting' = NoId /\ \A v \in Workers : wpc'[v] \in {"idle", "route", "quit"}
    BY <2>1, <1>o
  <2> QED BY <2>1, <2>2, <2>3, ActivateInOrder
<1>2. ASSUME ForceActivate PROVE OrderInv'
  <2>1. /\ Activate(booting) /\ booting # NoId /\ booting' = NoId
        /\ UNCHANGED <<closed, gateways, wpc>>
    BY <1>2 DEF ForceActivate, doneVars, workerVars
  <2>2. booting \in Ids /\ booting \in gateways /\ Of(booting) = {}
    BY <2>1, <1>t DEF OneInHand, OrderInv, TypeOK
  <2>3. \A v \in Workers : wpc'[v] \in {"idle", "route", "quit"}
    BY <2>1, <1>o
  <2> QED BY <2>1, <2>2, <2>3, ActivateInOrder
\* The other steps only let slots advance.
<1> DEFINE Rest == \A c \in Chans : Advances(c)
<1>a. ASSUME Rest PROVE Single' /\ \A id : Of(id)' \subseteq Of(id)
  BY <1>a DEF Advances, OrderInv, Single, Of
<1>b. ASSUME Rest, NEW c \in Chans, Live(c)'
      PROVE  Live(c) /\ task'[c] = task[c] /\ task[c] # NoTask
  BY <1>b, <1>t DEF Advances, Live, SlotShape, TypeOK
<1>c. ASSUME Rest, gateways \subseteq gateways' PROVE LiveConnected'
  BY <1>b, <1>c DEF LiveConnected, OrderInv
<1>d. ASSUME Rest, NEW w \in Workers, wpc'[w] = wpc[w], wmsg'[w] = wmsg[w],
             gateways \subseteq gateways'
      PROVE  EndsInOrder(w)' /\ StartsFresh(w)'
  <2>1. EndsInOrder(w)'
    BY <1>d DEF OrderInv, EndsInOrder, Advances, Of
  <2>2. StartsFresh(w)'
    BY <1>a, <1>d DEF OrderInv, StartsFresh
  <2> QED BY <2>1, <2>2
\* A step of one worker.
<1>e. ASSUME Rest, NEW w \in Workers, UNCHANGED booting, gateways \subseteq gateways',
             \A v \in Workers \ {w} : wpc'[v] = wpc[v] /\ wmsg'[v] = wmsg[v],
             EndsInOrder(w)', StartsFresh(w)'
      PROVE  OrderInv'
  <2>1. \A v \in Workers : EndsInOrder(v)' /\ StartsFresh(v)'
    BY <1>d, <1>e
  <2> QED BY <1>a, <1>c, <1>e, <2>1 DEF OrderInv
<1>3. ASSUME Rest, NEW w \in Workers,
             ConnectRefused(w) \/ DisconnectRefused(w) \/ Route(w) \/ Quit(w)
             \/ (\E c \in Chans : Handoff(c, w))
      PROVE  OrderInv'
  <2>1. /\ UNCHANGED <<gateways, booting>> /\ wpc'[w] \in {"idle", "route", "quit"}
        /\ \A v \in Workers \ {w} : wpc'[v] = wpc[v] /\ wmsg'[v] = wmsg[v]
    BY <1>3, <1>t DEF ConnectRefused, DisconnectRefused, Route, Quit, Handoff, Done, Goto,
       bootVars, TypeOK
  <2>2. EndsInOrder(w)' /\ StartsFresh(w)'
    BY <2>1 DEF EndsInOrder, StartsFresh
  <2> QED BY <1>3, <1>e, <2>1, <2>2
<1>4. ASSUME Rest, NEW s \in South, NEW w \in Workers, Receive(s, w) PROVE OrderInv'
  <2>1. /\ UNCHANGED <<gateways, booting, apc, task, closed>>
        /\ wmsg'[w] = held[s] /\ wpc'[w] \in {"setkey", "contains"}
        /\ \A v \in Workers \ {w} : wpc'[v] = wpc[v] /\ wmsg'[v] = wmsg[v]
    BY <1>4, <1>t DEF Receive, Goto, actVars, doneVars, bootVars, TypeOK
  <2>2. \A c \in Of(held[s].gw) : apc[c] \in {"run", "send"} /\ c \notin closed
    BY <1>4, <1>t DEF Receive, Settled
  <2>3. \A c \in Of(held[s].gw) : held[s].gw \in gateways
    BY <2>2 DEF OrderInv, LiveConnected, Live, Of
  <2>4. EndsInOrder(w)'
    BY <2>1, <2>2 DEF EndsInOrder, Of
  <2>5. StartsFresh(w)'
    BY <2>1, <2>3 DEF StartsFresh, Of
  <2> QED BY <1>4, <1>e, <2>1, <2>4, <2>5
<1>5. ASSUME Rest, NEW w \in Workers, SetKey(w) \/ AddGateway(w) PROVE OrderInv'
  <2>1. /\ UNCHANGED <<booting, apc, task, closed>> /\ gateways \subseteq gateways'
        /\ wpc[w] \in {"setkey", "add"}
        /\ \A v \in Workers \ {w} : wpc'[v] = wpc[v] /\ wmsg'[v] = wmsg[v]
    BY <1>5, <1>t DEF SetKey, AddGateway, Goto, Done, actVars, doneVars, bootVars, TypeOK
  <2>2. \/ wpc'[w] = "idle"
        \/ wpc'[w] = "add" /\ UNCHANGED <<gateways, wmsg>>
        \/ wpc'[w] = "activate" /\ wmsg[w].gw \notin gateways /\ UNCHANGED wmsg
    BY <1>5, <1>t DEF SetKey, AddGateway, Goto, Done, TypeOK
  <2>3. EndsInOrder(w)'
    BY <2>2 DEF EndsInOrder
  <2>4. StartsFresh(w)'
    BY <2>1, <2>2 DEF OrderInv, StartsFresh, Of
  <2> QED BY <1>5, <1>e, <2>1, <2>3, <2>4
<1>6. ASSUME Rest, NEW w \in Workers, ContainsGateway(w) \/ ValidateKey(w) PROVE OrderInv'
  <2>1. /\ UNCHANGED <<gateways, booting, apc, task, closed>>
        /\ wpc[w] \in {"contains", "validate"}
        /\ wpc'[w] = "idle" \/ (wpc'[w] \in {"validate", "north"} /\ wmsg'[w] = wmsg[w])
        /\ \A v \in Workers \ {w} : wpc'[v] = wpc[v] /\ wmsg'[v] = wmsg[v]
    BY <1>6, <1>t DEF ContainsGateway, ValidateKey, Goto, Done, actVars, doneVars, bootVars, TypeOK
  <2>2. EndsInOrder(w)'
    BY <2>1 DEF OrderInv, EndsInOrder, Of
  <2>3. StartsFresh(w)'
    BY <2>1 DEF StartsFresh
  <2> QED BY <1>6, <1>e, <2>1, <2>2, <2>3
<1>7. ASSUME Rest, NEW w \in Workers, DeactivateNorth(w) \/ DeactivateSouth(w) PROVE OrderInv'
  <2>1. /\ UNCHANGED <<gateways, booting, apc, task, wmsg>> /\ closed \subseteq closed'
        /\ \/ DeactivateNorth(w) /\ wpc[w] = "north" /\ wpc'[w] = "south"
           \/ DeactivateSouth(w) /\ wpc[w] = "south" /\ wpc'[w] = "remove"
        /\ \A v \in Workers \ {w} : wpc'[v] = wpc[v] /\ wmsg'[v] = wmsg[v]
    BY <1>7, <1>t DEF DeactivateNorth, DeactivateSouth, Goto, actVars, bootVars, TypeOK
  <2>2. ASSUME NEW c \in Of(wmsg[w].gw)
        PROVE  /\ apc[c] \in {"run", "send", "unsubscribe"} /\ task[c][1] \in North \union South
               /\ task[c][1] \in North => c \in closed'
               /\ wpc'[w] = "remove" /\ task[c][1] \in South => c \in closed'
    <3>1. apc[c] \in {"run", "send", "unsubscribe"}
      BY <2>1, <2>2 DEF OrderInv, EndsInOrder
    <3>2. task[c][1] \in North \union South
      BY <2>2, <1>t DEF Of, TypeOK, Backends
    <3>3. task[c][1] \in North => c \in closed'
      BY <2>1, <2>2, <3>1, DeactivateCloses DEF OrderInv, EndsInOrder
    <3>4. wpc'[w] = "remove" /\ task[c][1] \in South => c \in closed'
      BY <2>1, <2>2, <3>1, DeactivateCloses
    <3> QED BY <3>1, <3>2, <3>3, <3>4
  <2>3. EndsInOrder(w)'
    BY <2>1, <2>2 DEF EndsInOrder, Of
  <2>4. StartsFresh(w)'
    BY <2>1 DEF StartsFresh
  <2> QED BY <1>7, <1>e, <2>1, <2>3, <2>4
<1>8. ASSUME Rest, NEW w \in Workers, RemoveGateway(w) PROVE OrderInv'
  <2>1. /\ UNCHANGED <<booting, apc, task, closed>> /\ gateways' = gateways \ {wmsg[w].gw}
        /\ wpc[w] = "remove" /\ wpc'[w] = "idle"
        /\ \A v \in Workers \ {w} : wpc'[v] = wpc[v] /\ wmsg'[v] = wmsg[v]
    BY <1>8, <1>t DEF RemoveGateway, Goto, Done, actVars, doneVars, bootVars, TypeOK
  <2>2. \A v \in Workers : wpc'[v] \in {"idle", "route", "quit"}
    BY <2>1, <1>o
  <2>3. \A v \in Workers : EndsInOrder(v)' /\ StartsFresh(v)'
    BY <2>2 DEF EndsInOrder, StartsFresh
  <2>4. LiveConnected'
    <3> SUFFICES ASSUME NEW c \in Chans, Live(c)' PROVE task'[c][2] \in gateways'
      BY DEF LiveConnected
    <3>1. Live(c) /\ task'[c] = task[c] /\ task[c] # NoTask
      BY <1>8, <1>b
    <3>2. task[c][2] \in gateways
      BY <3>1 DEF OrderInv, LiveConnected
    <3>3. task[c][2] # wmsg[w].gw
      BY <2>1, <3>1 DEF OrderInv, EndsInOrder, Of, Live
    <3> QED BY <2>1, <3>1, <3>2, <3>3
  <2> QED BY <1>8, <1>a, <2>1, <2>3, <2>4 DEF OrderInv
<1>9. ASSUME Rest, NEW i \in Ids, ForceAdd(i) PROVE OrderInv'
  <2>1. /\ UNCHANGED <<wpc, wmsg, apc, task, closed>> /\ gateways \subseteq gateways'
        /\ booting = NoId
    BY <1>9 DEF ForceAdd, workerVars, actVars, doneVars
  <2>2. \A v \in Workers : EndsInOrder(v)' /\ StartsFresh(v)'
    BY <1>9, <1>d, <2>1
  <2>3. (booting # NoId => Of(booting) = {})'
    <3>1. CASE i \in gateways
      BY <1>9, <3>1 DEF ForceAdd
    <3>2. CASE i \notin gateways
      <4>1. booting' = i /\ Settled(i)
        BY <1>9, <3>2, <1>t DEF ForceAdd
      <4>2. Of(i) = {}
        BY <3>2, <4>1 DEF Settled, OrderInv, LiveConnected, Live, Of
      <4> QED BY <2>1, <4>1, <4>2 DEF Of
    <3> QED BY <3>1, <3>2
  <2> QED BY <1>9, <1>a, <1>c, <2>1, <2>2, <2>3 DEF OrderInv
<1>10. ASSUME Rest, \/ \E s \in South, m \in Messages : Offer(s, m)
                    \/ \E c \in Chans : ActivationStep(c)
                    \/ CloseDone \/ Sweep \/ UNCHANGED vars
       PROVE  OrderInv'
  <2>1. UNCHANGED <<wpc, wmsg, gateways, booting>>
    BY <1>10 DEF Offer, ActivationStep, Subscribe, SubscribeFails, Register, Take, Leave,
       Unsubscribe, CloseDone, Sweep, vars, workerVars, bootVars
  <2>2. \A v \in Workers : EndsInOrder(v)' /\ StartsFresh(v)'
    BY <1>10, <1>d, <2>1
  <2> QED BY <1>10, <1>a, <1>c, <2>1, <2>2 DEF OrderInv
<1>11. CASE ~ForceActivate /\ \A w \in Workers : ~ActivateGateway(w)
  <2>1. Rest
    BY <1>11, SlotsAdvance
  <2> HIDE DEF Rest
  <2> QED
    BY <2>1, <1>1, <1>2, <1>3, <1>4, <1>5, <1>6, <1>7, <1>8, <1>9, <1>10
       DEF Next, WorkerStep, Boot
<1> QED BY <1>1, <1>2, <1>11

\* Orderly behaviours keep the order.
THEOREM InOrder == Spec => [](Orderly => OrderInv)
<1>1. Init => OrderInv
  <2> SUFFICES ASSUME Init PROVE OrderInv
    OBVIOUS
  <2>1. \A id : Of(id) = {}
    BY DEF Init, Of
  <2>2. LiveConnected /\ Single
    BY DEF Init, LiveConnected, Live, Single
  <2>3. \A w \in Workers : EndsInOrder(w) /\ StartsFresh(w)
    BY <2>1 DEF EndsInOrder, StartsFresh
  <2> QED BY <2>1, <2>2, <2>3 DEF OrderInv
<1>2. /\ ControlInv /\ ("parallel" \notin faults => OneInHand)
      /\ (Orderly => OrderInv) /\ [Next]_vars
      => (Orderly => OrderInv)'
  <2> SUFFICES ASSUME ControlInv, "parallel" \notin faults => OneInHand,
                      Orderly => OrderInv, [Next]_vars, Orderly'
               PROVE  OrderInv'
    OBVIOUS
  <2>1. Orderly
    BY FaultsStay DEF Orderly
  <2>2. "parallel" \notin faults
    BY <2>1 DEF Orderly
  <2> QED BY <2>1, <2>2, OrderStep
<1> QED BY <1>1, <1>2, Control, OneMessage, PTL DEF Spec

\* Messages of a gateway are carried only while it is connected, when those about
\* one gateway are handled in turn and after its activations have started or
\* ended; for any number of workers, backends and gateways, and also while the
\* exchange is stopped (exchange.go:29-33).
THEOREM DisconnectedSilent == Spec => []DisconnectedIsSilent
<1>1. (Orderly => OrderInv) => DisconnectedIsSilent
  BY DEF OrderInv, LiveConnected, Live, DisconnectedIsSilent, RoutedUntilDisconnected, Active
<1> QED BY <1>1, InOrder, PTL

-----------------------------------------------------------------------------
(* The activation that runs has the subscription *)

\* Inductive with Single: nobody else subscribes, or ends, for the same gateway.
Subscribed ==
  \A c \in Chans : apc[c] \in {"register", "run", "send", "unsubscribe"} => sub[task[c]] = c

\* Every step of an orderly behaviour in which no subscription fails keeps the
\* subscriptions with the activations that made them.
LEMMA SubscribedStep ==
  ASSUME "backend" \notin faults, ControlInv, Single, Subscribed, [Next]_vars
  PROVE  Subscribed'
<1>t. TypeOK /\ SlotShape /\ HandlerShape
  BY DEF ControlInv, ActivationShape
<1> USE <1>t DEF TypeOK, Subscribed
<1>u. ASSUME UNCHANGED <<apc, task, sub>> PROVE Subscribed'
  BY <1>u
<1>a. ASSUME NEW id \in Ids, Activate(id), UNCHANGED sub PROVE Subscribed'
  <2>1. \A c \in Chans :
          apc'[c] \in {"register", "run", "send", "unsubscribe"} => apc'[c] = apc[c] /\ task'[c] = task[c]
    BY <1>a, ActivateEffect
  <2> QED BY <1>a, <2>1
<1>1. ASSUME NEW w \in Workers, ActivateGateway(w) PROVE Subscribed'
  BY <1>1, <1>a, InHand DEF ActivateGateway
<1>2. ASSUME ForceActivate PROVE Subscribed'
  BY <1>2, <1>a DEF ForceActivate
<1>3. ASSUME NEW c \in Chans, Subscribe(c) PROVE Subscribed'
  <2>1. task[c] \in Backends \X Ids
    BY <1>3 DEF Subscribe, SlotShape
  <2>2. ASSUME NEW d \in Chans, apc'[d] \in {"register", "run", "send", "unsubscribe"}
        PROVE  sub'[task'[d]] = d
    <3>1. CASE d = c
      BY <1>3, <2>1, <3>1 DEF Subscribe
    <3>2. CASE d # c
      <4>1. apc[d] = apc'[d] /\ task'[d] = task[d] /\ task[d] # task[c] /\ task[d] \in Backends \X Ids
        BY <1>3, <2>1, <2>2, <3>2, NullAssumption DEF Subscribe, Single, SlotShape
      <4> QED BY <1>3, <2>2, <4>1 DEF Subscribe
    <3> QED BY <3>1, <3>2
  <2> QED BY <2>2
<1>4. ASSUME NEW c \in Chans, Unsubscribe(c) PROVE Subscribed'
  <2>1. task[c] \in Backends \X Ids
    BY <1>4 DEF Unsubscribe, SlotShape
  <2>2. ASSUME NEW d \in Chans, apc'[d] \in {"register", "run", "send", "unsubscribe"}
        PROVE  sub'[task'[d]] = d
    <3>1. d # c
      BY <1>4, <2>2 DEF Unsubscribe
    <3>2. apc[d] = apc'[d] /\ task'[d] = task[d] /\ task[d] # task[c] /\ task[d] \in Backends \X Ids
      BY <1>4, <2>1, <2>2, <3>1, NullAssumption DEF Unsubscribe, Single, SlotShape
    <3> QED BY <1>4, <2>2, <3>2 DEF Unsubscribe
  <2> QED BY <2>2
<1>5. ASSUME NEW c \in Chans, Register(c) \/ Take(c) \/ Leave(c) PROVE Subscribed'
  BY <1>5 DEF Register, Take, Leave
<1>6. ASSUME NEW c \in Chans, NEW w \in Workers, Handoff(c, w) PROVE Subscribed'
  BY <1>6 DEF Handoff
<1>7. ASSUME \/ \E s \in South, m \in Messages : Offer(s, m)
             \/ \E s \in South, w \in Workers : Receive(s, w)
             \/ \E w \in Workers :
                  \/ SetKey(w) \/ AddGateway(w) \/ ConnectRefused(w) \/ ContainsGateway(w)
                  \/ ValidateKey(w) \/ DisconnectRefused(w) \/ RemoveGateway(w)
                  \/ Route(w) \/ Quit(w) \/ DeactivateNorth(w) \/ DeactivateSouth(w)
             \/ \E id \in Ids : ForceAdd(id)
             \/ CloseDone \/ Sweep \/ UNCHANGED vars
      PROVE  Subscribed'
  BY <1>7, <1>u DEF Offer, Receive, SetKey, AddGateway, ConnectRefused, ContainsGateway,
     ValidateKey, DisconnectRefused, RemoveGateway, Route, Quit, DeactivateNorth,
     DeactivateSouth, ForceAdd, CloseDone, Sweep, actVars, vars
<1> QED
  BY <1>1, <1>2, <1>3, <1>4, <1>5, <1>6, <1>7
     DEF Next, WorkerStep, ActivationStep, Boot, SubscribeFails

\* In orderly behaviours without failing subscriptions, the activation that runs
\* for a gateway is the one its backend delivers to, through any number of
\* reconnects (exchange.go:425-502).
THEOREM ActiveSubscribed == Spec => []ActiveIsSubscribed
<1> DEFINE Quiet == Orderly /\ "backend" \notin faults
<1>1. Init => Subscribed
  BY DEF Init, Subscribed
<1>2. ControlInv /\ (Orderly => OrderInv) /\ (Quiet => Subscribed) /\ [Next]_vars
      => (Quiet => Subscribed)'
  BY FaultsStay, SubscribedStep DEF OrderInv, Orderly
<1>3. (Quiet => Subscribed) => ActiveIsSubscribed
  BY DEF Subscribed, ActiveIsSubscribed, Active
<1> QED BY <1>1, <1>2, <1>3, Control, InOrder, PTL DEF Spec
=============================================================================
