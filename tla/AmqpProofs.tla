------------------------------ MODULE AmqpProofs ------------------------------
(***************************************************************************)
(* For any number of keys and subscribe calls, whatever happens to the     *)
(* connection and however calls overlap: nobody consumes what was          *)
(* unsubscribed.                                                           *)
(***************************************************************************)
EXTENDS AmqpSubscriptions, FiniteSetTheorems, TLAPS

\* Types, with what the place of a goroutine and of a user says: a goroutine has
\* a key, whose entry is there once the subscribe call has returned.
TypeInv ==
  /\ TypeOK
  /\ \A i \in Calls : spc[i] # "none" => skey[i] \in Keys
  /\ \A i \in Calls : spc[i] \notin {"none", "lock"} => entry[skey[i]] \in Calls
  /\ \A k \in Keys : ppc[k] \in {"cancel", "delete"} => entry[k] \in Calls
  /\ writer # None => spc[writer] = "lock"

\* Steps of the connection and of the goroutine that publishes.
LEMMA ConnectionStepType ==
  ASSUME TypeInv, (ConnectionStep \/ Publish \/ PublisherStep) /\ UNCHANGED subscriptionVars
  PROVE  TypeInv'
<1>1. UNCHANGED <<queues, writer, readers, ppc, spc, skey, alive, ended, entry, set, spent, holds, usable, gone>>
  BY DEF subscriptionVars, lockVars, goVars, entryVars
<1>2. ConnectionTypeOK'
  <2>1. ConnectionTypeOK
    BY DEF TypeInv, TypeOK
  <2>2. CASE ConnectionStep
    BY <2>1, <2>2 DEF ConnectionTypeOK, ConnectionStep, Connect, StopConnecting, publishVars
  <2>3. CASE Publish
    BY <2>1, <2>3, BufferSizeAssumption DEF ConnectionTypeOK, Publish
  <2>4. CASE PublisherStep
    <3>1. CASE Take
      <4>1. buffered' \in 0..BufferSize
        BY <2>1, <3>1, BufferSizeAssumption DEF ConnectionTypeOK, Take
      <4> QED
        BY <2>1, <3>1, <4>1 DEF ConnectionTypeOK, Take
    <3>2. CASE GetChannel \/ StopPublishing \/ Listen \/ ChannelClosed
      <4>1. publisher' \in {"none", "dial", "got", "handle", "deaf", "over"} /\ open' \in BOOLEAN
        BY <2>1, <3>2, Zenon
           DEF ConnectionTypeOK, GetChannel, StopPublishing, Listen, ChannelClosed
      <4>2. UNCHANGED <<online, monitor, buffered, faults>>
        BY <3>2 DEF GetChannel, StopPublishing, Listen, ChannelClosed
      <4> QED
        BY <2>1, <4>1, <4>2 DEF ConnectionTypeOK
    <3> QED
      BY <2>4, <3>1, <3>2 DEF PublisherStep
  <2> QED
    BY <2>2, <2>3, <2>4
<1> QED
  BY <1>1, <1>2 DEF TypeInv, TypeOK

\* A goroutine that ends.
LEMMA OverType ==
  ASSUME TypeInv, NEW i \in Calls, Over(i)
  PROVE  /\ spc' \in [Calls -> {"none", "lock", "dial", "entry", "consume", "handle"}]
         /\ skey' \in [Calls -> Keys \union {None}]
         /\ alive' \subseteq Calls /\ ended' \subseteq Calls
         /\ holds' \in [Calls -> Calls \union {None}]
         /\ spc'[i] = "none" /\ \A j \in Calls \ {i} : spc'[j] = spc[j] /\ skey'[j] = skey[j]
BY DEF TypeInv, TypeOK, Over, Goto

\* Every step keeps the variables within their types.
LEMMA TypeStep == TypeInv /\ [Next]_vars => TypeInv'
<1> SUFFICES ASSUME TypeInv, [Next]_vars PROVE TypeInv'
  OBVIOUS
<1> USE AmqpNoneAssumption DEF TypeInv, TypeOK, lockVars, goVars, entryVars
<1>1. ASSUME NEW i \in Calls, NEW k \in Keys, Subscribe(i, k) PROVE TypeInv'
  BY <1>1 DEF Subscribe, Goto, Free, ConnectionTypeOK, connectionVars, publishVars
<1>2. ASSUME NEW k \in Keys, SubscribeFails(k) \/ Unsubscribe(k) PROVE TypeInv'
  BY <1>2 DEF SubscribeFails, Unsubscribe, Step, ConnectionTypeOK, connectionVars, publishVars
<1>3. ASSUME NEW k \in Keys, ReadLock(k) \/ Wait(k) PROVE TypeInv'
  BY <1>3 DEF ReadLock, Wait, Step, ConnectionTypeOK, connectionVars, publishVars
<1>4. ASSUME NEW k \in Keys, Cancel(k) PROVE TypeInv'
  BY <1>4 DEF Cancel, Step, Return, ConnectionTypeOK, connectionVars, publishVars
<1>5. ASSUME NEW k \in Keys, Delete(k) PROVE TypeInv'
  BY <1>5 DEF Delete, Step, Return, ConnectionTypeOK, connectionVars, publishVars
<1>6. ASSUME NEW i \in Calls, AskLock(i) PROVE TypeInv'
  BY <1>6 DEF AskLock, ConnectionTypeOK, connectionVars, publishVars
<1>7. ASSUME NEW i \in Calls, Insert(i) PROVE TypeInv'
  BY <1>7 DEF Insert, Goto, ConnectionTypeOK, connectionVars, publishVars
<1>8. ASSUME NEW i \in Calls, Dial(i) PROVE TypeInv'
  BY <1>8 DEF Dial, Goto, ConnectionTypeOK, connectionVars, publishVars
<1>9. ASSUME NEW i \in Calls, GiveUp(i) PROVE TypeInv'
  BY <1>9, OverType DEF GiveUp, ConnectionTypeOK, connectionVars, publishVars
<1>10. ASSUME NEW i \in Calls, Enter(i) PROVE TypeInv'
  BY <1>10 DEF Enter, Goto, ConnectionTypeOK, connectionVars, publishVars
<1>11. ASSUME NEW i \in Calls, Consume(i) PROVE TypeInv'
  BY <1>11, OverType DEF Consume, Goto, ConnectionTypeOK, connectionVars, publishVars
<1>12. ASSUME NEW i \in Calls, Closed(i) PROVE TypeInv'
  BY <1>12 DEF Closed, Goto, ConnectionTypeOK, connectionVars, publishVars
<1>13. ASSUME NEW i \in Calls, Drained(i) PROVE TypeInv'
  BY <1>13, OverType DEF Drained, ConnectionTypeOK, connectionVars, publishVars
<1>14. CASE Lose
  BY <1>14 DEF Lose, Drop, ConnectionTypeOK, publishVars
<1>15. CASE (ConnectionStep \/ Publish \/ PublisherStep) /\ UNCHANGED subscriptionVars
  BY <1>15, ConnectionStepType
<1>16. CASE UNCHANGED vars
  BY <1>16 DEF vars, ConnectionTypeOK, connectionVars, publishVars, subscriptionVars
<1> HIDE DEF TypeInv
<1> QED
  BY <1>1, <1>2, <1>3, <1>4, <1>5, <1>6, <1>7, <1>8, <1>9, <1>10, <1>11, <1>12, <1>13, <1>14, <1>15, <1>16
     DEF Next, GoroutineStep, UnsubscribeStep

\* So are they at first.
LEMMA InitType == Init => TypeInv
<1> SUFFICES ASSUME Init PROVE TypeInv
  OBVIOUS
<1>1. ConnectionTypeOK
  <2>1. buffered \in 0..BufferSize
    BY BufferSizeAssumption DEF Init, ConnectionInit
  <2> QED
    BY <2>1 DEF Init, ConnectionInit, ConnectionTypeOK
<1>2. TypeOK
  BY <1>1 DEF Init, TypeOK
<1> QED
  BY <1>2 DEF Init, TypeInv

\* The variables keep to their types.
THEOREM TypeCorrect == Spec => []TypeOK
<1>1. Init => TypeInv
  BY InitType
<1>2. TypeInv => TypeOK
  BY DEF TypeInv
<1> QED
  BY <1>1, <1>2, TypeStep, PTL DEF Spec

-----------------------------------------------------------------------------
\* What keeps new consumers away is that the queue is not there either.
GoneInv == \A k \in gone : k \notin queues /\ Consumers(k) = {}

\* A step keeps what is gone away when it declares no queue of it and makes
\* nobody consume it who did not before.
LEMMA GoneKept ==
  ASSUME GoneInv, gone' \subseteq gone, \A k \in gone' : k \in queues' => k \in queues,
         \A k \in gone' : Consumers(k)' \subseteq Consumers(k)
  PROVE  GoneInv'
BY DEF GoneInv

\* A goroutine that does not consume makes no new consumer, whatever it does.
LEMMA NoNewConsumer ==
  ASSUME GoneInv, NEW i \in Calls, spc'[i] # "handle", gone' = gone, queues' = queues,
         \A j \in Calls \ {i} : spc'[j] = spc[j] /\ skey'[j] = skey[j],
         alive' \ {i} = alive \ {i}, ended' \ {i} = ended \ {i}
  PROVE  GoneInv'
<1>1. ASSUME NEW k \in gone, NEW j \in Consumers(k)' PROVE j \in Consumers(k)
  <2>1. j \in Calls /\ skey'[j] = k /\ j \notin ended' /\ spc'[j] = "handle" /\ j \in alive'
    BY <1>1 DEF Consumers, Of
  <2>2. j # i
    BY <2>1
  <2>3. j \notin ended /\ j \in alive
    BY <2>1, <2>2
  <2> QED
    BY <2>1, <2>2, <2>3 DEF Consumers, Of
<1> QED
  BY <1>1, GoneKept

\* Every step keeps what is gone away.
LEMMA GoneStep == TypeInv /\ GoneInv /\ [Next]_vars => GoneInv'
<1> SUFFICES ASSUME TypeInv, GoneInv, [Next]_vars PROVE GoneInv'
  OBVIOUS
<1>t. /\ spc \in [Calls -> {"none", "lock", "dial", "entry", "consume", "handle"}]
      /\ skey \in [Calls -> Keys \union {None}]
  BY DEF TypeInv, TypeOK
<1>1. ASSUME NEW i \in Calls, NEW k \in Keys, Subscribe(i, k) PROVE GoneInv'
  <2>1. gone' = gone \ {k} /\ queues' = queues \union {k} /\ alive' = alive /\ ended' = ended
    BY <1>1 DEF Subscribe
  <2>2. spc'[i] = "lock" /\ \A j \in Calls \ {i} : spc'[j] = spc[j] /\ skey'[j] = skey[j]
    BY <1>1, <1>t DEF Subscribe, Goto
  <2> QED
    BY <2>1, <2>2, GoneKept DEF Consumers, Of
<1>2. ASSUME NEW i \in Calls, AskLock(i) PROVE GoneInv'
  BY <1>2, GoneKept DEF AskLock, goVars, Consumers, Of
<1>3. ASSUME NEW i \in Calls, Insert(i) \/ Dial(i) \/ Enter(i) \/ Closed(i) PROVE GoneInv'
  <2>1. gone' = gone /\ queues' = queues /\ skey' = skey
    BY <1>3 DEF Insert, Dial, Enter, Closed
  <2>2. Goto(i, "dial") \/ Goto(i, "entry") \/ Goto(i, "consume")
    BY <1>3 DEF Insert, Dial, Enter, Closed
  <2>3. spc'[i] # "handle" /\ \A j \in Calls \ {i} : spc'[j] = spc[j]
    BY <2>2, <1>t DEF Goto
  <2>4. alive' \ {i} = alive \ {i} /\ ended' \ {i} = ended \ {i}
    BY <1>3 DEF Insert, Dial, Enter, Closed
  <2> QED
    BY <2>1, <2>3, <2>4, NoNewConsumer
<1>4. ASSUME NEW i \in Calls, Over(i), gone' = gone, queues' = queues PROVE GoneInv'
  <2>1. spc'[i] = "none" /\ \A j \in Calls \ {i} : spc'[j] = spc[j] /\ skey'[j] = skey[j]
    BY <1>4, <1>t DEF Over, Goto
  <2>2. alive' \ {i} = alive \ {i} /\ ended' \ {i} = ended \ {i}
    BY <1>4 DEF Over
  <2> QED
    BY <1>4, <2>1, <2>2, NoNewConsumer
<1>5. ASSUME NEW i \in Calls, Consume(i), skey[i] \in queues, Goto(i, "handle"),
             UNCHANGED <<skey, alive, ended>>
      PROVE  GoneInv'
  <2>1. gone' = gone /\ queues' = queues
    BY <1>5 DEF Consume
  <2>2. \A j \in Calls \ {i} : spc'[j] = spc[j]
    BY <1>5, <1>t DEF Goto
  <2>3. \A k \in gone : skey[i] # k
    BY <1>5 DEF GoneInv
  <2> QED
    BY <1>5, <2>1, <2>2, <2>3, GoneKept DEF Consumers, Of
<1>6. ASSUME NEW k \in Keys, SubscribeFails(k) \/ Unsubscribe(k) \/ ReadLock(k) \/ Wait(k)
      PROVE  GoneInv'
  BY <1>6, GoneKept DEF SubscribeFails, Unsubscribe, ReadLock, Wait, goVars, Consumers, Of
<1>7. ASSUME NEW k \in Keys, Cancel(k) PROVE GoneInv'
  <2>1. UNCHANGED <<gone, queues, spc, skey, alive>> /\ ended \subseteq ended'
    BY <1>7 DEF Cancel
  <2> QED
    BY <2>1, GoneKept DEF Consumers, Of
<1>8. ASSUME NEW k \in Keys, Delete(k) PROVE GoneInv'
  <2>1. UNCHANGED <<spc, skey, alive, ended>>
    BY <1>8 DEF Delete, goVars
  <2>2. CASE Consumers(k) = {} /\ queues' = queues \ {k} /\ gone' = gone \union {k}
    BY <2>1, <2>2 DEF GoneInv, Consumers, Of
  <2>3. CASE UNCHANGED <<queues, gone>>
    BY <2>1, <2>3, GoneKept DEF Consumers, Of
  <2> QED
    BY <1>8, <2>2, <2>3 DEF Delete
<1>9. CASE Lose
  BY <1>9, GoneKept DEF Lose, Consumers, Of
<1>10. CASE (ConnectionStep \/ Publish \/ PublisherStep) /\ UNCHANGED subscriptionVars
  BY <1>10, GoneKept DEF subscriptionVars, goVars, Consumers, Of
<1>11. CASE UNCHANGED vars
  BY <1>11, GoneKept DEF vars, subscriptionVars, goVars, Consumers, Of
<1>12. ASSUME NEW i \in Calls, Consume(i) PROVE GoneInv'
  BY <1>5, <1>12, <1>4 DEF Consume
<1>13. ASSUME NEW i \in Calls, GiveUp(i) \/ Drained(i) PROVE GoneInv'
  BY <1>4, <1>13 DEF GiveUp, Drained
<1> QED
  BY <1>1, <1>2, <1>3, <1>6, <1>7, <1>8, <1>9, <1>10, <1>11, <1>12, <1>13 DEF Next, GoroutineStep, UnsubscribeStep

\* Nobody consumes a key whose unsubscribe returned without an error, however the
\* calls overlap and whatever happens to the connection in between.
THEOREM GoneStaysGone == Spec => []GoneIsGone
<1>1. Init => TypeInv /\ GoneInv
  BY InitType DEF Init, GoneInv
<1>2. GoneInv => GoneIsGone
  BY DEF GoneInv, GoneIsGone
<1> QED
  BY <1>1, <1>2, TypeStep, GoneStep, PTL DEF Spec

-----------------------------------------------------------------------------
(* One consumer *)

\* The calls of a key whose consumer was not cancelled.
Unended(k) == Of(k) \ ended

\* A goroutine past Enter that was not cancelled has its channel in its key's
\* entry, where a cancel finds it while the channel is open.
Attached(i) ==
  i \notin ended /\ spc[i] \in {"consume", "handle"} =>
    /\ holds[entry[skey[i]]] = i
    /\ i \in alive => entry[skey[i]] \in usable \ spent

\* Who was cancelled consumes to the end of its channel's deliveries; a
\* goroutine that is over has no key.
GoInv ==
  /\ ended \subseteq alive /\ \A i \in ended : spc[i] = "handle"
  /\ \A i \in Calls : spc[i] = "none" => skey[i] = None

\* Two keys never share an entry, and a call that has not inserted its entry has
\* none.
EntryInv ==
  /\ \A k, l \in Keys : entry[k] = entry[l] /\ entry[k] # None => k = l
  /\ \A i \in Calls, k \in Keys : spc[i] = "lock" => entry[k] # i

\* A key has one call at most, none while it is not subscribed, and a steady one
\* while it is being unsubscribed.
Alone(k) ==
  /\ \A i, j \in Unended(k) : i = j
  /\ ppc[k] \in {"out", "delete"} => Unended(k) = {}
  /\ ppc[k] \in {"lock", "wait", "cancel"} => Unended(k) \subseteq Consumers(k)

\* Inductive unless calls overlap or a cancel meets a loss of the connection: it
\* would miss the consumer then.
AloneInv == GoInv /\ EntryInv /\ (\A i \in Calls : Attached(i)) /\ \A k \in Keys : Alone(k)

\* An open entry has the channel of a goroutine that is there, or of one that is
\* over.
UsableInv == \A o \in usable : holds[o] \in alive \union {None}

\* Every step keeps that.
LEMMA UsableStep == TypeInv /\ UsableInv /\ [Next]_vars => UsableInv'
<1> SUFFICES ASSUME TypeInv, UsableInv, [Next]_vars PROVE UsableInv'
  OBVIOUS
<1>t. usable \subseteq Calls /\ holds \in [Calls -> Calls \union {None}]
      /\ \A i \in Calls : spc[i] \notin {"none", "lock"} => entry[skey[i]] \in Calls
  BY DEF TypeInv, TypeOK
<1>1. ASSUME NEW i \in Calls, Over(i), UNCHANGED usable PROVE UsableInv'
  BY <1>1, <1>t DEF UsableInv, Over
<1>2. ASSUME NEW i \in Calls, GiveUp(i) \/ Drained(i) \/ Consume(i) PROVE UsableInv'
  <2>1. UNCHANGED usable /\ (Over(i) \/ UNCHANGED <<alive, holds>>)
    BY <1>2 DEF GiveUp, Drained, Consume
  <2> QED BY <1>1, <2>1 DEF UsableInv
<1>3. ASSUME NEW i \in Calls, Insert(i) PROVE UsableInv'
  BY <1>3, <1>t DEF UsableInv, Insert
<1>4. ASSUME NEW i \in Calls, Enter(i) PROVE UsableInv'
  <2>1. entry[skey[i]] \in Calls
    BY <1>4, <1>t DEF Enter
  <2> QED BY <1>4, <2>1, <1>t DEF UsableInv, Enter
<1>5. ASSUME NEW i \in Calls, Dial(i) \/ AskLock(i) \/ Closed(i) PROVE UsableInv'
  BY <1>5 DEF UsableInv, Dial, AskLock, Closed, goVars, entryVars
<1>6. ASSUME NEW k \in Keys,
             \/ SubscribeFails(k) \/ Unsubscribe(k) \/ UnsubscribeStep(k)
             \/ \E i \in Calls : Subscribe(i, k)
      PROVE  UsableInv'
  BY <1>6 DEF UsableInv, SubscribeFails, Unsubscribe, UnsubscribeStep, ReadLock, Wait, Cancel,
     Delete, Subscribe, goVars, entryVars
<1>7. CASE Lose \/ ((ConnectionStep \/ Publish \/ PublisherStep) /\ UNCHANGED subscriptionVars)
           \/ UNCHANGED vars
  BY <1>7 DEF UsableInv, Lose, vars, subscriptionVars, goVars, entryVars
<1> QED
  BY <1>2, <1>3, <1>4, <1>5, <1>6, <1>7 DEF Next, GoroutineStep

\* A step that moves one call, which has not been cancelled, within its key.
LEMMA MoveAlone ==
  ASSUME TypeInv, AloneInv, NEW i \in Calls, i \notin ended,
         UNCHANGED <<skey, ended>>, spc[i] # "handle", spc'[i] \notin {"none", "lock"}, spc[i] # "none",
         alive \subseteq alive', \A j \in Calls \ {i} : spc'[j] = spc[j],
         \A k \in Keys : ppc'[k] = ppc[k] \/ (ppc'[k] = "in" /\ k = skey[i])
  PROVE  GoInv' /\ \A k \in Keys : Alone(k)'
<1>1. GoInv'
  BY DEF AloneInv, GoInv, TypeInv, TypeOK
<1>2. ASSUME NEW k \in Keys PROVE Alone(k)'
  <2>1. Unended(k)' = Unended(k) /\ \A j, l \in Unended(k) : j = l
    BY DEF Unended, Of, AloneInv, Alone
  <2>2. CASE ppc'[k] = "in"
    BY <2>1, <2>2 DEF Alone
  <2>3. CASE ppc'[k] = ppc[k]
    <3>1. ppc[k] \in {"out", "delete"} => Unended(k) = {}
      BY DEF AloneInv, Alone
    <3>2. ASSUME ppc[k] \in {"lock", "wait", "cancel"} PROVE Unended(k)' \subseteq Consumers(k)'
      <4>1. Unended(k) \subseteq Consumers(k)
        BY <3>2 DEF AloneInv, Alone
      <4>2. i \notin Unended(k)
        BY <4>1 DEF Consumers
      <4> QED BY <2>1, <4>1, <4>2 DEF Consumers, Of, Unended
    <3> QED BY <2>1, <2>3, <3>1, <3>2 DEF Alone
  <2> QED BY <2>2, <2>3
<1> QED BY <1>1, <1>2

\* A goroutine that ends leaves the rest as it is.
LEMMA OverAlone ==
  ASSUME TypeInv, AloneInv, NEW i \in Calls, Over(i), UNCHANGED <<entry, ppc, usable, spent>>
  PROVE  AloneInv'
<1>t. /\ skey' = [skey EXCEPT ![i] = None] /\ spc' = [spc EXCEPT ![i] = "none"]
      /\ spc'[i] = "none" /\ skey'[i] = None
      /\ \A j \in Calls \ {i} : spc'[j] = spc[j] /\ skey'[j] = skey[j]
      /\ alive' = alive \ {i} /\ ended' = ended \ {i}
      /\ holds' = [o \in Calls |-> IF holds[o] = i THEN None ELSE holds[o]]
  BY DEF Over, Goto, TypeInv, TypeOK
<1>1. GoInv'
  BY <1>t DEF AloneInv, GoInv, TypeInv, TypeOK
<1>2. EntryInv'
  BY <1>t DEF AloneInv, EntryInv
<1>3. ASSUME NEW j \in Calls PROVE Attached(j)'
  <2>1. CASE j = i
    BY <1>t, <2>1 DEF Attached
  <2>2. CASE j # i
    <3>1. spc[j] \in {"consume", "handle"} => entry[skey[j]] \in Calls
      BY DEF TypeInv
    <3> QED BY <1>t, <2>2, <3>1 DEF AloneInv, Attached
  <2> QED BY <2>1, <2>2
<1>4. ASSUME NEW k \in Keys PROVE Alone(k)'
  <2>1. Unended(k)' = Unended(k) \ {i}
    BY <1>t, AmqpNoneAssumption DEF Unended, Of
  <2>2. Consumers(k) \ {i} \subseteq Consumers(k)'
    BY <1>t DEF Consumers, Of
  <2> QED BY <2>1, <2>2 DEF AloneInv, Alone
<1> QED BY <1>1, <1>2, <1>3, <1>4 DEF AloneInv

\* Every step keeps the consumers alone.
LEMMA AloneStep ==
  ASSUME faults \intersect {"rush", "cut"} = {}, TypeInv, UsableInv, AloneInv, [Next]_vars
  PROVE  AloneInv'
<1>t. /\ spc \in [Calls -> {"none", "lock", "dial", "entry", "consume", "handle"}]
      /\ skey \in [Calls -> Keys \union {None}] /\ ended \subseteq Calls
      /\ ppc \in [Keys -> {"out", "calls", "in", "lock", "wait", "cancel", "delete"}]
      /\ entry \in [Keys -> Calls \union {None}] /\ holds \in [Calls -> Calls \union {None}]
      /\ \A i \in Calls : spc[i] # "none" => skey[i] \in Keys
      /\ \A i \in Calls : spc[i] \notin {"none", "lock"} => entry[skey[i]] \in Calls
  BY DEF TypeInv, TypeOK
<1>g. /\ ended \subseteq alive /\ \A i \in ended : spc[i] = "handle"
      /\ \A i \in Calls : spc[i] = "none" => skey[i] = None
  BY DEF AloneInv, GoInv
<1>1. ASSUME NEW i \in Calls, NEW k \in Keys, Subscribe(i, k) PROVE AloneInv'
  <2>1. /\ spc[i] = "none" /\ (\A l \in Keys : entry[l] # i) /\ i \notin ended
        /\ ppc[k] = "out" /\ ppc'[k] = "calls" /\ (\A l \in Keys \ {k} : ppc'[l] = ppc[l])
        /\ spc'[i] = "lock" /\ skey'[i] = k /\ \A j \in Calls \ {i} : spc'[j] = spc[j] /\ skey'[j] = skey[j]
        /\ UNCHANGED <<alive, ended, entry, holds, usable, spent>>
    BY <1>1, <1>t, <1>g DEF Subscribe, Free, Goto, entryVars
  <2>2. GoInv'
    BY <2>1, <1>g, <1>t DEF GoInv
  <2>3. EntryInv'
    BY <2>1 DEF AloneInv, EntryInv
  <2>4. \A j \in Calls : Attached(j)'
    BY <2>1 DEF AloneInv, Attached
  <2>5. ASSUME NEW l \in Keys PROVE Alone(l)'
    <3>1. CASE l = k
      <4>1. Unended(k) = {}
        BY <2>1 DEF AloneInv, Alone
      <4>2. Unended(k)' = {i}
        BY <2>1, <4>1 DEF Unended, Of
      <4> QED BY <2>1, <3>1, <4>2 DEF Alone
    <3>2. CASE l # k
      <4>1. Unended(l)' = Unended(l) /\ Consumers(l)' = Consumers(l)
        BY <2>1, <3>2, <1>g, AmqpNoneAssumption DEF Unended, Consumers, Of
      <4> QED BY <2>1, <3>2, <4>1 DEF AloneInv, Alone
    <3> QED BY <3>1, <3>2
  <2> QED BY <2>2, <2>3, <2>4, <2>5 DEF AloneInv
<1>2. ASSUME NEW k \in Keys,
             \/ SubscribeFails(k) \/ Unsubscribe(k) \/ ReadLock(k) \/ Wait(k)
      PROVE  AloneInv'
  <2>1. /\ UNCHANGED <<spc, skey, alive, ended, entry, holds, usable, spent>>
        /\ \A l \in Keys \ {k} : ppc'[l] = ppc[l]
    BY <1>2, <1>t DEF SubscribeFails, Unsubscribe, ReadLock, Wait, Step, goVars, entryVars
  <2>2. \/ ppc'[k] = "in"
        \/ ppc[k] = "in" /\ ppc'[k] = "lock" /\ Steady(k)
        \/ ppc[k] \in {"lock", "wait"} /\ ppc'[k] \in {"wait", "cancel"}
    BY <1>2, <1>t DEF SubscribeFails, Unsubscribe, ReadLock, Wait, Step
  <2>3. GoInv' /\ EntryInv' /\ \A j \in Calls : Attached(j)'
    BY <2>1 DEF AloneInv, GoInv, EntryInv, Attached
  <2>4. ASSUME NEW l \in Keys PROVE Alone(l)'
    <3>1. Unended(l)' = Unended(l) /\ Consumers(l)' = Consumers(l)
      BY <2>1 DEF Unended, Consumers, Of
    <3>2. l = k /\ Steady(k) => Unended(l) \subseteq Consumers(l)
      BY DEF Steady, Unended
    <3> QED BY <2>1, <2>2, <3>1, <3>2 DEF AloneInv, Alone
  <2> QED BY <2>3, <2>4 DEF AloneInv
<1>3. ASSUME NEW i \in Calls, AskLock(i) PROVE AloneInv'
  BY <1>3 DEF AskLock, goVars, entryVars, AloneInv, GoInv, EntryInv, Attached, Alone, Unended,
     Consumers, Of
<1>4. ASSUME NEW i \in Calls, Insert(i) PROVE AloneInv'
  <2>1. /\ spc[i] = "lock" /\ spc'[i] = "dial" /\ i \notin ended /\ skey[i] \in Keys
        /\ \A j \in Calls \ {i} : spc'[j] = spc[j]
        /\ entry' = [entry EXCEPT ![skey[i]] = i] /\ UNCHANGED <<skey, alive, ended>>
        /\ \A k \in Keys : ppc'[k] = ppc[k] \/ (ppc'[k] = "in" /\ k = skey[i])
        /\ \A o \in Calls \ {i} : holds'[o] = holds[o] /\ (o \in usable' <=> o \in usable) /\ (o \in spent' <=> o \in spent)
    BY <1>4, <1>t, <1>g, AmqpNoneAssumption DEF Insert, Goto, TypeInv
  <2>2. GoInv' /\ \A k \in Keys : Alone(k)'
    BY <2>1, MoveAlone
  <2>3. EntryInv'
    BY <2>1, <1>t DEF AloneInv, EntryInv
  <2>4. ASSUME NEW j \in Calls PROVE Attached(j)'
    <3> SUFFICES ASSUME j \notin ended, spc'[j] \in {"consume", "handle"}
                 PROVE  /\ holds'[entry'[skey[j]]] = j
                        /\ j \in alive => entry'[skey[j]] \in usable' \ spent'
      BY <2>1 DEF Attached
    <3>1. j # i /\ spc[j] \in {"consume", "handle"} /\ skey[j] \in Keys /\ entry[skey[j]] \in Calls
      BY <2>1, <1>t
    <3>2. skey[j] # skey[i]
      BY <2>1, <3>1 DEF AloneInv, Alone, Unended, Of
    <3>3. entry'[skey[j]] = entry[skey[j]] /\ entry[skey[j]] # i
      BY <2>1, <3>1, <3>2, <1>t DEF AloneInv, EntryInv
    <3> QED BY <2>1, <3>1, <3>3 DEF AloneInv, Attached
  <2> QED BY <2>2, <2>3, <2>4 DEF AloneInv
<1>5. ASSUME NEW i \in Calls, Dial(i) PROVE AloneInv'
  <2>1. /\ spc[i] = "dial" /\ spc'[i] = "entry" /\ i \notin ended
        /\ \A j \in Calls \ {i} : spc'[j] = spc[j]
        /\ UNCHANGED <<skey, ended, ppc, entry, holds, usable, spent>> /\ alive' = alive \union {i}
    BY <1>5, <1>t, <1>g DEF Dial, Goto, entryVars
  <2>2. GoInv' /\ \A k \in Keys : Alone(k)'
    BY <2>1, MoveAlone
  <2>3. EntryInv' /\ \A j \in Calls : Attached(j)'
    BY <2>1 DEF AloneInv, EntryInv, Attached
  <2> QED BY <2>2, <2>3 DEF AloneInv
<1>6. ASSUME NEW i \in Calls, Enter(i) PROVE AloneInv'
  <2>1. /\ spc[i] = "entry" /\ spc'[i] = "consume" /\ i \notin ended
        /\ skey[i] \in Keys /\ entry[skey[i]] \in Calls
        /\ \A j \in Calls \ {i} : spc'[j] = spc[j]
        /\ UNCHANGED <<skey, ended, ppc, entry, alive>>
        /\ holds'[entry[skey[i]]] = i /\ entry[skey[i]] \notin spent'
        /\ i \in alive => entry[skey[i]] \in usable'
        /\ \A o \in Calls \ {entry[skey[i]]} :
             holds'[o] = holds[o] /\ (o \in usable' <=> o \in usable) /\ (o \in spent' <=> o \in spent)
    BY <1>6, <1>t, <1>g DEF Enter, Goto
  <2>2. GoInv' /\ \A k \in Keys : Alone(k)'
    BY <2>1, MoveAlone
  <2>3. EntryInv'
    BY <2>1 DEF AloneInv, EntryInv
  <2>4. ASSUME NEW j \in Calls PROVE Attached(j)'
    <3>1. CASE j = i
      BY <2>1, <3>1 DEF Attached
    <3>2. CASE j # i /\ j \notin ended /\ spc[j] \in {"consume", "handle"}
      <4>1. skey[j] \in Keys /\ entry[skey[j]] \in Calls
        BY <3>2, <1>t
      <4>2. skey[j] # skey[i]
        BY <2>1, <3>2 DEF AloneInv, Alone, Unended, Of
      <4>3. entry[skey[j]] # entry[skey[i]]
        BY <2>1, <4>1, <4>2, AmqpNoneAssumption DEF AloneInv, EntryInv
      <4> QED BY <2>1, <3>2, <4>1, <4>3 DEF AloneInv, Attached
    <3> QED BY <2>1, <3>1, <3>2 DEF Attached
  <2> QED BY <2>2, <2>3, <2>4 DEF AloneInv
<1>7. ASSUME NEW i \in Calls, Consume(i) PROVE AloneInv'
  <2>1. CASE i \in alive /\ skey[i] \in queues
    <3>1. /\ spc[i] = "consume" /\ spc'[i] = "handle" /\ i \notin ended
          /\ \A j \in Calls \ {i} : spc'[j] = spc[j]
          /\ UNCHANGED <<skey, ended, ppc, entry, alive, holds, usable, spent>>
      BY <1>7, <2>1, <1>t, <1>g DEF Consume, Goto
    <3>2. GoInv' /\ \A k \in Keys : Alone(k)'
      BY <3>1, MoveAlone
    <3>3. EntryInv' /\ \A j \in Calls : Attached(j)'
      BY <3>1 DEF AloneInv, EntryInv, Attached
    <3> QED BY <3>2, <3>3 DEF AloneInv
  <2>2. CASE ~(i \in alive /\ skey[i] \in queues)
    BY <1>7, <2>2, OverAlone DEF Consume
  <2> QED BY <2>1, <2>2
<1>8. ASSUME NEW i \in Calls, GiveUp(i) \/ Drained(i) PROVE AloneInv'
  BY <1>8, OverAlone DEF GiveUp, Drained
<1>9. ASSUME NEW i \in Calls, Closed(i) PROVE AloneInv'
  <2>1. /\ spc[i] = "handle" /\ spc'[i] = "dial" /\ i \notin ended /\ i \notin alive
        /\ \A j \in Calls \ {i} : spc'[j] = spc[j]
        /\ UNCHANGED <<skey, ended, ppc, entry, alive, holds, usable, spent>>
    BY <1>9, <1>t, <1>g DEF Closed, Goto, entryVars
  <2>2. GoInv' /\ EntryInv' /\ \A j \in Calls : Attached(j)'
    BY <2>1, <1>g, <1>t DEF AloneInv, GoInv, EntryInv, Attached
  <2>3. \A k \in Keys : Unended(k)' = Unended(k) /\ Consumers(k)' = Consumers(k)
    BY <2>1 DEF Unended, Consumers, Of
  <2>4. \A k \in Keys : Alone(k)'
    BY <2>1, <2>3 DEF AloneInv, Alone
  <2> QED BY <2>2, <2>4 DEF AloneInv
<1>10. ASSUME NEW k \in Keys, Cancel(k) PROVE AloneInv'
  <2>1. /\ ppc[k] = "cancel" /\ ppc'[k] \in {"delete", "out"}
        /\ entry[k] \in Calls /\ spent' = spent \union {entry[k]}
        /\ \A l \in Keys \ {k} : ppc'[l] = ppc[l]
        /\ UNCHANGED <<spc, skey, alive, entry, holds, usable>>
    BY <1>10, <1>t DEF Cancel, Step, Return, TypeInv
  <2>2. ended' = ended \/ ended' = ended \union {i \in {holds[entry[k]]} \ {None} : spc[i] = "handle"}
    BY <1>10 DEF Cancel
  <2>3. Unended(k) \subseteq Consumers(k)
    BY <2>1 DEF AloneInv, Alone
  <2>4. ASSUME NEW i \in Unended(k) PROVE i \in ended' /\ holds[entry[k]] = i /\ i \in alive
    <3>1. i \in Calls /\ skey[i] = k /\ i \notin ended /\ spc[i] = "handle" /\ i \in alive
      BY <2>3 DEF Unended, Of, Consumers
    <3>2. holds[entry[k]] = i /\ entry[k] \in usable \ spent
      BY <3>1 DEF AloneInv, Attached
    <3> QED BY <1>10, <3>1, <3>2, AmqpNoneAssumption DEF Cancel
  <2>5. ASSUME NEW i \in ended', i \notin ended PROVE i \in Calls /\ i \in alive /\ spc[i] = "handle"
    <3>1. i = holds[entry[k]] /\ i # None /\ spc[i] = "handle" /\ entry[k] \in usable \ spent
      BY <1>10, <2>2, <2>5 DEF Cancel
    <3> QED BY <2>1, <3>1, <1>t DEF UsableInv
  <2>6. GoInv' /\ EntryInv'
    BY <2>1, <2>2, <2>5, <1>g DEF AloneInv, GoInv, EntryInv
  <2>7. ASSUME NEW j \in Calls PROVE Attached(j)'
    <3> SUFFICES ASSUME j \notin ended', spc[j] \in {"consume", "handle"}
                 PROVE  /\ holds[entry[skey[j]]] = j
                        /\ j \in alive => entry[skey[j]] \in usable \ spent'
      BY <2>1 DEF Attached
    <3>1. j \notin ended /\ skey[j] \in Keys /\ entry[skey[j]] \in Calls
      BY <2>2, <1>t
    <3>2. skey[j] # k
      BY <2>4, <3>1 DEF Unended, Of
    <3>3. entry[skey[j]] # entry[k]
      BY <3>1, <3>2, AmqpNoneAssumption DEF AloneInv, EntryInv
    <3> QED BY <2>1, <3>1, <3>3 DEF AloneInv, Attached
  <2>8. ASSUME NEW l \in Keys PROVE Alone(l)'
    <3>1. Unended(l)' = Unended(l) \ ended' /\ Consumers(l)' = Consumers(l) \ ended'
      BY <2>1, <2>2 DEF Unended, Consumers, Of
    <3>2. CASE l = k
      <4>1. Unended(k)' = {}
        BY <2>4, <3>1, <3>2
      <4> QED BY <2>1, <3>2, <4>1 DEF Alone
    <3>3. CASE l # k
      BY <2>1, <3>1, <3>3 DEF AloneInv, Alone
    <3> QED BY <3>2, <3>3
  <2> QED BY <2>6, <2>7, <2>8 DEF AloneInv
<1>11. ASSUME NEW k \in Keys, Delete(k) PROVE AloneInv'
  <2>1. /\ ppc[k] = "delete" /\ ppc'[k] = "out" /\ \A l \in Keys \ {k} : ppc'[l] = ppc[l]
        /\ UNCHANGED <<spc, skey, alive, ended, entry, holds, usable, spent>>
    BY <1>11, <1>t DEF Delete, Step, Return, goVars, entryVars
  <2>2. GoInv' /\ EntryInv' /\ \A j \in Calls : Attached(j)'
    BY <2>1 DEF AloneInv, GoInv, EntryInv, Attached
  <2>3. \A l \in Keys : Unended(l)' = Unended(l) /\ Consumers(l)' = Consumers(l)
    BY <2>1 DEF Unended, Consumers, Of
  <2>4. \A l \in Keys : Alone(l)'
    BY <2>1, <2>3 DEF AloneInv, Alone
  <2> QED BY <2>2, <2>4 DEF AloneInv
<1>12. CASE Lose
  <2>1. /\ ended = {} /\ \A k \in Keys : ppc[k] \in {"out", "calls", "in"}
        /\ alive' = {} /\ usable' = {}
        /\ UNCHANGED <<ppc, spc, skey, ended, entry, spent, holds>>
    BY <1>12 DEF Lose
  <2>2. GoInv' /\ EntryInv' /\ \A j \in Calls : Attached(j)'
    BY <2>1 DEF AloneInv, GoInv, EntryInv, Attached
  <2>3. \A k \in Keys : Unended(k)' = Unended(k)
    BY <2>1 DEF Unended, Of
  <2>4. \A k \in Keys : Alone(k)'
    BY <2>1, <2>3 DEF AloneInv, Alone
  <2> QED BY <2>2, <2>4 DEF AloneInv
<1>13. ASSUME UNCHANGED <<ppc, goVars, entryVars>> PROVE AloneInv'
  <2>1. UNCHANGED <<ppc, spc, skey, alive, ended, entry, holds, usable, spent>>
    BY <1>13 DEF goVars, entryVars
  <2> QED BY <2>1 DEF AloneInv, GoInv, EntryInv, Attached, Alone, Unended, Consumers, Of
<1>14. CASE ((ConnectionStep \/ Publish \/ PublisherStep) /\ UNCHANGED subscriptionVars) \/ UNCHANGED vars
  BY <1>13, <1>14 DEF vars, subscriptionVars
<1> QED
  BY <1>1, <1>2, <1>3, <1>4, <1>5, <1>6, <1>7, <1>8, <1>9, <1>10, <1>11, <1>12, <1>14
     DEF Next, GoroutineStep, UnsubscribeStep

\* The faults of a behaviour stay what they are.
LEMMA FaultsStay == [Next]_vars => faults' = faults
<1>1. (ConnectionStep \/ Publish \/ PublisherStep) => faults' = faults
  BY DEF ConnectionStep, Connect, StopConnecting, Publish, PublisherStep, GetChannel,
     StopPublishing, Listen, Take, ChannelClosed
<1> QED
  BY <1>1 DEF Next, vars, Subscribe, SubscribeFails, Unsubscribe, UnsubscribeStep, ReadLock, Wait,
     Cancel, Delete, GoroutineStep, AskLock, Insert, Dial, GiveUp, Enter, Consume, Closed, Drained,
     Lose, Drop

\* For any number of keys and calls: a queue has one consumer, unless calls
\* overlap or the connection is lost during a cancel, through losses of the
\* connection, lost set-ups and failed subscribe calls (amqp.go:342-459).
THEOREM OneAtMost == Spec => []OneConsumer
<1> DEFINE Quiet == faults \intersect {"rush", "cut"} = {}
<1>1. Init => UsableInv /\ AloneInv
  <2> SUFFICES ASSUME Init PROVE UsableInv /\ AloneInv
    OBVIOUS
  <2>1. UsableInv /\ GoInv /\ EntryInv /\ \A i \in Calls : Attached(i)
    BY DEF Init, UsableInv, GoInv, EntryInv, Attached
  <2>2. \A k \in Keys : Alone(k)
    BY AmqpNoneAssumption DEF Init, Alone, Unended, Of
  <2> QED BY <2>1, <2>2 DEF AloneInv
<1>2. TypeInv /\ UsableInv /\ (Quiet => AloneInv) /\ [Next]_vars => (Quiet => AloneInv)'
  BY FaultsStay, AloneStep
<1>3. TypeInv /\ UsableInv /\ [Next]_vars => UsableInv'
  BY UsableStep
<1>4. TypeInv /\ (Quiet => AloneInv) => OneConsumer
  <2> SUFFICES ASSUME AloneInv, NEW k \in Keys PROVE Cardinality(Consumers(k)) <= 1
    BY DEF OneConsumer
  <2>1. \A i, j \in Consumers(k) : i = j
    BY DEF AloneInv, Alone, Consumers, Unended
  <2>2. CASE Consumers(k) = {}
    BY <2>2, FS_EmptySet
  <2>3. CASE Consumers(k) # {}
    <3>1. PICK i \in Consumers(k) : TRUE
      BY <2>3
    <3>2. Consumers(k) = {i}
      BY <2>1
    <3> QED BY <3>2, FS_Singleton
  <2> QED BY <2>2, <2>3
<1>5. Init => TypeInv
  BY InitType
<1> QED BY <1>1, <1>2, <1>3, <1>4, <1>5, TypeStep, PTL DEF Spec
=============================================================================
