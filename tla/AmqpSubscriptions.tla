-------------------------- MODULE AmqpSubscriptions --------------------------
(***************************************************************************)
(* The subscriptions of the AMQP backend (backend/amqp/amqp.go): every     *)
(* subscribe call starts a goroutine that consumes a queue and comes back  *)
(* after its channel was closed; unsubscribe cancels the consumer and      *)
(* deletes the queue. They share the map of subscriptions, which is under  *)
(* an RWMutex that unsubscribe keeps for reading until it returns.         *)
(*                                                                         *)
(* They live on the connection of AmqpConnection; the broker keeps the     *)
(* queues when it is lost.                                                 *)
(***************************************************************************)
EXTENDS AmqpConnection, FiniteSets

CONSTANTS
  Keys,      \* routing keys, each with its queue
  Calls,     \* slots for subscribe calls: the goroutine and the entry one makes
  None

ASSUME AmqpNoneAssumption == None \notin Calls \union Keys

VARIABLES
  queues,       \* the keys whose queue is declared
  writer, readers, \* subscriptionLock: the call that asked to write, the keys
                \* whose unsubscribe reads
  ppc,          \* per key, its user: where between subscribe and unsubscribe it is
  spc, skey,    \* per call: where its goroutine is, and its key
  alive,        \* goroutines whose channel is open
  ended,        \* goroutines whose consumer was cancelled
  entry,        \* c.subscriptions: per key, the call whose entry it is
  set, spent,   \* entries whose WaitGroup is done, whose cancelOnce is used up
  holds, usable,\* per entry, the goroutine whose channel it has; whether it is open
  gone          \* history: keys whose last unsubscribe succeeded

lockVars == <<writer, readers>>
goVars == <<spc, skey, alive, ended>>
entryVars == <<entry, set, spent, holds, usable>>
subscriptionVars == <<queues, lockVars, ppc, goVars, entryVars, gone>>
vars == <<connectionVars, subscriptionVars, faults>>

Init ==
  /\ ConnectionInit
  /\ queues = {}
  /\ writer = None /\ readers = {}
  /\ ppc = [k \in Keys |-> "out"]
  /\ spc = [i \in Calls |-> "none"] /\ skey = [i \in Calls |-> None]
  /\ alive = {} /\ ended = {}
  /\ entry = [k \in Keys |-> None]
  /\ set = {} /\ spent = {}
  /\ holds = [i \in Calls |-> None] /\ usable = {}
  /\ gone = {}

Free == {i \in Calls : spc[i] = "none" /\ \A k \in Keys : entry[k] # i}
Of(k) == {i \in Calls : skey[i] = k}
Consumers(k) == {i \in Of(k) \ ended : spc[i] = "handle" /\ i \in alive}
Steady(k) == Of(k) \subseteq Consumers(k) \union ended

Goto(i, pc) == spc' = [spc EXCEPT ![i] = pc]

\* The goroutine returns; its channel stays as it is.
Over(i) ==
  /\ Goto(i, "none")
  /\ skey' = [skey EXCEPT ![i] = None]
  /\ alive' = alive \ {i} /\ ended' = ended \ {i}
  /\ holds' = [o \in Calls |-> IF holds[o] = i THEN None ELSE holds[o]]

-----------------------------------------------------------------------------
(* subscribe *)

\* The queue is declared and bound.
Subscribe(i, k) ==
  /\ "subscribe" \in faults
  /\ ppc[k] = "out"
  /\ online
  /\ i \in Free
  /\ queues' = queues \union {k}
  /\ ppc' = [ppc EXCEPT ![k] = "calls"]
  /\ Goto(i, "lock")
  /\ skey' = [skey EXCEPT ![i] = k]
  /\ gone' = gone \ {k}
  /\ UNCHANGED <<connectionVars, lockVars, alive, ended, entryVars, faults>>

\* Without a connection the call fails, which its user only logs.
SubscribeFails(k) ==
  /\ "down" \in faults
  /\ ppc[k] = "out"
  /\ ~online
  /\ ppc' = [ppc EXCEPT ![k] = "in"]
  /\ UNCHANGED <<connectionVars, queues, lockVars, goVars, entryVars, gone, faults>>

AskLock(i) ==
  /\ spc[i] = "lock"
  /\ writer = None
  /\ writer' = i
  /\ UNCHANGED <<connectionVars, queues, readers, ppc, goVars, entryVars, gone, faults>>

\* A new entry takes the place of the one before; the goroutine is started and
\* the call returns.
Insert(i) ==
  /\ writer = i
  /\ readers = {}
  /\ entry' = [entry EXCEPT ![skey[i]] = i]
  /\ set' = set \ {i} /\ spent' = spent \ {i} /\ usable' = usable \ {i}
  /\ holds' = [holds EXCEPT ![i] = None]
  /\ writer' = None
  /\ ppc' = [ppc EXCEPT ![skey[i]] = "in"]
  /\ Goto(i, "dial")
  /\ UNCHANGED <<connectionVars, queues, readers, skey, alive, ended, gone, faults>>

-----------------------------------------------------------------------------
(* The goroutine of a subscribe call *)

\* c.channel(), tried again for a while.
Dial(i) ==
  /\ spc[i] = "dial"
  /\ online
  /\ alive' = alive \union {i}
  /\ Goto(i, "entry")
  /\ UNCHANGED <<connectionVars, queues, lockVars, ppc, skey, ended, entryVars, gone, faults>>

GiveUp(i) ==
  /\ spc[i] = "dial"
  /\ Hopeless
  /\ Over(i)
  /\ UNCHANGED <<connectionVars, queues, lockVars, ppc, entry, set, spent, usable, gone, faults>>

\* Mutant: the WaitGroup is not done.
EnterSilently(i) ==
  /\ spc[i] = "entry"
  /\ writer = None
  /\ LET o == entry[skey[i]] IN
       /\ holds' = [holds EXCEPT ![o] = i]
       /\ usable' = IF i \in alive THEN usable \union {o} ELSE usable \ {o}
       /\ spent' = spent \ {o}
  /\ Goto(i, "consume")
  /\ UNCHANGED <<connectionVars, queues, lockVars, ppc, skey, alive, ended, entry, set, gone, faults>>

\* The channel goes into the entry that the key has now, with a new cancelOnce.
Enter(i) ==
  /\ spc[i] = "entry"
  /\ writer = None
  /\ LET o == entry[skey[i]] IN
       /\ holds' = [holds EXCEPT ![o] = i]
       /\ usable' = IF i \in alive THEN usable \union {o} ELSE usable \ {o}
       /\ spent' = spent \ {o}
       /\ set' = set \union {o}
  /\ Goto(i, "consume")
  /\ UNCHANGED <<connectionVars, queues, lockVars, ppc, skey, alive, ended, entry, gone, faults>>

\* Qos and Consume; if one fails the goroutine ends, it does not retry.
Consume(i) ==
  /\ spc[i] = "consume"
  /\ IF i \in alive /\ skey[i] \in queues
       THEN Goto(i, "handle") /\ UNCHANGED <<skey, alive, ended, holds>>
       ELSE Over(i)
  /\ UNCHANGED <<connectionVars, queues, lockVars, ppc, entry, set, spent, usable, gone, faults>>

\* Mutant: the goroutine ends when its channel is closed.
ClosedEnds(i) ==
  /\ spc[i] = "handle"
  /\ i \notin alive
  /\ Over(i)
  /\ UNCHANGED <<connectionVars, queues, lockVars, ppc, entry, set, spent, usable, gone, faults>>

\* The channel was closed with an error: back to c.channel().
Closed(i) ==
  /\ spc[i] = "handle"
  /\ i \notin alive
  /\ Goto(i, "dial")
  /\ ended' = ended \ {i}
  /\ UNCHANGED <<connectionVars, queues, lockVars, ppc, skey, alive, entryVars, gone, faults>>

\* The deliveries end because the consumer was cancelled.
Drained(i) ==
  /\ spc[i] = "handle"
  /\ i \in ended
  /\ Over(i)
  /\ UNCHANGED <<connectionVars, queues, lockVars, ppc, entry, set, spent, usable, gone, faults>>

-----------------------------------------------------------------------------
(* unsubscribe *)

Step(k, pc) == ppc' = [ppc EXCEPT ![k] = pc]
Return(k) == Step(k, "out") /\ readers' = readers \ {k}

Unsubscribe(k) ==
  /\ ppc[k] = "in"
  /\ "rush" \in faults \/ Steady(k)
  /\ Step(k, "lock")
  /\ UNCHANGED <<connectionVars, queues, lockVars, goVars, entryVars, gone, faults>>

\* RLock, which a writer that waits keeps out.
ReadLock(k) ==
  /\ ppc[k] = "lock"
  /\ writer = None
  /\ readers' = readers \union {k}
  /\ Step(k, "wait")
  /\ UNCHANGED <<connectionVars, queues, writer, goVars, entryVars, gone, faults>>

\* The entry's WaitGroup; without an entry the call panics.
Wait(k) ==
  /\ ppc[k] = "wait"
  /\ entry[k] \in set
  /\ Step(k, "cancel")
  /\ UNCHANGED <<connectionVars, queues, lockVars, goVars, entryVars, gone, faults>>

\* Mutant: the consumer is left alone.
CancelNothing(k) ==
  /\ ppc[k] = "cancel"
  /\ spent' = spent \union {entry[k]}
  /\ Step(k, "delete")
  /\ UNCHANGED <<connectionVars, queues, lockVars, goVars, entry, set, holds, usable, gone, faults>>

\* cancelOnce: the consumer on the entry's channel, if there is one, is
\* cancelled; on a closed channel that is an error.
Cancel(k) ==
  /\ ppc[k] = "cancel"
  /\ spent' = spent \union {entry[k]}
  /\ IF entry[k] \in usable \union spent
       THEN /\ ended' = IF entry[k] \in spent THEN ended
                        ELSE ended \union {i \in {holds[entry[k]]} \ {None} : spc[i] = "handle"}
            /\ Step(k, "delete")
            /\ UNCHANGED readers
       ELSE Return(k) /\ UNCHANGED ended
  /\ UNCHANGED <<connectionVars, queues, writer, spc, skey, alive, entry, set, holds, usable, gone, faults>>

\* Mutant: the queue is not deleted, and the call returns no error.
DeleteNothing(k) ==
  /\ ppc[k] = "delete"
  /\ gone' = gone \union {k}
  /\ Return(k)
  /\ UNCHANGED <<connectionVars, queues, writer, goVars, entryVars, faults>>

\* QueueDelete with ifUnused: an error if somebody consumes.
Delete(k) ==
  /\ ppc[k] = "delete"
  /\ IF online /\ Consumers(k) = {}
       THEN queues' = queues \ {k} /\ gone' = gone \union {k}
       ELSE UNCHANGED <<queues, gone>>
  /\ Return(k)
  /\ UNCHANGED <<connectionVars, writer, goVars, entryVars, faults>>

-----------------------------------------------------------------------------
(* The connection *)

Lose ==
  /\ Drop
  /\ "early" \in faults \/ \A i \in Calls : spc[i] \notin {"entry", "consume"}
  /\ "cut" \in faults \/ (ended = {} /\ \A k \in Keys : ppc[k] \in {"out", "calls", "in"})
  /\ alive' = {} /\ usable' = {}
  /\ UNCHANGED <<queues, lockVars, ppc, spc, skey, ended, entry, set, spent, holds, gone>>

-----------------------------------------------------------------------------
GoroutineStep(i) ==
  \/ AskLock(i) \/ Insert(i) \/ Dial(i) \/ GiveUp(i) \/ Enter(i) \/ Consume(i)
  \/ Closed(i) \/ Drained(i)

UnsubscribeStep(k) == ReadLock(k) \/ Wait(k) \/ Cancel(k) \/ Delete(k)

Next ==
  \/ \E i \in Calls, k \in Keys : Subscribe(i, k)
  \/ \E k \in Keys : SubscribeFails(k) \/ Unsubscribe(k) \/ UnsubscribeStep(k)
  \/ \E i \in Calls : GoroutineStep(i)
  \/ Lose
  \/ (ConnectionStep \/ Publish \/ PublisherStep) /\ UNCHANGED subscriptionVars

Spec == Init /\ [][Next]_vars

\* Goroutines run, the lock starves nobody, the broker can be reached again and
\* again for as long as it takes to open a channel, a select takes a case that
\* is ready again and again.
Fairness ==
  /\ \A i \in Calls : SF_vars(GoroutineStep(i))
  /\ \A k \in Keys : SF_vars(UnsubscribeStep(k))
  /\ WF_vars(ConnectionStep /\ UNCHANGED subscriptionVars)
  /\ SF_vars(PublisherStep /\ UNCHANGED subscriptionVars)
  /\ SF_vars(Take /\ UNCHANGED subscriptionVars)

FairSpec == Spec /\ Fairness

-----------------------------------------------------------------------------
(* Properties *)

TypeOK ==
  /\ ConnectionTypeOK
  /\ queues \subseteq Keys
  /\ writer \in Calls \union {None} /\ readers \subseteq Keys
  /\ ppc \in [Keys -> {"out", "calls", "in", "lock", "wait", "cancel", "delete"}]
  /\ spc \in [Calls -> {"none", "lock", "dial", "entry", "consume", "handle"}]
  /\ skey \in [Calls -> Keys \union {None}]
  /\ alive \subseteq Calls /\ ended \subseteq Calls
  /\ entry \in [Keys -> Calls \union {None}]
  /\ set \subseteq Calls /\ spent \subseteq Calls /\ usable \subseteq Calls
  /\ holds \in [Calls -> Calls \union {None}]
  /\ gone \subseteq Keys

\* Nobody consumes a key whose unsubscribe returned without an error, whatever
\* happens to the connection and however the calls overlap: the order of cancel
\* and QueueDelete with ifUnused sees to it (amqp.go:436-459).
GoneIsGone == \A k \in gone : Consumers(k) = {}

\* A queue has one consumer, so every message reaches the user that subscribed
\* last, unless a key is unsubscribed before its consumer is there or while the
\* connection is away ("rush"), or the connection is lost during a cancel: the
\* consumer then comes back by itself and shares the queue with the next one
\* (amqp.go:375-383, 421-424).
OneConsumer ==
  faults \intersect {"rush", "cut"} = {} => \A k \in Keys : Cardinality(Consumers(k)) <= 1

\* unsubscribe returns, unless the consumer's set-up was not done: it then holds
\* the lock for reading while it waits for a goroutine that a waiting subscribe
\* keeps from reading (amqp.go:348, 375, 437-439), or that gave up (371-373).
\* After a subscribe that failed it finds no entry and panics (336-339, 439).
UnsubscribeReturns ==
  \A k \in Keys :
    faults \intersect {"rush", "giveup", "blind", "down"} = {} /\ ppc[k] \in {"lock", "wait", "cancel", "delete"}
      ~> ppc[k] = "out"

\* A subscribed key comes to be consumed, or is unsubscribed: "automatically
\* reconnects when the connection is lost" (amqp.go:206). Not so when the
\* connection is lost during the set-up, which ends the goroutine (391-400), or
\* when it is away for too long.
ComesToConsume ==
  \A k \in Keys : faults \subseteq {"cut", "subscribe", "publish"} /\ ppc[k] = "in" ~> ppc[k] # "in" \/ Consumers(k) # {}
=============================================================================
