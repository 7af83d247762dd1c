---------------------------- MODULE UdpServerProofs ----------------------------
(***************************************************************************)
(* SourceLocks implements SourceLease, for every set of gateways and       *)
(* addresses, with and without the port, and for every cache time; so does *)
(* the lock of the server, whose downlink follows the lease. A packet is   *)
(* reported with the signal of the antenna that heard it best.             *)
(***************************************************************************)
EXTENDS UdpServer, SequenceTheorems, WellFoundedInduction, TLAPS

\* Every step of sourceLocks keeps the map well formed: an entry has an
\* address and an age, and the clock tells ages apart up to cacheTime + 1.
LEMMA TypeStep == TypeOK /\ [Next]_vars => TypeOK'
<1> SUFFICES ASSUME TypeOK, [Next]_vars PROVE TypeOK'
  OBVIOUS
<1> USE CacheTimeAssumption DEF TypeOK, Entries, Ages, Replies
<1>1. ASSUME NEW m \in Macs, NEW a \in Addrs, Accept(m, a) PROVE TypeOK'
  <2>1. [addr |-> a, age |-> 0] \in Entries
    OBVIOUS
  <2>2. [mac |-> m, addr |-> a, ok |-> TRUE] \in Replies
    OBVIOUS
  <2> QED
    BY <1>1, <2>1, <2>2 DEF Accept, Answer
<1>2. ASSUME NEW m \in Macs, NEW a \in Addrs, Refuse(m, a) PROVE TypeOK'
  BY <1>2 DEF Refuse, Answer
<1>3. CASE Tick
  <2>1. ASSUME NEW e \in Entries \union {NoEntry} PROVE Older(e) \in Entries \union {NoEntry}
    <3>1. CASE e = NoEntry \/ e.age > cacheTime
      BY <3>1 DEF Older
    <3>2. CASE ~(e = NoEntry \/ e.age > cacheTime)
      <4>1. e.age + 1 \in 0 .. cacheTime + 1
        BY <3>2
      <4> QED
        BY <3>2, <4>1 DEF Older
    <3> QED
      BY <3>1, <3>2
  <2> HIDE DEF Entries
  <2>2. sources' \in [Macs -> Entries \union {NoEntry}]
    BY <1>3, <2>1 DEF Tick
  <2> QED
    BY <1>3, <2>2 DEF Tick
<1>4. CASE Cleanup
  BY <1>4 DEF Cleanup
<1>5. CASE UNCHANGED vars
  BY <1>5 DEF vars
<1> QED
  BY <1>1, <1>2, <1>3, <1>4, <1>5 DEF Next

\* What newSourceLocks and its operations keep in the map is well formed.
THEOREM TypeCorrect == Spec => []TypeOK
<1>1. Init => TypeOK
  BY DEF Init, TypeOK
<1> QED
  BY <1>1, TypeStep, PTL DEF Spec

\* The comparison that Set makes is equality of keys: port and IP address with
\* withPort, the IP address without.
LEMMA ConsistentIsSameKey ==
  ASSUME NEW e \in Entries, NEW a \in Addrs
  PROVE  Consistent(e, a) <=> Key(e.addr) = Key(a)
<1>1. e.addr \in Addrs
  BY DEF Entries
<1>2. CASE withPort
  BY <1>1, <1>2 DEF Consistent, Key, Addrs
<1>3. CASE ~withPort
  BY <1>3 DEF Consistent, Key
<1> QED
  BY <1>2, <1>3

\* The lease of a gateway changes only with its entry.
LEMMA LeasePointwise ==
  ASSUME TypeOK, NEW m \in Macs, NEW e \in Entries \union {NoEntry},
         sources' = [sources EXCEPT ![m] = e]
  PROVE  /\ [n \in Macs |-> OwnerOf(sources'[n])]
              = [[n \in Macs |-> OwnerOf(sources[n])] EXCEPT ![m] = OwnerOf(e)]
         /\ [n \in Macs |-> LeftOf(sources'[n])]
              = [[n \in Macs |-> LeftOf(sources[n])] EXCEPT ![m] = LeftOf(e)]
<1>1. sources'[m] = e /\ \A n \in Macs \ {m} : sources'[n] = sources[n]
  BY DEF TypeOK
<1>2. /\ \A n \in Macs : OwnerOf(sources'[n]) = IF n = m THEN OwnerOf(e) ELSE OwnerOf(sources[n])
      /\ \A n \in Macs : LeftOf(sources'[n]) = IF n = m THEN LeftOf(e) ELSE LeftOf(sources[n])
  BY <1>1
<1> QED
  BY <1>2

\* Whether Set accepts an address is whether the lease does.
LEMMA SameVerdict ==
  ASSUME TypeOK, NEW m \in Macs, NEW a \in Addrs
  PROVE  Passes(m, a) <=> OwnerOf(sources[m]) \in {Key(a), Nobody}
<1>1. CASE Holds(sources[m])
  <2>1. sources[m] \in Entries
    BY <1>1 DEF Holds, TypeOK
  <2>2. sources[m].addr \in Addrs
    BY <2>1 DEF Entries
  <2>3. Key(sources[m].addr) # Nobody
    BY <2>2, LocksNullAssumption DEF Keys
  <2> QED
    BY <1>1, <2>1, <2>3, ConsistentIsSameKey DEF Holds, OwnerOf, Passes, Admits
<1>2. CASE ~Holds(sources[m])
  BY <1>2 DEF Holds, OwnerOf, Passes, Admits
<1> QED
  BY <1>1, <1>2

\* What a call of Set leaves behind is a reply of the lease.
LEMMA SameReply ==
  ASSUME NEW m \in Macs, NEW a \in Addrs, NEW ok \in BOOLEAN, Answer(m, a, ok)
  PROVE  ReplyOf(reply') = [mac |-> m, source |-> Key(a), ok |-> ok]
<1>1. reply' = [mac |-> m, addr |-> a, ok |-> ok]
  BY DEF Answer
<1>2. reply' # NoReply
  BY <1>1, LocksNullAssumption DEF Replies
<1> QED
  BY <1>1, <1>2 DEF ReplyOf

\* An address that Set accepts begins a lease of its key.
LEMMA AcceptStep ==
  ASSUME TypeOK, NEW m \in Macs, NEW a \in Addrs, Accept(m, a)
  PROVE  Lease!Accept(m, Key(a))
<1> DEFINE e == [addr |-> a, age |-> 0]
<1>1. e \in Entries /\ Holds(e)
  BY CacheTimeAssumption, LocksNullAssumption DEF Entries, Ages, Holds
<1>2. OwnerOf(e) = Key(a) /\ LeftOf(e) = cacheTime
  BY <1>1, CacheTimeAssumption DEF OwnerOf, LeftOf
<1>3. sources' = [sources EXCEPT ![m] = e]
  BY DEF Accept
<1>4. /\ [n \in Macs |-> OwnerOf(sources'[n])]
           = [[n \in Macs |-> OwnerOf(sources[n])] EXCEPT ![m] = Key(a)]
      /\ [n \in Macs |-> LeftOf(sources'[n])]
           = [[n \in Macs |-> LeftOf(sources[n])] EXCEPT ![m] = cacheTime]
  <2> HIDE DEF e
  <2> QED
    BY <1>1, <1>2, <1>3, LeasePointwise
<1>5. OwnerOf(sources[m]) \in {Key(a), Nobody}
  BY SameVerdict DEF Accept
<1>6. ReplyOf(reply') = [mac |-> m, source |-> Key(a), ok |-> TRUE]
  BY SameReply DEF Accept
<1> QED
  BY <1>4, <1>5, <1>6 DEF Lease!Accept

\* An address that Set refuses is another's than the holder's.
LEMMA RefuseStep ==
  ASSUME TypeOK, NEW m \in Macs, NEW a \in Addrs, Refuse(m, a)
  PROVE  Lease!Refuse(m, Key(a))
<1>1. OwnerOf(sources[m]) \notin {Key(a), Nobody}
  BY SameVerdict DEF Refuse
<1>2. ReplyOf(reply') = [mac |-> m, source |-> Key(a), ok |-> FALSE]
  BY SameReply DEF Refuse
<1> QED
  BY <1>1, <1>2 DEF Lease!Refuse, Refuse

\* A tick of the clock takes one from what is left of a lease.
LEMMA OlderLease ==
  ASSUME NEW e \in Entries \union {NoEntry}
  PROVE  /\ LeftOf(Older(e)) = IF LeftOf(e) = 0 THEN 0 ELSE LeftOf(e) - 1
         /\ OwnerOf(Older(e)) = IF LeftOf(e) \in {0, 1} THEN Nobody ELSE OwnerOf(e)
<1> USE CacheTimeAssumption, LocksNullAssumption
<1>1. CASE e = NoEntry
  BY <1>1 DEF LeftOf, OwnerOf, Holds, Older
<1>2. CASE e \in Entries
  <2>1. e.age \in 0 .. cacheTime + 1 /\ e # NoEntry
    BY <1>2 DEF Entries, Ages
  <2>2. CASE e.age > cacheTime
    BY <2>1, <2>2 DEF LeftOf, OwnerOf, Holds, Older
  <2>3. CASE e.age <= cacheTime
    <3> DEFINE f == [e EXCEPT !.age = @ + 1]
    <3>1. f.age = e.age + 1 /\ f.addr = e.addr /\ f \in Entries
      BY <1>2, <2>1, <2>3 DEF Entries, Ages
    <3>2. f # NoEntry /\ Older(e) = f
      BY <3>1, <2>1, <2>3 DEF Older
    <3> QED
      BY <3>1, <3>2, <2>1, <2>3 DEF LeftOf, OwnerOf, Holds
  <2> QED
    BY <2>1, <2>2, <2>3
<1> QED
  BY <1>1, <1>2

\* A second passes for every entry as it does for every lease.
LEMMA TickStep == TypeOK /\ Tick => Lease!Tick
<1> SUFFICES ASSUME TypeOK, Tick PROVE Lease!Tick
  OBVIOUS
<1>1. \A n \in Macs : sources'[n] = Older(sources[n])
  BY DEF Tick
<1>2. \A n \in Macs : sources[n] \in Entries \union {NoEntry}
  BY DEF TypeOK
<1>3. \A n \in Macs : /\ LeftOf(sources'[n]) =
                           IF LeftOf(sources[n]) = 0 THEN 0 ELSE LeftOf(sources[n]) - 1
                      /\ OwnerOf(sources'[n]) =
                           IF LeftOf(sources[n]) \in {0, 1} THEN Nobody ELSE OwnerOf(sources[n])
  BY <1>1, <1>2, OlderLease
<1> QED
  BY <1>3 DEF Lease!Tick, Tick

\* The cleanup goroutine only deletes entries that hold no lease.
LEMMA CleanupStep == TypeOK /\ Cleanup => UNCHANGED Lease!vars
<1> SUFFICES ASSUME TypeOK, Cleanup PROVE UNCHANGED Lease!vars
  OBVIOUS
<1>1. \A n \in Macs : /\ LeftOf(sources'[n]) = LeftOf(sources[n])
                      /\ OwnerOf(sources'[n]) = OwnerOf(sources[n])
  <2> SUFFICES ASSUME NEW n \in Macs
               PROVE  /\ LeftOf(sources'[n]) = LeftOf(sources[n])
                      /\ OwnerOf(sources'[n]) = OwnerOf(sources[n])
    OBVIOUS
  <2>1. CASE sources[n] # NoEntry /\ sources[n].age > cacheTime
    <3>1. sources'[n] = NoEntry
      BY <2>1 DEF Cleanup
    <3>2. sources[n].age \in 0 .. cacheTime + 1
      BY <2>1 DEF TypeOK, Entries, Ages, Replies
    <3> QED
      BY <2>1, <3>1, <3>2, CacheTimeAssumption DEF LeftOf, OwnerOf, Holds
  <2>2. CASE ~(sources[n] # NoEntry /\ sources[n].age > cacheTime)
    BY <2>2 DEF Cleanup
  <2> QED
    BY <2>1, <2>2
<1> QED
  BY <1>1 DEF Lease!vars, Cleanup

\* sourceLocks implements SourceLease: a gateway's source is kept for cacheTime
\* after its last accepted packet, no shorter and no longer, whenever the
\* cleanup goroutine runs (security.go:12-61).
THEOREM Implements == Spec => IsLease
<1>1. Init => Lease!Init
  BY DEF Init, Lease!Init, OwnerOf, LeftOf, ReplyOf, Holds
<1>2. TypeOK /\ [Next]_vars => [Lease!Next]_(Lease!vars)
  <2> SUFFICES ASSUME TypeOK, [Next]_vars PROVE [Lease!Next]_(Lease!vars)
    OBVIOUS
  <2>1. ASSUME NEW m \in Macs, NEW a \in Addrs, Accept(m, a) \/ Refuse(m, a)
        PROVE  Lease!Next
    <3>1. Key(a) \in Keys
      BY DEF Keys
    <3> QED
      BY <2>1, <3>1, AcceptStep, RefuseStep DEF Lease!Next
  <2>2. CASE Tick
    BY <2>2, TickStep DEF Lease!Next
  <2>3. CASE Cleanup
    BY <2>3, CleanupStep
  <2>4. CASE UNCHANGED vars
    BY <2>4 DEF vars, Lease!vars
  <2> QED
    BY <2>1, <2>2, <2>3, <2>4 DEF Next
<1> QED
  BY <1>1, <1>2, TypeCorrect, PTL DEF Spec, IsLease, Lease!Spec

-----------------------------------------------------------------------------
(* The server *)

StepNames == {"lock", "set", "ack", "stat", "rxpk", Bad}

Jobs == [mac : Macs, addr : Addrs, type : Types, todo : Seq(StepNames)]

\* What a goroutine still has to do is the rest of its packet's steps: a table
\* entry is set for PULL_DATA only, and right after the lock.
JobShape(j) ==
  /\ j.type = PullData => j.todo \in {<<"lock", "set", "ack">>, <<"set", "ack">>, <<"ack">>}
  /\ j.type = TXACK => j.todo = <<"lock">>
  /\ j.type = PushData => j.todo # <<>> /\ j.todo \in Seq(StepNames \ {"set"})

JobsOK == job \in [Handlers -> Jobs \union {Idle}]
          /\ \A r \in Handlers : job[r] # Idle => JobShape(job[r])

\* The types of the server's variables.
ServerTypeOK ==
  /\ TypeOK
  /\ others \in [Types \ {PullData} -> [Macs -> Entries \union {NoEntry}]]
  /\ table \in [Macs -> Entries \union {NoEntry}]
  /\ JobsOK

\* A goroutine without a packet is at no step, and no packet is Idle.
LEMMA IdleAtNoStep ==
  /\ Idle \notin Jobs
  /\ \A r \in Handlers : \A step : At(r, step) => job[r] # Idle
BY UdpNullAssumption DEF Idle, Jobs, At

\* The messages of a body, which come after the acknowledgement, set nothing.
LEMMA MessagesType ==
  ASSUME NEW p \in Payloads
  PROVE  Messages(p) \in Seq(StepNames \ {"set"})
<1>1. p.rxpk \in Seq({"rxpk", Bad})
  BY DEF Payloads, BoundedSeq, SeqOf
<1>2. {"rxpk", Bad} \subseteq StepNames \ {"set"} /\ "stat" \in StepNames \ {"set"}
  BY PacketsNullAssumption DEF StepNames
<1>3. p.rxpk \in Seq(StepNames \ {"set"})
  BY <1>1, <1>2
<1>4. <<"stat">> \in Seq(StepNames \ {"set"}) /\ <<>> \in Seq(StepNames \ {"set"})
  BY <1>2
<1> HIDE DEF StepNames
<1>5. CASE p.stat
  <2>1. Messages(p) = <<"stat">> \o p.rxpk
    BY <1>5 DEF Messages
  <2> QED BY <2>1, <1>3, <1>4
<1>6. CASE ~p.stat
  <2>1. Messages(p) = <<>> \o p.rxpk
    BY <1>6 DEF Messages
  <2> QED BY <2>1, <1>3, <1>4
<1> QED BY <1>5, <1>6

\* A goroutine is started with the steps of its packet, the lock first.
LEMMA ReadJob ==
  ASSUME NEW d \in Received, NEW a \in Addrs,
         NEW j, j = [mac |-> d.mac, addr |-> a, type |-> d.type, todo |-> Steps(d)]
  PROVE  j \in Jobs /\ JobShape(j) /\ j # Idle /\ Head(j.todo) = "lock"
<1>1. /\ d \in Datagrams(Macs) /\ Handled(d)
      /\ d.type \in 0 .. 6 \union {None} /\ d.mac \in Macs \union {None}
      /\ d.body \in Payloads \union {Bad, None}
  BY DEF Received, Datagrams
<1>2. d.mac \in Macs
  BY <1>1 DEF Handled, UnmarshalPushData, UnmarshalPullData, UnmarshalTXACK
<1>3. d.type \in Types /\ (d.type = PushData => UnmarshalPushData(d))
  BY <1>1, PacketsNullAssumption DEF Handled, GetPacketType, Types, PushData, PullData, TXACK
<1>4. PushData # PullData /\ PushData # TXACK /\ PullData # TXACK
  BY DEF PushData, PullData, TXACK
<1>5. CASE d.type = PushData
  <2>1. d.body \in Payloads
    BY <1>1, <1>3, <1>5 DEF UnmarshalPushData
  <2> DEFINE M == Messages(d.body)
  <2>2. M \in Seq(StepNames \ {"set"})
    BY <2>1, MessagesType
  <2>3. <<"lock", "ack">> \in Seq(StepNames \ {"set"})
    BY DEF StepNames
  <2>4. Steps(d) = <<"lock", "ack">> \o M
    BY <1>4, <1>5 DEF Steps
  <2> HIDE DEF M
  <2>5. /\ Steps(d) \in Seq(StepNames \ {"set"})
        /\ Steps(d) # <<>> /\ Head(Steps(d)) = "lock"
    BY <2>2, <2>3, <2>4
  <2>6. Steps(d) \in Seq(StepNames)
    BY <2>5
  <2>7. j \in Jobs
    BY <1>2, <1>3, <2>6 DEF Jobs
  <2> QED BY <1>4, <1>5, <2>5, <2>7, IdleAtNoStep DEF JobShape
<1>6. CASE d.type = PullData
  <2>1. Steps(d) = <<"lock", "set", "ack">>
    BY <1>4, <1>6 DEF Steps
  <2>2. Steps(d) \in Seq(StepNames) /\ Head(Steps(d)) = "lock"
    BY <2>1 DEF StepNames
  <2>3. j \in Jobs
    BY <1>2, <1>3, <2>2 DEF Jobs
  <2> QED BY <1>4, <1>6, <2>1, <2>2, <2>3, IdleAtNoStep DEF JobShape
<1>7. CASE d.type = TXACK
  <2>1. Steps(d) = <<"lock">>
    BY <1>4, <1>7 DEF Steps
  <2>2. Steps(d) \in Seq(StepNames) /\ Head(Steps(d)) = "lock"
    BY <2>1 DEF StepNames
  <2>3. j \in Jobs
    BY <1>2, <1>3, <2>2 DEF Jobs
  <2> QED BY <1>4, <1>7, <2>1, <2>2, <2>3, IdleAtNoStep DEF JobShape
<1> QED BY <1>3, <1>5, <1>6, <1>7 DEF Types

\* A goroutine that proceeds goes on with the same packet; only the lock of a
\* PULL_DATA leads to its entry in the table.
LEMMA ProceedJob ==
  ASSUME JobsOK, NEW r \in Handlers, NEW step, At(r, step), Proceed(r)
  PROVE  /\ JobsOK'
         /\ \A q \in Handlers \ {r} : job'[q] = job[q]
         /\ job'[r] # Idle => /\ job'[r].mac = job[r].mac /\ job'[r].addr = job[r].addr
                              /\ job'[r].type = job[r].type
         /\ At(r, "set")' => step = "lock" /\ job[r].type = PullData
<1> DEFINE j == job[r]
           k == IF Len(j.todo) = 1 THEN Idle ELSE [j EXCEPT !.todo = Tail(@)]
<1>1. j \in Jobs /\ JobShape(j) /\ j.todo # <<>> /\ j.todo \in Seq(StepNames)
  BY IdleAtNoStep DEF JobsOK, At, Jobs
<1>2. job' = [job EXCEPT ![r] = k]
  <2>1. CASE Len(j.todo) = 1
    BY <2>1 DEF Proceed, GiveUp
  <2>2. CASE Len(j.todo) # 1
    <3>1. job' = [job EXCEPT ![r].todo = Tail(job[r].todo)]
      BY <2>2 DEF Proceed
    <3> QED BY <2>2, <3>1
  <2> QED BY <2>1, <2>2
<1>3. job'[r] = k /\ \A q \in Handlers \ {r} : job'[q] = job[q]
  BY <1>2 DEF JobsOK
<1>4. PushData # PullData /\ PushData # TXACK /\ PullData # TXACK
  BY DEF PushData, PullData, TXACK
<1>5. CASE Len(j.todo) = 1
  <2>1. job'[r] = Idle
    BY <1>3, <1>5
  <2>2. JobsOK'
    BY <1>2, <1>3, <2>1, <1>5 DEF JobsOK
  <2> QED BY <1>3, <2>1, <2>2 DEF At, Idle
<1>6. CASE Len(j.todo) # 1
  <2>1. /\ k.mac = j.mac /\ k.addr = j.addr /\ k.type = j.type /\ k.todo = Tail(j.todo)
        /\ k = [mac |-> j.mac, addr |-> j.addr, type |-> j.type, todo |-> Tail(j.todo)]
    BY <1>1, <1>6 DEF Jobs
  <2>2. Tail(j.todo) \in Seq(StepNames) /\ Tail(j.todo) # <<>>
    <3> DEFINE s == j.todo
    <3>1. s \in Seq(StepNames) /\ s # <<>> /\ Len(s) # 1
      BY <1>1, <1>6
    <3> HIDE DEF s
    <3>2. Len(s) \in Nat \ {0} /\ Tail(s) \in Seq(StepNames) /\ Len(Tail(s)) = Len(s) - 1
      BY <3>1, HeadTailProperties, EmptySeq
    <3>3. Len(Tail(s)) # 0
      BY <3>1, <3>2
    <3>4. Tail(s) # <<>>
      BY <3>3, EmptySeq
    <3> QED BY <3>2, <3>4 DEF s
  <2>3. k \in Jobs
    BY <1>1, <2>1, <2>2 DEF Jobs
  <2>4. CASE j.type = PullData
    <3>1. \/ j.todo = <<"lock", "set", "ack">> /\ Tail(j.todo) = <<"set", "ack">> /\ Head(j.todo) = "lock"
          \/ j.todo = <<"set", "ack">> /\ Tail(j.todo) = <<"ack">>
          \/ j.todo = <<"ack">> /\ Len(j.todo) = 1
      <4> DEFINE s == j.todo
      <4>1. s \in {<<"lock", "set", "ack">>, <<"set", "ack">>, <<"ack">>}
        BY <1>1, <2>4 DEF JobShape
      <4> HIDE DEF s
      <4>2. \/ s = <<"lock", "set", "ack">> /\ Tail(s) = <<"set", "ack">> /\ Head(s) = "lock"
            \/ s = <<"set", "ack">> /\ Tail(s) = <<"ack">>
            \/ s = <<"ack">> /\ Len(s) = 1
        <5>1. CASE s = <<"lock", "set", "ack">>
          BY <5>1
        <5>2. CASE s = <<"set", "ack">>
          BY <5>2
        <5>3. CASE s = <<"ack">>
          BY <5>3
        <5> QED BY <4>1, <5>1, <5>2, <5>3
      <4> QED BY <4>2 DEF s
    <3>2. JobShape(k)
      BY <1>4, <1>6, <2>1, <2>4, <3>1 DEF JobShape
    <3>3. Head(k.todo) = "set" => step = "lock"
      BY <1>6, <2>1, <3>1 DEF At
    <3> QED BY <1>2, <1>3, <2>1, <2>3, <2>4, <3>2, <3>3 DEF JobsOK, At
  <2>5. CASE j.type = TXACK
    <3> DEFINE s == j.todo
    <3>1. s = <<"lock">> /\ Len(s) # 1
      BY <1>1, <1>6, <2>5 DEF JobShape
    <3> HIDE DEF s
    <3> QED BY <3>1
  <2>6. CASE j.type = PushData
    <3>1. j.todo \in Seq(StepNames \ {"set"})
      BY <1>1, <2>6 DEF JobShape
    <3>2. Tail(j.todo) \in Seq(StepNames \ {"set"})
      BY <1>1, <3>1
    <3>3. Head(Tail(j.todo)) # "set"
      BY <2>2, <3>2
    <3>4. JobShape(k)
      BY <1>4, <2>1, <2>2, <2>6, <3>2 DEF JobShape
    <3> QED BY <1>2, <1>3, <2>1, <2>3, <3>3, <3>4 DEF JobsOK, At
  <2> QED BY <1>1, <2>4, <2>5, <2>6 DEF Jobs, Types
<1> QED BY <1>5, <1>6

\* A goroutine that is done, or that an error ends, leaves no packet behind.
LEMMA GiveUpJob ==
  ASSUME JobsOK, NEW r \in Handlers, GiveUp(r)
  PROVE  /\ JobsOK'
         /\ \A q \in Handlers \ {r} : job'[q] = job[q]
         /\ job'[r] = Idle
         /\ ~At(r, "set")'
<1>1. job' = [job EXCEPT ![r] = Idle]
  BY DEF GiveUp
<1>2. job'[r] = Idle /\ \A q \in Handlers \ {r} : job'[q] = job[q]
  BY <1>1 DEF JobsOK
<1>3. JobsOK'
  BY <1>1, <1>2 DEF JobsOK
<1> QED BY <1>2, <1>3 DEF At, Idle

\* A goroutine is started with nothing on its way to the table.
LEMMA ReadStart ==
  ASSUME JobsOK, NEW r \in Handlers, NEW a \in Addrs, NEW d \in Received, Read(r, a, d)
  PROVE  /\ JobsOK'
         /\ \A q \in Handlers \ {r} : job'[q] = job[q]
         /\ job'[r].mac = d.mac /\ job'[r].addr = a /\ job'[r].type = d.type
         /\ ~At(r, "set")'
<1> DEFINE j == [mac |-> d.mac, addr |-> a, type |-> d.type, todo |-> Steps(d)]
<1>1. j \in Jobs /\ JobShape(j) /\ j # Idle /\ Head(j.todo) = "lock"
  BY ReadJob
<1>2. job' = [job EXCEPT ![r] = j]
  BY DEF Read
<1>3. job'[r] = j /\ \A q \in Handlers \ {r} : job'[q] = job[q]
  BY <1>2 DEF JobsOK
<1>4. j.mac = d.mac /\ j.addr = a /\ j.type = d.type
  OBVIOUS
<1> HIDE DEF j
<1>5. JobsOK'
  BY <1>1, <1>2, <1>3 DEF JobsOK
<1> QED BY <1>1, <1>3, <1>4, <1>5 DEF At

\* What a goroutine does leaves the others alone; it keeps its packet or is
\* done with it, and comes to the table from the lock of a PULL_DATA only.
LEMMA HandlerStep ==
  ASSUME JobsOK, NEW r \in Handlers, Handle(r) \/ PassOn(r)
  PROVE  /\ JobsOK'
         /\ \A q \in Handlers \ {r} : job'[q] = job[q]
         /\ job[r] # Idle
         /\ job'[r] # Idle => /\ job'[r].mac = job[r].mac /\ job'[r].addr = job[r].addr
                              /\ job'[r].type = job[r].type
         /\ At(r, "set")' => /\ At(r, "lock") /\ job[r].type = PullData
                             /\ Accept(job[r].mac, job[r].addr)
<1>1. \E step \in StepNames : At(r, step) /\ (Proceed(r) \/ GiveUp(r))
  BY DEF Handle, PassOn, LockPull, LockOther, Set, Acknowledge, Convert, StepNames
<1>2. job[r] # Idle
  BY <1>1, IdleAtNoStep
<1>3. /\ JobsOK'
      /\ \A q \in Handlers \ {r} : job'[q] = job[q]
      /\ job'[r] # Idle => /\ job'[r].mac = job[r].mac /\ job'[r].addr = job[r].addr
                           /\ job'[r].type = job[r].type
  BY <1>1, ProceedJob, GiveUpJob
<1>4. ASSUME At(r, "set")'
      PROVE  At(r, "lock") /\ job[r].type = PullData /\ Accept(job[r].mac, job[r].addr)
  <2>1. ~GiveUp(r)
    BY <1>4, GiveUpJob
  <2>2. PICK step \in StepNames : At(r, step) /\ Proceed(r)
    BY <1>1, <2>1
  <2>3. At(r, "lock") /\ job[r].type = PullData
    BY <1>4, <2>2, ProceedJob
  <2>4. LockPull(r)
    BY <2>1, <2>3, PacketsNullAssumption DEF At, Handle, PassOn, LockOther, Set, Acknowledge, Convert
  <2> QED BY <2>1, <2>3, <2>4 DEF LockPull
<1> QED BY <1>2, <1>3, <1>4

\* To the lock of the PULL_DATA packets, every step of the server is one of its
\* operations or none.
LEMMA LockStep == ServerTypeOK /\ [ServerNext]_serverVars => [Next]_vars
<1> SUFFICES ASSUME ServerTypeOK, [ServerNext]_serverVars PROVE [Next]_vars
  OBVIOUS
<1>1. ASSUME NEW r \in Handlers, LockPull(r) PROVE Next
  <2>1. job[r] \in Jobs
    BY <1>1, IdleAtNoStep DEF LockPull, ServerTypeOK, JobsOK
  <2>2. job[r].mac \in Macs /\ job[r].addr \in Addrs
    BY <2>1 DEF Jobs
  <2> QED BY <1>1, <2>2 DEF LockPull, Next
<1>2. ASSUME NEW r \in Handlers, Handle(r), ~LockPull(r) PROVE UNCHANGED vars
  BY <1>2 DEF Handle, LockOther, Set, Acknowledge, Convert, vars
<1>3. ASSUME NEW r \in Handlers, PassOn(r) PROVE UNCHANGED vars
  BY <1>3 DEF PassOn, vars
<1>4. ASSUME NEW r \in Handlers, NEW a \in Addrs, NEW d \in Received, Read(r, a, d)
      PROVE UNCHANGED vars
  BY <1>4 DEF Read, vars
<1>5. ASSUME NEW m \in Macs, Get(m) PROVE UNCHANGED vars
  BY <1>5 DEF Get, vars
<1>6. CASE Respond
  BY <1>6 DEF Respond, vars
<1>7. CASE TimePasses
  BY <1>7 DEF TimePasses, Next
<1>8. CASE CleanupPull
  BY <1>8 DEF CleanupPull, Next
<1>9. ASSUME NEW type \in DOMAIN others, CleanupOther(type) PROVE UNCHANGED vars
  BY <1>9 DEF CleanupOther, vars
<1>10. CASE CleanupTable
  BY <1>10 DEF CleanupTable, vars
<1>11. CASE UNCHANGED serverVars
  BY <1>11 DEF serverVars, vars
<1> QED BY <1>1, <1>2, <1>3, <1>4, <1>5, <1>6, <1>7, <1>8, <1>9, <1>10, <1>11 DEF ServerNext

\* A second more, an entry is an entry.
LEMMA OlderType ==
  ASSUME NEW e \in Entries \union {NoEntry} PROVE Older(e) \in Entries \union {NoEntry}
<1> USE CacheTimeAssumption DEF Entries, Ages
<1>1. CASE e = NoEntry \/ e.age > cacheTime
  BY <1>1 DEF Older
<1>2. CASE ~(e = NoEntry \/ e.age > cacheTime)
  <2>1. e.age + 1 \in 0 .. cacheTime + 1
    BY <1>2
  <2> QED
    BY <1>2, <2>1 DEF Older
<1> QED BY <1>1, <1>2

\* Every step of the server keeps its tables and its goroutines well formed.
LEMMA ServerTypeStep == ServerTypeOK /\ [ServerNext]_serverVars => ServerTypeOK'
<1> SUFFICES ASSUME ServerTypeOK, [ServerNext]_serverVars PROVE ServerTypeOK'
  OBVIOUS
<1> USE DEF ServerTypeOK
<1>1. TypeOK'
  BY LockStep, TypeStep
<1>2. ASSUME NEW a \in Addrs PROVE [addr |-> a, age |-> 0] \in Entries
  BY CacheTimeAssumption DEF Entries, Ages
<1>3. UNCHANGED job => JobsOK'
  BY DEF JobsOK
<1>4. ASSUME NEW r \in Handlers, LockOther(r) PROVE others' \in [Types \ {PullData} -> [Macs -> Entries \union {NoEntry}]]
  <2> DEFINE j == job[r]
             e == [addr |-> j.addr, age |-> 0]
  <2>1. j \in Jobs /\ j.type # PullData
    BY <1>4, IdleAtNoStep DEF LockOther, JobsOK
  <2>2. j.type \in Types \ {PullData} /\ j.mac \in Macs /\ e \in Entries
    BY <1>2, <2>1 DEF Jobs
  <2>3. others' = [others EXCEPT ![j.type][j.mac] = e] \/ UNCHANGED others
    BY <1>4 DEF LockOther
  <2> HIDE DEF e
  <2> QED BY <2>2, <2>3
<1>5. ASSUME NEW r \in Handlers, Set(r) PROVE table' \in [Macs -> Entries \union {NoEntry}]
  <2> DEFINE j == job[r]
             e == [addr |-> j.addr, age |-> 0]
  <2>1. j \in Jobs
    BY <1>5, IdleAtNoStep DEF Set, JobsOK
  <2>2. j.mac \in Macs /\ e \in Entries
    BY <1>2, <2>1 DEF Jobs
  <2>3. table' = [table EXCEPT ![j.mac] = e]
    BY <1>5 DEF Set
  <2> HIDE DEF e
  <2> QED BY <2>2, <2>3
<1>6. ASSUME NEW r \in Handlers, Handle(r) PROVE ServerTypeOK'
  <2>1. JobsOK'
    BY <1>6, HandlerStep
  <2>2. others' \in [Types \ {PullData} -> [Macs -> Entries \union {NoEntry}]]
    BY <1>4, <1>6 DEF Handle, LockPull, Set, Acknowledge, Convert
  <2>3. table' \in [Macs -> Entries \union {NoEntry}]
    BY <1>5, <1>6 DEF Handle, LockPull, LockOther, Acknowledge, Convert
  <2> QED BY <1>1, <2>1, <2>2, <2>3
<1>7. ASSUME NEW r \in Handlers, PassOn(r) PROVE ServerTypeOK'
  <2>1. JobsOK'
    BY <1>7, HandlerStep
  <2> QED BY <1>1, <1>7, <2>1 DEF PassOn
<1>8. ASSUME NEW r \in Handlers, NEW a \in Addrs, NEW d \in Received, Read(r, a, d)
      PROVE ServerTypeOK'
  <2>1. JobsOK'
    BY <1>8, ReadStart
  <2> QED BY <1>1, <1>8, <2>1 DEF Read
<1>9. ASSUME NEW m \in Macs, Get(m) PROVE ServerTypeOK'
  BY <1>1, <1>3, <1>9 DEF Get
<1>10. CASE Respond
  BY <1>1, <1>3, <1>10 DEF Respond
<1>11. CASE TimePasses
  <2>1. others' \in [Types \ {PullData} -> [Macs -> Entries \union {NoEntry}]]
    BY <1>11, OlderType DEF TimePasses
  <2>2. table' \in [Macs -> Entries \union {NoEntry}]
    BY <1>11, OlderType DEF TimePasses
  <2> QED BY <1>1, <1>3, <1>11, <2>1, <2>2 DEF TimePasses
<1>12. CASE CleanupPull
  BY <1>1, <1>3, <1>12 DEF CleanupPull
<1>13. ASSUME NEW type \in DOMAIN others, CleanupOther(type) PROVE ServerTypeOK'
  <2>1. type \in Types \ {PullData}
    OBVIOUS
  <2> DEFINE t == [m \in Macs |-> IF others[type][m] # NoEntry /\ others[type][m].age > cacheTime
                                  THEN NoEntry ELSE others[type][m]]
  <2>2. t \in [Macs -> Entries \union {NoEntry}]
    BY <2>1
  <2>3. others' = [others EXCEPT ![type] = t]
    BY <1>13 DEF CleanupOther
  <2> HIDE DEF t
  <2>4. others' \in [Types \ {PullData} -> [Macs -> Entries \union {NoEntry}]]
    BY <2>1, <2>2, <2>3
  <2> QED BY <1>1, <1>3, <1>13, <2>4 DEF CleanupOther
<1>14. CASE CleanupTable
  <2>1. table' \in [Macs -> Entries \union {NoEntry}]
    BY <1>14 DEF CleanupTable
  <2> QED BY <1>1, <1>3, <1>14, <2>1 DEF CleanupTable
<1>15. CASE UNCHANGED serverVars
  BY <1>1, <1>3, <1>15 DEF serverVars
<1> QED BY <1>6, <1>7, <1>8, <1>9, <1>10, <1>11, <1>12, <1>13, <1>14, <1>15 DEF ServerNext

\* At start-up the tables are empty and no packet is handled.
LEMMA ServerTypeInit == ServerInit => ServerTypeOK
<1> SUFFICES ASSUME ServerInit PROVE ServerTypeOK
  OBVIOUS
<1>1. TypeOK
  BY DEF ServerInit, Init, TypeOK
<1>2. JobsOK
  BY DEF ServerInit, JobsOK
<1> QED BY <1>1, <1>2 DEF ServerInit, ServerTypeOK

\* The tables of the server and what its goroutines still have to do are well
\* formed: nothing is stored for a gateway but by its PULL_DATA, after the lock.
THEOREM ServerTypeCorrect == ServerSpec => []ServerTypeOK
<1> QED
  BY ServerTypeInit, ServerTypeStep, PTL DEF ServerSpec

\* The goroutines of the server, whatever they interleave, use the lock of the
\* PULL_DATA packets as SourceLocks says (backend.go:297-306).
THEOREM ServerUsesLock == ServerSpec => Spec
<1>1. ServerInit => Init
  BY DEF ServerInit
<1> QED
  BY <1>1, LockStep, ServerTypeCorrect, PTL DEF ServerSpec, Spec

\* So a gateway's source holds a lease in the server, too, from its last accepted
\* PULL_DATA on and for cacheTime.
THEOREM ServerIsLease == ServerSpec => IsLease
BY ServerUsesLock, Implements, PTL

-----------------------------------------------------------------------------
(* Downlink follows the lease *)

Setting(m) == \E r \in Handlers : At(r, "set") /\ job[r].mac = m

\* Between the lock and the table, a goroutine is about to store the source that
\* holds the lease; what the table has for a lease is not older than the lease.
RouteInv ==
  "stall" \notin traffic =>
    /\ \A r \in Handlers : At(r, "set") =>
         LET e == sources[job[r].mac] IN
         e # NoEntry /\ e.age = 0 /\ Key(e.addr) = Key(job[r].addr)
    /\ \A m \in Macs : Holds(sources[m]) /\ ~Setting(m) =>
         /\ table[m] # NoEntry
         /\ table[m].age <= sources[m].age
         /\ Key(table[m].addr) = Key(sources[m].addr)

\* A PULL_DATA that the lock accepts goes on to the table.
LEMMA AcceptedIsSet ==
  ASSUME JobsOK, NEW r \in Handlers, At(r, "lock"), job[r].type = PullData, Proceed(r)
  PROVE  At(r, "set")' /\ job'[r].mac = job[r].mac /\ job'[r].addr = job[r].addr
<1> DEFINE s == job[r].todo
<1>1. job[r] \in Jobs /\ s \in {<<"lock", "set", "ack">>, <<"set", "ack">>, <<"ack">>} /\ Head(s) = "lock"
  BY IdleAtNoStep DEF JobsOK, JobShape, At
<1>2. job' = [job EXCEPT ![r] = IF Len(s) = 1 THEN Idle ELSE [job[r] EXCEPT !.todo = Tail(s)]]
  <2>1. CASE Len(s) = 1
    BY <2>1 DEF Proceed, GiveUp
  <2>2. CASE Len(s) # 1
    <3>1. job' = [job EXCEPT ![r].todo = Tail(job[r].todo)]
      BY <2>2 DEF Proceed
    <3> QED BY <2>2, <3>1
  <2> QED BY <2>1, <2>2
<1>3. s # <<>> /\ Len(s) # 1 /\ Tail(s) = <<"set", "ack">>
  <2>1. s \in {<<"lock", "set", "ack">>, <<"set", "ack">>, <<"ack">>} /\ Head(s) = "lock"
    BY <1>1
  <2> HIDE DEF s
  <2>2. CASE s = <<"lock", "set", "ack">>
    BY <2>2
  <2>3. CASE s = <<"set", "ack">>
    BY <2>1, <2>3
  <2>4. CASE s = <<"ack">>
    BY <2>1, <2>4
  <2> QED BY <2>1, <2>2, <2>3, <2>4
<1>4. job'[r] = [job[r] EXCEPT !.todo = <<"set", "ack">>]
  BY <1>2, <1>3 DEF JobsOK
<1>5. job'[r].todo = <<"set", "ack">> /\ job'[r].mac = job[r].mac /\ job'[r].addr = job[r].addr
  BY <1>1, <1>4 DEF Jobs
<1>6. job'[r].todo # <<>> /\ Head(job'[r].todo) = "set"
  <2> DEFINE t == job'[r].todo
  <2>1. t = <<"set", "ack">>
    BY <1>5
  <2> HIDE DEF t
  <2>2. t # <<>> /\ Head(t) = "set"
    BY <2>1
  <2> QED BY <2>2 DEF t
<1> QED BY <1>5, <1>6 DEF At

\* While a source holds the lease, the lock accepts nothing but its key.
LEMMA AcceptedKey ==
  ASSUME TypeOK, NEW m \in Macs, NEW a \in Addrs, Accept(m, a)
  PROVE  /\ Holds(sources[m]) => Key(sources[m].addr) = Key(a)
         /\ sources'[m] = [addr |-> a, age |-> 0]
         /\ \A n \in Macs \ {m} : sources'[n] = sources[n]
<1>1. Holds(sources[m]) => sources[m] \in Entries
  BY DEF Holds, TypeOK
<1>2. Holds(sources[m]) => Key(sources[m].addr) = Key(a)
  BY <1>1, ConsistentIsSameKey DEF Accept, Passes, Admits, Holds
<1> QED BY <1>2 DEF Accept, TypeOK

\* A step that leaves the tables alone and takes no goroutine to the table or
\* from it keeps the route.
LEMMA RouteStays ==
  ASSUME RouteInv, UNCHANGED <<sources, table, traffic>>,
         \A q \in Handlers : At(q, "set")' <=> At(q, "set"),
         \A q \in Handlers : At(q, "set") => job'[q].mac = job[q].mac /\ job'[q].addr = job[q].addr
  PROVE  RouteInv'
BY DEF RouteInv, Setting

\* The lock of a PULL_DATA.
LEMMA RouteLock ==
  ASSUME ServerTypeOK, RouteInv, NEW r \in Handlers, LockPull(r)
  PROVE  RouteInv'
<1> DEFINE m == job[r].mac
           a == job[r].addr
<1>1. /\ JobsOK /\ TypeOK /\ At(r, "lock") /\ job[r].type = PullData
      /\ UNCHANGED <<table, traffic>>
  BY DEF ServerTypeOK, LockPull
<1>2. m \in Macs /\ a \in Addrs
  BY <1>1, IdleAtNoStep DEF JobsOK, Jobs
<1>3. \A q \in Handlers \ {r} : job'[q] = job[q]
  BY <1>1, HandlerStep DEF Handle
<1>4. ~At(r, "set")
  BY <1>1 DEF At
<1>5. CASE Accept(m, a) /\ Proceed(r)
  <2>1. At(r, "set")' /\ job'[r].mac = m /\ job'[r].addr = a
    BY <1>1, <1>5, AcceptedIsSet
  <2>2. /\ Holds(sources[m]) => Key(sources[m].addr) = Key(a)
        /\ sources'[m] = [addr |-> a, age |-> 0]
        /\ \A n \in Macs \ {m} : sources'[n] = sources[n]
    BY <1>1, <1>2, <1>5, AcceptedKey
  <2>3. sources'[m] # NoEntry /\ sources'[m].age = 0 /\ Key(sources'[m].addr) = Key(a)
    <3>1. sources'[m] \in Entries
      BY <1>2, <2>2, CacheTimeAssumption DEF Entries, Ages
    <3> QED BY <2>2, <3>1, LocksNullAssumption
  <2>4. SUFFICES ASSUME "stall" \notin traffic
                 PROVE  /\ \A q \in Handlers : At(q, "set")' =>
                             /\ sources'[job'[q].mac] # NoEntry /\ sources'[job'[q].mac].age = 0
                             /\ Key(sources'[job'[q].mac].addr) = Key(job'[q].addr)
                        /\ \A n \in Macs : Holds(sources'[n]) /\ ~Setting(n)' =>
                             /\ table[n] # NoEntry
                             /\ table[n].age <= sources'[n].age
                             /\ Key(table[n].addr) = Key(sources'[n].addr)
    BY <1>1, <2>4 DEF RouteInv
  <2>5. ASSUME NEW q \in Handlers, At(q, "set")'
        PROVE  /\ sources'[job'[q].mac] # NoEntry /\ sources'[job'[q].mac].age = 0
               /\ Key(sources'[job'[q].mac].addr) = Key(job'[q].addr)
    <3>1. CASE q = r
      BY <2>1, <2>3, <3>1
    <3>2. CASE q # r
      <4>1. job'[q] = job[q] /\ At(q, "set")
        BY <1>3, <2>5, <3>2 DEF At
      <4>2. /\ sources[job[q].mac] # NoEntry /\ sources[job[q].mac].age = 0
            /\ Key(sources[job[q].mac].addr) = Key(job[q].addr)
        BY <2>4, <4>1 DEF RouteInv
      <4>3. job[q].mac \in Macs
        BY <1>1, <4>1, IdleAtNoStep DEF JobsOK, Jobs
      <4>4. CASE job[q].mac = m
        <5>1. Holds(sources[m])
          BY <4>2, <4>4, CacheTimeAssumption DEF Holds
        <5> QED BY <2>2, <2>3, <4>1, <4>2, <4>4, <5>1
      <4>5. CASE job[q].mac # m
        BY <2>2, <4>1, <4>2, <4>3, <4>5
      <4> QED BY <4>4, <4>5
    <3> QED BY <3>1, <3>2
  <2>6. ASSUME NEW n \in Macs, Holds(sources'[n]), ~Setting(n)'
        PROVE  /\ table[n] # NoEntry
               /\ table[n].age <= sources'[n].age
               /\ Key(table[n].addr) = Key(sources'[n].addr)
    <3>1. n # m
      BY <2>1, <2>6 DEF Setting
    <3>2. ~Setting(n)
      BY <1>3, <1>4, <2>6 DEF Setting, At
    <3> QED BY <2>2, <2>4, <2>6, <3>1, <3>2 DEF RouteInv
  <2> QED BY <2>5, <2>6
<1>6. CASE Refuse(m, a) /\ GiveUp(r)
  <2>1. UNCHANGED sources /\ ~At(r, "set")'
    BY <1>1, <1>6, GiveUpJob DEF Refuse
  <2> QED BY <1>1, <1>3, <1>4, <2>1, RouteStays DEF At
<1> QED BY <1>5, <1>6 DEF LockPull

\* The entry of a gateway is stored.
LEMMA RouteSet ==
  ASSUME ServerTypeOK, RouteInv, NEW r \in Handlers, Set(r)
  PROVE  RouteInv'
<1> DEFINE m == job[r].mac
           a == job[r].addr
<1>1. /\ JobsOK /\ TypeOK /\ At(r, "set") /\ UNCHANGED <<sources, traffic>>
      /\ table \in [Macs -> Entries \union {NoEntry}]
      /\ table' = [table EXCEPT ![m] = [addr |-> a, age |-> 0]]
  BY DEF ServerTypeOK, Set
<1>2. m \in Macs /\ a \in Addrs
  BY <1>1, IdleAtNoStep DEF JobsOK, Jobs
<1>3. \A q \in Handlers \ {r} : job'[q] = job[q]
  BY <1>1, HandlerStep DEF Handle
<1>4. ~At(r, "set")'
  <2>1. ~At(r, "lock")
    BY <1>1 DEF At
  <2> QED BY <1>1, <2>1, HandlerStep DEF Handle
<1>5. /\ table'[m] = [addr |-> a, age |-> 0]
      /\ \A n \in Macs \ {m} : table'[n] = table[n]
  BY <1>1, <1>2
<1>6. table'[m] # NoEntry /\ table'[m].age = 0 /\ table'[m].addr = a
  <2>1. table'[m] \in Entries
    BY <1>2, <1>5, CacheTimeAssumption DEF Entries, Ages
  <2> QED BY <1>5, <2>1, LocksNullAssumption
<1> SUFFICES ASSUME "stall" \notin traffic
             PROVE  /\ \A q \in Handlers : At(q, "set")' =>
                         /\ sources[job'[q].mac] # NoEntry /\ sources[job'[q].mac].age = 0
                         /\ Key(sources[job'[q].mac].addr) = Key(job'[q].addr)
                    /\ \A n \in Macs : Holds(sources[n]) /\ ~Setting(n)' =>
                         /\ table'[n] # NoEntry
                         /\ table'[n].age <= sources[n].age
                         /\ Key(table'[n].addr) = Key(sources[n].addr)
  BY <1>1 DEF RouteInv
<1>7. ASSUME NEW q \in Handlers, At(q, "set")'
      PROVE  /\ sources[job'[q].mac] # NoEntry /\ sources[job'[q].mac].age = 0
             /\ Key(sources[job'[q].mac].addr) = Key(job'[q].addr)
  <2>1. job'[q] = job[q] /\ At(q, "set")
    BY <1>3, <1>4, <1>7 DEF At
  <2> QED BY <2>1 DEF RouteInv
<1>8. ASSUME NEW n \in Macs, Holds(sources[n]), ~Setting(n)'
      PROVE  /\ table'[n] # NoEntry
             /\ table'[n].age <= sources[n].age
             /\ Key(table'[n].addr) = Key(sources[n].addr)
  <2>1. CASE n = m
    <3>1. sources[m].age = 0 /\ Key(sources[m].addr) = Key(a)
      BY <1>1 DEF RouteInv
    <3> QED BY <1>6, <2>1, <3>1
  <2>2. CASE n # m
    <3>1. ~Setting(n)
      BY <1>3, <1>8, <2>2 DEF Setting, At
    <3> QED BY <1>5, <1>8, <2>2, <3>1 DEF RouteInv
  <2> QED BY <2>1, <2>2
<1> QED BY <1>7, <1>8

\* A second passes, and no goroutine is between the lock and the table.
LEMMA RouteTime == ServerTypeOK /\ RouteInv /\ TimePasses => RouteInv'
<1> SUFFICES ASSUME ServerTypeOK, RouteInv, TimePasses, "stall" \notin traffic
             PROVE  /\ \A q \in Handlers : ~At(q, "set")'
                    /\ \A n \in Macs : Holds(sources'[n]) =>
                         /\ table'[n] # NoEntry
                         /\ table'[n].age <= sources'[n].age
                         /\ Key(table'[n].addr) = Key(sources'[n].addr)
  BY DEF RouteInv, Setting, TimePasses
<1>1. \A q \in Handlers : ~At(q, "set")
  BY IdleAtNoStep DEF TimePasses, Waits, At
<1>2. \A q \in Handlers : ~At(q, "set")'
  BY <1>1 DEF TimePasses, At
<1>3. ASSUME NEW n \in Macs, Holds(sources'[n])
      PROVE  /\ table'[n] # NoEntry
             /\ table'[n].age <= sources'[n].age
             /\ Key(table'[n].addr) = Key(sources'[n].addr)
  <2>1. sources'[n] = Older(sources[n]) /\ table'[n] = Older(table[n])
    BY DEF TimePasses, Tick
  <2>2. sources[n] \in Entries \union {NoEntry} /\ table[n] \in Entries \union {NoEntry}
    BY DEF ServerTypeOK, TypeOK
  <2>3. sources[n] # NoEntry
    BY <1>3, <2>1 DEF Holds, Older
  <2>4. sources[n] \in Entries /\ sources[n].age \in 0 .. cacheTime + 1
    BY <2>2, <2>3 DEF Entries, Ages
  <2>5. sources[n].age <= cacheTime
    BY <1>3, <2>1, <2>4, CacheTimeAssumption DEF Holds, Older
  <2>6. sources'[n].age = sources[n].age + 1 /\ sources'[n].addr = sources[n].addr
    BY <2>1, <2>3, <2>4, <2>5, CacheTimeAssumption DEF Older, Entries
  <2>7. Holds(sources[n]) /\ sources[n].age < cacheTime
    BY <1>3, <2>3, <2>4, <2>6, CacheTimeAssumption DEF Holds
  <2>8. /\ table[n] # NoEntry /\ table[n].age <= sources[n].age
        /\ Key(table[n].addr) = Key(sources[n].addr)
    BY <1>1, <2>7 DEF RouteInv, Setting
  <2>9. table[n] \in Entries /\ table[n].age \in 0 .. cacheTime + 1
    BY <2>2, <2>8 DEF Entries, Ages
  <2>10. table'[n] = [table[n] EXCEPT !.age = @ + 1]
    BY <2>1, <2>4, <2>7, <2>8, <2>9, CacheTimeAssumption DEF Older
  <2>11. table'[n].age = table[n].age + 1 /\ table'[n].addr = table[n].addr
    BY <2>9, <2>10 DEF Entries
  <2>12. table'[n] # NoEntry
    <3>1. table'[n].age \in Ages
      BY <2>4, <2>7, <2>8, <2>9, <2>11, CacheTimeAssumption DEF Ages
    <3>2. table'[n] \in Entries
      BY <2>9, <2>10, <2>11, <3>1 DEF Entries
    <3> QED BY <3>2, LocksNullAssumption
  <2> QED BY <2>4, <2>6, <2>8, <2>9, <2>11, <2>12
<1> QED BY <1>2, <1>3

\* The cleanups delete nothing that a lease needs.
LEMMA RouteCleanup ==
  ServerTypeOK /\ RouteInv /\ (CleanupPull \/ CleanupTable) => RouteInv'
<1>1. ASSUME ServerTypeOK, RouteInv, CleanupPull PROVE RouteInv'
  <2>1. /\ UNCHANGED <<table, traffic, job>>
        /\ \A n \in Macs : sources'[n] = IF sources[n] # NoEntry /\ sources[n].age > cacheTime
                                         THEN NoEntry ELSE sources[n]
    BY <1>1 DEF CleanupPull, Cleanup
  <2>2. \A n \in Macs : Holds(sources'[n]) => sources'[n] = sources[n]
    BY <2>1 DEF Holds
  <2>3. \A n \in Macs : sources[n] # NoEntry /\ sources[n].age = 0 => sources'[n] = sources[n]
    BY <2>1, CacheTimeAssumption
  <2>4. \A q \in Handlers : At(q, "set") => job[q].mac \in Macs
    BY <1>1, IdleAtNoStep DEF ServerTypeOK, JobsOK, Jobs
  <2>5. /\ \A q \in Handlers : At(q, "set")' <=> At(q, "set")
        /\ \A n \in Macs : Setting(n)' <=> Setting(n)
    BY <2>1 DEF At, Setting
  <2> QED BY <1>1, <2>1, <2>2, <2>3, <2>4, <2>5 DEF RouteInv
<1>2. ASSUME ServerTypeOK, RouteInv, CleanupTable PROVE RouteInv'
  <2>1. /\ UNCHANGED <<sources, traffic, job>>
        /\ \A n \in Macs : table'[n] = IF table[n] # NoEntry /\ table[n].age > cacheTime
                                       THEN NoEntry ELSE table[n]
    BY <1>2 DEF CleanupTable
  <2>2. ASSUME NEW n \in Macs, Holds(sources[n]), table[n] # NoEntry, table[n].age <= sources[n].age
        PROVE  table'[n] = table[n]
    <3>1. sources[n].age \in Nat /\ sources[n].age < cacheTime /\ table[n].age \in Nat
      BY <1>2, <2>2 DEF ServerTypeOK, TypeOK, Entries, Ages, Holds
    <3> QED BY <2>1, <2>2, <3>1, CacheTimeAssumption
  <2>3. /\ \A q \in Handlers : At(q, "set")' <=> At(q, "set")
        /\ \A n \in Macs : Setting(n)' <=> Setting(n)
    BY <2>1 DEF At, Setting
  <2> QED BY <1>2, <2>1, <2>2, <2>3 DEF RouteInv
<1> QED BY <1>1, <1>2

\* Every step of the server keeps the route of a lease.
LEMMA RouteStep == ServerTypeOK /\ RouteInv /\ [ServerNext]_serverVars => RouteInv'
<1> SUFFICES ASSUME ServerTypeOK, RouteInv, [ServerNext]_serverVars PROVE RouteInv'
  OBVIOUS
<1>0. JobsOK
  BY DEF ServerTypeOK
<1>1. ASSUME NEW r \in Handlers, LockOther(r) \/ Acknowledge(r) \/ Convert(r) \/ PassOn(r)
      PROVE  RouteInv'
  <2>1. UNCHANGED <<sources, table, traffic>>
    BY <1>1 DEF LockOther, Acknowledge, Convert, PassOn
  <2>2. ~At(r, "set")
    BY <1>1, PacketsNullAssumption DEF LockOther, Acknowledge, Convert, PassOn, At
  <2>3. ~(At(r, "lock") /\ job[r].type = PullData)
    BY <1>1, PacketsNullAssumption DEF LockOther, Acknowledge, Convert, PassOn, At
  <2>4. ~At(r, "set")' /\ \A q \in Handlers \ {r} : job'[q] = job[q]
    BY <1>0, <1>1, <2>3, HandlerStep DEF Handle
  <2> QED BY <2>1, <2>2, <2>4, RouteStays DEF At
<1>2. ASSUME NEW r \in Handlers, NEW a \in Addrs, NEW d \in Received, Read(r, a, d)
      PROVE RouteInv'
  <2>1. UNCHANGED <<sources, table, traffic>> /\ ~At(r, "set")
    BY <1>2, IdleAtNoStep DEF Read
  <2>2. ~At(r, "set")' /\ \A q \in Handlers \ {r} : job'[q] = job[q]
    BY <1>0, <1>2, ReadStart
  <2> QED BY <2>1, <2>2, RouteStays DEF At
<1>3. ASSUME UNCHANGED <<sources, table, traffic, job>> PROVE RouteInv'
  BY <1>3, RouteStays DEF At
<1>4. ASSUME NEW m \in Macs, Get(m) PROVE RouteInv'
  BY <1>3, <1>4 DEF Get
<1>5. CASE Respond
  BY <1>3, <1>5 DEF Respond
<1>6. ASSUME NEW type \in DOMAIN others, CleanupOther(type) PROVE RouteInv'
  BY <1>3, <1>6 DEF CleanupOther
<1>7. CASE UNCHANGED serverVars
  BY <1>3, <1>7 DEF serverVars
<1> QED
  BY <1>1, <1>2, <1>4, <1>5, <1>6, <1>7, RouteLock, RouteSet, RouteTime, RouteCleanup
  DEF ServerNext, Handle

\* Downlink goes to the source that holds the gateway's lease, for as long as it
\* does: nobody else redirects it and the entry does not go before the lease, if
\* no goroutine takes longer than a tick (backend.go:297-332).
THEOREM RouteIsLease == ServerSpec => []RouteFollowsLease
<1>1. ServerInit => RouteInv
  <2> SUFFICES ASSUME ServerInit PROVE RouteInv
    OBVIOUS
  <2>1. \A r \in Handlers : ~At(r, "set")
    BY DEF ServerInit, At, Idle
  <2>2. \A m \in Macs : sources[m] = NoEntry
    BY DEF ServerInit, Init
  <2> QED BY <2>1, <2>2 DEF RouteInv, Holds
<1>2. RouteInv => RouteFollowsLease
  BY DEF RouteInv, RouteFollowsLease, Setting
<1> QED
  BY <1>1, <1>2, RouteStep, ServerTypeCorrect, PTL DEF ServerSpec

-----------------------------------------------------------------------------
(* Gateways that keep their addresses *)

\* The address that the lock of a packet type has for a gateway, and every packet
\* a goroutine handles, is the one the gateway sends such packets from.
HomeInv ==
  "move" \notin traffic =>
    /\ \A r \in Handlers : job[r] # Idle => job[r].addr = Home[job[r].mac][job[r].type]
    /\ \A m \in Macs : sources[m] # NoEntry => sources[m].addr = Home[m][PullData]
    /\ \A t \in Types \ {PullData}, m \in Macs :
         others[t][m] # NoEntry => others[t][m].addr = Home[m][t]

\* A second more, an entry has the address it had.
LEMMA OlderAddr ==
  ASSUME NEW e \in Entries \union {NoEntry}, Older(e) # NoEntry
  PROVE  e # NoEntry /\ Older(e).addr = e.addr
<1>1. CASE e = NoEntry
  BY <1>1 DEF Older
<1>2. CASE e # NoEntry /\ e.age > cacheTime
  BY <1>2 DEF Older
<1>3. CASE e # NoEntry /\ ~(e.age > cacheTime)
  <2>1. Older(e) = [e EXCEPT !.age = @ + 1] /\ e \in Entries
    BY <1>3 DEF Older
  <2> QED BY <1>3, <2>1 DEF Entries
<1> QED BY <1>1, <1>2, <1>3

\* The lock of another packet type: what it stores, if it accepts.
LEMMA OtherEntry ==
  ASSUME ServerTypeOK, NEW r \in Handlers, LockOther(r)
  PROVE  /\ job[r] # Idle /\ job[r].mac \in Macs /\ job[r].type \in Types \ {PullData}
         /\ job[r].addr \in Addrs
         /\ \/ /\ Admits(others[job[r].type][job[r].mac], job[r].addr)
               /\ others'[job[r].type][job[r].mac] = [addr |-> job[r].addr, age |-> 0]
            \/ /\ ~Admits(others[job[r].type][job[r].mac], job[r].addr)
               /\ UNCHANGED others
         /\ \A t \in Types \ {PullData}, m \in Macs :
              \/ others'[t][m] = others[t][m]
              \/ t = job[r].type /\ m = job[r].mac /\ others'[t][m].addr = job[r].addr
<1> DEFINE j == job[r]
           e == [addr |-> j.addr, age |-> 0]
<1>1. /\ JobsOK /\ others \in [Types \ {PullData} -> [Macs -> Entries \union {NoEntry}]]
      /\ At(r, "lock") /\ j.type # PullData
  BY DEF ServerTypeOK, LockOther
<1>2. j # Idle /\ j.mac \in Macs /\ j.type \in Types \ {PullData} /\ j.addr \in Addrs
  BY <1>1, IdleAtNoStep DEF JobsOK, Jobs
<1>3. \/ Admits(others[j.type][j.mac], j.addr) /\ others' = [others EXCEPT ![j.type][j.mac] = e]
      \/ ~Admits(others[j.type][j.mac], j.addr) /\ UNCHANGED others
  BY DEF LockOther
<1>4. e.addr = j.addr
  OBVIOUS
<1> HIDE DEF e
<1>5. others' = [others EXCEPT ![j.type][j.mac] = e] =>
        /\ others'[j.type][j.mac] = e
        /\ \A t \in Types \ {PullData}, m \in Macs :
             others'[t][m] = others[t][m] \/ (t = j.type /\ m = j.mac /\ others'[t][m] = e)
  BY <1>1, <1>2
<1> QED BY <1>2, <1>3, <1>4, <1>5 DEF e

\* A lock that knows a packet's address for its gateway accepts the packet.
LEMMA HomeAdmitted ==
  ASSUME NEW e \in Entries \union {NoEntry}, NEW a \in Addrs, e # NoEntry => e.addr = a
  PROVE  Admits(e, a)
BY DEF Admits, Consistent

\* Every step of the server keeps every address where it belongs.
LEMMA HomeStep == ServerTypeOK /\ HomeInv /\ [ServerNext]_serverVars => HomeInv'
<1> SUFFICES ASSUME ServerTypeOK, HomeInv, [ServerNext]_serverVars PROVE HomeInv'
  OBVIOUS
<1>1. /\ JobsOK /\ TypeOK /\ table \in [Macs -> Entries \union {NoEntry}]
      /\ others \in [Types \ {PullData} -> [Macs -> Entries \union {NoEntry}]]
  BY DEF ServerTypeOK
<1>2. UNCHANGED traffic
  BY DEF ServerNext, serverVars, Read, Handle, LockPull, LockOther, Set, Acknowledge, Convert,
         PassOn, Get, Respond, TimePasses, CleanupPull, CleanupOther, CleanupTable
<1> SUFFICES ASSUME "move" \notin traffic PROVE HomeInv'
  BY <1>2 DEF HomeInv
<1> DEFINE JobPart == \A q \in Handlers : job[q] # Idle => job[q].addr = Home[job[q].mac][job[q].type]
           SourcePart == \A m \in Macs : sources[m] # NoEntry => sources[m].addr = Home[m][PullData]
           OthersPart == \A t \in Types \ {PullData}, m \in Macs :
                           others[t][m] # NoEntry => others[t][m].addr = Home[m][t]
<1>3. JobPart /\ SourcePart /\ OthersPart
  BY DEF HomeInv
<1> SUFFICES JobPart' /\ SourcePart' /\ OthersPart'
  BY DEF HomeInv
<1>4. UNCHANGED job => JobPart'
  BY <1>3
<1>5. UNCHANGED sources => SourcePart'
  BY <1>3
<1>6. UNCHANGED others => OthersPart'
  BY <1>3
<1>7. ASSUME NEW r \in Handlers, Handle(r) \/ PassOn(r) PROVE JobPart'
  <2>1. /\ \A q \in Handlers \ {r} : job'[q] = job[q]
        /\ job[r] # Idle
        /\ job'[r] # Idle => /\ job'[r].mac = job[r].mac /\ job'[r].addr = job[r].addr
                             /\ job'[r].type = job[r].type
    BY <1>1, <1>7, HandlerStep
  <2>2. ASSUME NEW q \in Handlers, job'[q] # Idle
        PROVE  job'[q].addr = Home[job'[q].mac][job'[q].type]
    <3>1. CASE q = r
      BY <1>3, <2>1, <2>2, <3>1
    <3>2. CASE q # r
      BY <1>3, <2>1, <2>2, <3>2
    <3> QED BY <3>1, <3>2
  <2> QED BY <2>2
<1>8. ASSUME NEW r \in Handlers, LockPull(r) PROVE JobPart' /\ SourcePart' /\ OthersPart'
  <2>1. /\ job[r] # Idle /\ job[r].mac \in Macs /\ job[r].addr \in Addrs
        /\ job[r].type = PullData
    BY <1>1, <1>8, IdleAtNoStep DEF LockPull, JobsOK, Jobs
  <2>2. job[r].addr = Home[job[r].mac][PullData]
    BY <1>3, <2>1
  <2>3. CASE Accept(job[r].mac, job[r].addr)
    <3>1. /\ sources'[job[r].mac] = [addr |-> job[r].addr, age |-> 0]
          /\ \A n \in Macs \ {job[r].mac} : sources'[n] = sources[n]
      BY <1>1, <2>1, <2>3, AcceptedKey
    <3>2. sources'[job[r].mac].addr = job[r].addr
      BY <3>1
    <3>3. SourcePart'
      BY <1>3, <2>2, <3>1, <3>2
    <3> QED BY <1>6, <1>7, <1>8, <3>3 DEF Handle, LockPull
  <2>4. CASE Refuse(job[r].mac, job[r].addr)
    BY <1>5, <1>6, <1>7, <1>8, <2>4 DEF Handle, LockPull, Refuse
  <2> QED BY <1>8, <2>3, <2>4 DEF LockPull
<1>9. ASSUME NEW r \in Handlers, LockOther(r) PROVE JobPart' /\ SourcePart' /\ OthersPart'
  <2>1. /\ job[r] # Idle
        /\ \A t \in Types \ {PullData}, m \in Macs :
              \/ others'[t][m] = others[t][m]
              \/ t = job[r].type /\ m = job[r].mac /\ others'[t][m].addr = job[r].addr
    BY <1>9, OtherEntry
  <2>2. OthersPart'
    BY <1>3, <2>1
  <2>3. SourcePart'
    BY <1>5, <1>9 DEF LockOther
  <2> QED BY <1>7, <1>9, <2>2, <2>3 DEF Handle
<1>10. ASSUME NEW r \in Handlers, Set(r) \/ Acknowledge(r) \/ Convert(r) \/ PassOn(r)
       PROVE  JobPart' /\ SourcePart' /\ OthersPart'
  <2>1. UNCHANGED <<sources, others>>
    BY <1>10 DEF Set, Acknowledge, Convert, PassOn
  <2>2. JobPart'
    BY <1>7, <1>10 DEF Handle
  <2> QED BY <1>5, <1>6, <2>1, <2>2
<1>11. ASSUME NEW r \in Handlers, NEW a \in Addrs, NEW d \in Received, Read(r, a, d)
       PROVE  JobPart' /\ SourcePart' /\ OthersPart'
  <2>1. /\ \A q \in Handlers \ {r} : job'[q] = job[q]
        /\ job'[r].mac = d.mac /\ job'[r].addr = a /\ job'[r].type = d.type
    BY <1>1, <1>11, ReadStart
  <2>2. a = Home[d.mac][d.type] /\ UNCHANGED <<sources, others>>
    BY <1>11 DEF Read
  <2>3. JobPart'
    BY <1>3, <2>1, <2>2
  <2> QED BY <1>5, <1>6, <2>2, <2>3
<1>12. CASE TimePasses
  <2>1. SourcePart'
    <3> SUFFICES ASSUME NEW m \in Macs, sources'[m] # NoEntry
                 PROVE  sources'[m].addr = Home[m][PullData]
      OBVIOUS
    <3>1. sources'[m] = Older(sources[m]) /\ sources[m] \in Entries \union {NoEntry}
      BY <1>1, <1>12 DEF TimePasses, Tick, TypeOK
    <3> QED BY <1>3, <3>1, OlderAddr
  <2>2. OthersPart'
    <3> SUFFICES ASSUME NEW t \in Types \ {PullData}, NEW m \in Macs, others'[t][m] # NoEntry
                 PROVE  others'[t][m].addr = Home[m][t]
      OBVIOUS
    <3>1. others'[t][m] = Older(others[t][m]) /\ others[t][m] \in Entries \union {NoEntry}
      BY <1>1, <1>12 DEF TimePasses
    <3> QED BY <1>3, <3>1, OlderAddr
  <2> QED BY <1>4, <1>12, <2>1, <2>2 DEF TimePasses
<1>13. CASE CleanupPull
  <2>1. SourcePart'
    BY <1>3, <1>13 DEF CleanupPull, Cleanup
  <2> QED BY <1>4, <1>6, <1>13, <2>1 DEF CleanupPull
<1>14. ASSUME NEW type \in DOMAIN others, CleanupOther(type)
       PROVE  JobPart' /\ SourcePart' /\ OthersPart'
  <2> DEFINE f == [m \in Macs |-> IF others[type][m] # NoEntry /\ others[type][m].age > cacheTime
                                  THEN NoEntry ELSE others[type][m]]
  <2>1. others' = [others EXCEPT ![type] = f]
    BY <1>14 DEF CleanupOther
  <2>2. \A m \in Macs : f[m] \in {NoEntry, others[type][m]}
    OBVIOUS
  <2> HIDE DEF f
  <2>3. \A t \in Types \ {PullData}, m \in Macs : others'[t][m] \in {NoEntry, others[t][m]}
    BY <1>1, <2>1, <2>2
  <2>4. OthersPart'
    BY <1>3, <2>3
  <2> QED BY <1>4, <1>5, <1>14, <2>4 DEF CleanupOther
<1>15. ASSUME NEW m \in Macs, Get(m) PROVE JobPart' /\ SourcePart' /\ OthersPart'
  BY <1>4, <1>5, <1>6, <1>15 DEF Get
<1>16. CASE Respond
  BY <1>4, <1>5, <1>6, <1>16 DEF Respond
<1>17. CASE CleanupTable
  BY <1>4, <1>5, <1>6, <1>17 DEF CleanupTable
<1>18. CASE UNCHANGED serverVars
  BY <1>4, <1>5, <1>6, <1>18 DEF serverVars
<1> HIDE DEF JobPart, SourcePart, OthersPart
<1> QED
  BY <1>8, <1>9, <1>10, <1>11, <1>12, <1>13, <1>14, <1>15, <1>16, <1>17, <1>18
  DEF ServerNext, Handle

\* A gateway that keeps its addresses is never refused: a goroutine that leaves
\* the lock has had its packet accepted, though PUSH_DATA and PULL_DATA come from
\* different ports, as every packet type has a lock of its own (backend.go:142-146).
THEOREM KeptAddressesPass == ServerSpec => OwnPortsPass
<1> DEFINE Passed(r) == (IF job[r].type = PullData THEN sources' ELSE others'[job[r].type])[job[r].mac]
                          = [addr |-> job[r].addr, age |-> 0]
           P == "move" \notin traffic =>
                  \A r \in Handlers :
                    LET j == job[r] IN
                    At(r, "lock") /\ job'[r] # j =>
                      (IF j.type = PullData THEN sources' ELSE others'[j.type])[j.mac]
                        = [addr |-> j.addr, age |-> 0]
<1>1. ServerInit => HomeInv
  <2> SUFFICES ASSUME ServerInit PROVE HomeInv
    OBVIOUS
  <2>1. \A r \in Handlers : job[r] = Idle
    BY DEF ServerInit
  <2>2. \A m \in Macs : sources[m] = NoEntry
    BY DEF ServerInit, Init
  <2>3. \A t \in Types \ {PullData}, m \in Macs : others[t][m] = NoEntry
    BY DEF ServerInit
  <2> QED BY <2>1, <2>2, <2>3 DEF HomeInv
<1>2. ServerTypeOK /\ HomeInv /\ [ServerNext]_serverVars => [P]_serverVars
  <2> SUFFICES ASSUME ServerTypeOK, HomeInv, ServerNext, "move" \notin traffic,
                      NEW r \in Handlers, At(r, "lock"), job'[r] # job[r]
               PROVE  Passed(r)
    OBVIOUS
  <2>1. JobsOK /\ TypeOK
    BY DEF ServerTypeOK
  <2>2. /\ job[r] # Idle /\ job[r].mac \in Macs /\ job[r].addr \in Addrs /\ job[r].type \in Types
        /\ job[r].addr = Home[job[r].mac][job[r].type]
    BY <2>1, IdleAtNoStep DEF JobsOK, Jobs, HomeInv
  <2>3. \/ \E q \in Handlers, a \in Addrs, d \in Received : Read(q, a, d)
        \/ \E q \in Handlers : Handle(q) \/ PassOn(q)
        \/ UNCHANGED job
    BY DEF ServerNext, Get, Respond, TimePasses, CleanupPull, CleanupOther, CleanupTable
  <2>4. ASSUME NEW q \in Handlers, NEW a \in Addrs, NEW d \in Received, Read(q, a, d)
        PROVE  job'[r] = job[r]
    <3>1. q # r
      BY <2>2, <2>4 DEF Read
    <3> QED BY <2>1, <2>4, <3>1, ReadStart
  <2>5. PICK q \in Handlers : Handle(q) \/ PassOn(q)
    BY <2>3, <2>4
  <2>6. q = r
    BY <2>1, <2>5, HandlerStep
  <2>7. LockPull(r) \/ LockOther(r)
    BY <2>5, <2>6, PacketsNullAssumption DEF Handle, PassOn, Set, Acknowledge, Convert, At
  <2>8. CASE LockPull(r)
    <3>1. job[r].type = PullData /\ (sources[job[r].mac] # NoEntry => sources[job[r].mac].addr = job[r].addr)
      BY <2>2, <2>8 DEF LockPull, HomeInv
    <3>2. sources[job[r].mac] \in Entries \union {NoEntry}
      BY <2>1, <2>2 DEF TypeOK
    <3>3. Passes(job[r].mac, job[r].addr)
      BY <2>2, <3>1, <3>2, HomeAdmitted DEF Passes
    <3>4. Accept(job[r].mac, job[r].addr)
      BY <2>8, <3>3 DEF LockPull, Refuse
    <3> QED BY <2>1, <2>2, <3>1, <3>4, AcceptedKey
  <2>9. CASE LockOther(r)
    <3>1. /\ job[r].type \in Types \ {PullData}
          /\ \/ others'[job[r].type][job[r].mac] = [addr |-> job[r].addr, age |-> 0]
             \/ ~Admits(others[job[r].type][job[r].mac], job[r].addr)
      BY <2>9, OtherEntry
    <3>2. others[job[r].type][job[r].mac] # NoEntry => others[job[r].type][job[r].mac].addr = job[r].addr
      BY <2>2, <3>1 DEF HomeInv
    <3>3. others[job[r].type][job[r].mac] \in Entries \union {NoEntry}
      BY <2>2, <3>1 DEF ServerTypeOK
    <3>4. Admits(others[job[r].type][job[r].mac], job[r].addr)
      BY <2>2, <3>2, <3>3, HomeAdmitted
    <3> QED BY <3>1, <3>4
  <2> QED BY <2>7, <2>8, <2>9
<1> QED
  BY <1>1, <1>2, HomeStep, ServerTypeCorrect, PTL DEF ServerSpec, OwnPortsPass

-----------------------------------------------------------------------------
(* The signal of a packet *)

\* Some number of a set of naturals is the least.
LEMMA LeastNat ==
  ASSUME NEW T, T \subseteq Nat, T # {}
  PROVE  \E n \in T : \A m \in T : n <= m
<1>1. IsWellFoundedOn(OpToRel(<, Nat), Nat)
  BY NatLessThanWellFounded
<1>2. \A m, n \in Nat : <<m, n>> \in OpToRel(<, Nat) <=> m < n
  BY DEF OpToRel
<1>3. PICK n \in T : \A m \in T : <<m, n>> \notin OpToRel(<, Nat)
  BY <1>1, WFMin
<1>4. \A m \in T : ~(m < n)
  BY <1>2, <1>3
<1>5. n \in Nat /\ \A m \in T : m \in Nat
  OBVIOUS
<1>6. \A m \in T : n <= m
  BY <1>4, <1>5
<1> QED BY <1>6

\* A set with 0 and with the successor of each of its numbers has them all.
LEMMA Induction ==
  ASSUME NEW T, 0 \in T, \A n \in T \intersect Nat : n + 1 \in T
  PROVE  Nat \subseteq T
<1> SUFFICES ASSUME Nat \ T # {} PROVE FALSE
  OBVIOUS
<1>1. PICK n \in Nat \ T : \A m \in Nat \ T : n <= m
  BY LeastNat
<1>2. n - 1 \in Nat /\ n - 1 < n
  BY <1>1
<1>3. n - 1 \in T
  BY <1>1, <1>2
<1>4. (n - 1) + 1 \in T
  BY <1>2, <1>3
<1> QED BY <1>1, <1>4

\* What the loop over rsig has seen after n turns.
Turns(best, rsig, n) ==
  best = [i \in 0 .. n |-> IF i = 0 THEN rsig[1] ELSE Better(best[i - 1], rsig[i])]

\* The loop over rsig ends.
LEMMA TurnsExist ==
  ASSUME NEW rsig, Len(rsig) \in Nat
  PROVE  \E best : Turns(best, rsig, Len(rsig))
<1> DEFINE T == {n \in Nat : \E best : Turns(best, rsig, n)}
<1>1. 0 \in T
  <2> DEFINE first == [i \in 0 .. 0 |-> rsig[1]]
  <2>1. \A i \in 0 .. 0 : i = 0
    OBVIOUS
  <2>2. Turns(first, rsig, 0)
    BY <2>1 DEF Turns
  <2> QED BY <2>2
<1>2. ASSUME NEW n \in T \intersect Nat PROVE n + 1 \in T
  <2>1. PICK best : Turns(best, rsig, n)
    BY <1>2
  <2> DEFINE more == [i \in 0 .. n + 1 |-> IF i <= n THEN best[i] ELSE Better(best[n], rsig[n + 1])]
  <2>2. \A i \in 0 .. n : best[i] = IF i = 0 THEN rsig[1] ELSE Better(best[i - 1], rsig[i])
    BY <2>1 DEF Turns
  <2>3. ASSUME NEW i \in 0 .. n + 1 PROVE more[i] = IF i = 0 THEN rsig[1] ELSE Better(more[i - 1], rsig[i])
    <3>1. CASE i \in 0 .. n
      <4>1. more[i] = best[i] /\ (i # 0 => more[i - 1] = best[i - 1])
        BY <3>1
      <4> QED BY <2>2, <3>1, <4>1
    <3>2. CASE i = n + 1
      <4>1. n \in 0 .. n + 1 /\ n <= n /\ ~(n + 1 <= n) /\ i # 0 /\ i - 1 = n
        BY <3>2
      <4>2. more[i] = Better(best[n], rsig[n + 1]) /\ more[n] = best[n]
        BY <3>2, <4>1
      <4> QED BY <3>2, <4>1, <4>2
    <3>3. i \in 0 .. n \/ i = n + 1
      OBVIOUS
    <3> QED BY <3>1, <3>2, <3>3
  <2>4. Turns(more, rsig, n + 1)
    BY <2>3 DEF Turns
  <2> QED BY <2>4
<1>3. Nat \subseteq T
  BY <1>1, <1>2, Induction
<1> QED BY <1>3

\* The signal is what the last turn leaves.
LEMMA SignalTurns ==
  ASSUME NEW rsig, Len(rsig) \in Nat
  PROVE  \E best : Turns(best, rsig, Len(rsig)) /\ SignalOf(rsig) = best[Len(rsig)]
<1> DEFINE R(best) == best = [i \in 0 .. Len(rsig) |-> IF i = 0 THEN rsig[1] ELSE Better(best[i - 1], rsig[i])]
           f == CHOOSE best : R(best)
<1>1. \E best : R(best)
  BY TurnsExist DEF Turns
<1>2. R(f)
  BY <1>1
<1>3. SignalOf(rsig) = f[Len(rsig)]
  BY DEF SignalOf
<1> QED BY <1>2, <1>3 DEF Turns

\* best is the best of the first n antennas.
BestOf(best, rsig, n) ==
  /\ \E i \in 1 .. Len(rsig) : rsig[i] = best
  /\ \A i \in 1 .. n : \/ rsig[i].lsnr < best.lsnr
                       \/ rsig[i].lsnr = best.lsnr /\ rsig[i].rssis <= best.rssis

\* One turn takes the next antenna in.
LEMMA BetterBest ==
  ASSUME NEW rsig, Len(rsig) \in Nat, \A i \in 1 .. Len(rsig) : rsig[i] \in Signals,
         NEW n \in 1 .. Len(rsig), NEW best, BestOf(best, rsig, n - 1)
  PROVE  BestOf(Better(best, rsig[n]), rsig, n)
<1> DEFINE sig == rsig[n]
<1>1. sig \in Signals /\ best \in Signals
  BY DEF BestOf
<1>2. /\ sig.lsnr \in Int /\ sig.rssis \in Int /\ best.lsnr \in Int /\ best.rssis \in Int
      /\ sig = [lsnr |-> sig.lsnr, rssis |-> sig.rssis] /\ best = [lsnr |-> best.lsnr, rssis |-> best.rssis]
  BY <1>1, PacketsAntennasAssumption DEF Signals
<1>3. \A i \in 1 .. n - 1 : rsig[i].lsnr \in Int /\ rsig[i].rssis \in Int
  <2> SUFFICES ASSUME NEW i \in 1 .. n - 1 PROVE rsig[i].lsnr \in Int /\ rsig[i].rssis \in Int
    OBVIOUS
  <2>1. i \in 1 .. Len(rsig)
    OBVIOUS
  <2>2. rsig[i] \in Signals
    BY <2>1
  <2> QED BY <2>2, PacketsAntennasAssumption DEF Signals
<1>4. \A i \in 1 .. n : i \in 1 .. n - 1 \/ i = n
  OBVIOUS
<1>5. CASE sig.lsnr > best.lsnr
  <2>1. Better(best, sig) = sig
    BY <1>5 DEF Better
  <2>2. \A i \in 1 .. n - 1 : rsig[i].lsnr < sig.lsnr
    BY <1>2, <1>3, <1>5 DEF BestOf
  <2> QED BY <1>2, <1>4, <2>1, <2>2 DEF BestOf
<1>6. CASE ~(sig.lsnr > best.lsnr) /\ sig.lsnr = best.lsnr /\ sig.rssis > best.rssis
  <2>1. Better(best, sig) = sig
    BY <1>2, <1>6 DEF Better
  <2> QED BY <1>2, <1>3, <1>4, <1>6, <2>1 DEF BestOf
<1>7. CASE ~(sig.lsnr > best.lsnr) /\ ~(sig.lsnr = best.lsnr /\ sig.rssis > best.rssis)
  <2>1. Better(best, sig) = best
    BY <1>7 DEF Better
  <2> QED BY <1>2, <1>3, <1>4, <1>7, <2>1 DEF BestOf
<1> QED BY <1>5, <1>6, <1>7

\* Whatever antennas it lists, the signal of a packet is that of the best one.
LEMMA SignalIsBest == \A rsig \in SigLists : IsBest(SignalOf(rsig), rsig)
<1> SUFFICES ASSUME NEW rsig \in SigLists PROVE IsBest(SignalOf(rsig), rsig)
  OBVIOUS
<1> DEFINE N == Len(rsig)
<1>1. N \in Nat \ {0} /\ DOMAIN rsig = 1 .. N /\ \A i \in 1 .. N : rsig[i] \in Signals
  <2>1. PICK m \in 0 .. MaxAntennas : rsig \in [1 .. m -> Signals]
    BY DEF SigLists, BoundedSeq, SeqOf
  <2>2. m \in Nat /\ rsig \in Seq(Signals) /\ rsig # <<>>
    BY <2>1, PacketsAntennasAssumption DEF SigLists
  <2>3. Len(rsig) \in Nat \ {0} /\ DOMAIN rsig = 1 .. Len(rsig)
    BY <2>2, EmptySeq, LenProperties
  <2> QED BY <2>2, <2>3
<1>2. PICK best : Turns(best, rsig, N) /\ SignalOf(rsig) = best[N]
  BY <1>1, SignalTurns
<1> HIDE DEF N
<1> DEFINE T == {n \in Nat : n <= N => BestOf(best[n], rsig, n)}
<1>3. \A n \in 0 .. N : best[n] = IF n = 0 THEN rsig[1] ELSE Better(best[n - 1], rsig[n])
  BY <1>1, <1>2 DEF Turns
<1>4. 0 \in T
  BY <1>1, <1>3 DEF BestOf, N
<1>5. ASSUME NEW n \in T \intersect Nat PROVE n + 1 \in T
  <2> SUFFICES ASSUME n + 1 <= N PROVE BestOf(best[n + 1], rsig, n + 1)
    OBVIOUS
  <2>1. BestOf(best[n], rsig, n) /\ n + 1 \in 1 .. N /\ (n + 1) - 1 = n /\ n + 1 # 0
    BY <1>1, <1>5
  <2>2. BestOf(Better(best[n], rsig[n + 1]), rsig, n + 1)
    BY <1>1, <2>1, BetterBest DEF N
  <2> QED BY <1>1, <1>3, <2>1, <2>2
<1>6. Nat \subseteq T
  BY <1>4, <1>5, Induction
<1>7. BestOf(best[N], rsig, N)
  BY <1>1, <1>6
<1> QED BY <1>1, <1>2, <1>7 DEF BestOf, IsBest, N

\* Of a packet with any number of antennas the bridge reports the signal of one
\* with the highest SNR and, among those, the highest RSSI
\* (backend.go:546-555, which keeps the best so far).
THEOREM AntennaBest == ServerSpec => []BestAntenna
<1>1. BestAntenna
  BY SignalIsBest DEF BestAntenna
<1> QED
  BY <1>1, PTL
================================================================================
