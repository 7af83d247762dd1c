----------------------------- MODULE SourceLocks -----------------------------
(***************************************************************************)
(* sourceLocks (backend/pktfwd/security.go): the source address that was   *)
(* last accepted for each gateway, with the time of its last packet. Set   *)
(* and the cleanup goroutine run under c.mu, so each is one step. The      *)
(* packet forwarder keeps three of these, for PUSH_DATA, PULL_DATA and     *)
(* TX_ACK packets, that share nothing.                                     *)
(***************************************************************************)
EXTENDS Naturals

CONSTANTS
  Macs,       \* gateways
  IPs, Ports, \* of the addresses packets come from
  withPort,   \* whether the port counts too
  cacheTime,  \* how long a source is kept, in ticks of the clock
  NoEntry, Nobody, NoReply

Addrs == [ip : IPs, port : Ports]

ASSUME WithPortAssumption == withPort \in BOOLEAN
\* Without a cache time every source is accepted and no goroutine cleans up.
ASSUME CacheTimeAssumption == cacheTime \in Nat \ {0}

\* Time is told apart up to one tick over cacheTime.
Ages == 0 .. cacheTime + 1
Entries == [addr : Addrs, age : Ages]
Replies == [mac : Macs, addr : Addrs, ok : BOOLEAN]

\* What the lock compares of an address.
Key(a) == IF withPort THEN a ELSE a.ip
Keys == {Key(a) : a \in Addrs}

ASSUME LocksNullAssumption == /\ NoEntry \notin Entries
                              /\ Nobody \notin Keys
                              /\ NoReply \notin Replies

VARIABLES
  sources,  \* c.sources, with the time since lastSeen
  reply     \* what the last call of Set was about and whether it passed

vars == <<sources, reply>>

Init == sources = [m \in Macs |-> NoEntry] /\ reply = NoReply

\* An address that differs is refused while time.Since(lastSeen) < cacheTime.
Consistent(e, a) == (withPort => e.addr.port = a.port) /\ e.addr.ip = a.ip
Admits(e, a) == e # NoEntry /\ e.age < cacheTime => Consistent(e, a)
Passes(m, a) == Admits(sources[m], a)

Answer(m, a, ok) == reply' = [mac |-> m, addr |-> a, ok |-> ok]

Accept(m, a) ==
  /\ Passes(m, a)
  /\ sources' = [sources EXCEPT ![m] = [addr |-> a, age |-> 0]]
  /\ Answer(m, a, TRUE)

Refuse(m, a) ==
  /\ ~Passes(m, a)
  /\ Answer(m, a, FALSE)
  /\ UNCHANGED sources

Older(e) == IF e = NoEntry \/ e.age > cacheTime THEN e ELSE [e EXCEPT !.age = @ + 1]

Tick ==
  /\ sources' = [m \in Macs |-> Older(sources[m])]
  /\ UNCHANGED reply

\* Mutant: all entries are deleted.
CleanupAll == sources' = [m \in Macs |-> NoEntry] /\ UNCHANGED reply

\* The ticker of newSourceLocks may find the entries at any age.
Cleanup ==
  /\ sources' = [m \in Macs |->
       IF sources[m] # NoEntry /\ sources[m].age > cacheTime THEN NoEntry ELSE sources[m]]
  /\ UNCHANGED reply

Next ==
  \/ \E m \in Macs, a \in Addrs : Accept(m, a) \/ Refuse(m, a)
  \/ Tick
  \/ Cleanup

Spec == Init /\ [][Next]_vars

-----------------------------------------------------------------------------
(* Properties *)

TypeOK ==
  /\ sources \in [Macs -> Entries \union {NoEntry}]
  /\ reply \in Replies \union {NoReply}

\* The lease an entry stands for: one that is over its time is as good as none.
Holds(e) == e # NoEntry /\ e.age < cacheTime
OwnerOf(e) == IF Holds(e) THEN Key(e.addr) ELSE Nobody
LeftOf(e) == IF Holds(e) THEN cacheTime - e.age ELSE 0
ReplyOf(r) == IF r = NoReply THEN NoReply
              ELSE [mac |-> r.mac, source |-> Key(r.addr), ok |-> r.ok]

Lease == INSTANCE SourceLease WITH
  Sources <- Keys,
  Session <- cacheTime,
  owner <- [m \in Macs |-> OwnerOf(sources[m])],
  left <- [m \in Macs |-> LeftOf(sources[m])],
  reply <- ReplyOf(reply)

\* The map, its timestamps and the cleanup give each gateway's source a lease
\* of cacheTime after its last accepted packet, no shorter (the cleanup never
\* ends one) and no longer (refused packets do not renew it): security.go:46-61.
IsLease == Lease!Spec
=============================================================================
