----------------------------- MODULE SourceLease -----------------------------
(***************************************************************************)
(* What sourceLocks promises (backend/pktfwd/security.go): a source that   *)
(* is accepted for a gateway holds it for a session, every accepted packet *)
(* of the holder renews the lease, and nobody else is accepted meanwhile.  *)
(***************************************************************************)
EXTENDS Naturals

CONSTANTS
  Macs,     \* gateways
  Sources,  \* what packets of a gateway may come from
  Session,  \* the length of a lease, in ticks of the clock
  Nobody, NoReply

VARIABLES
  owner,  \* per gateway, the source that holds it
  left,   \* per gateway, what is left of the lease
  reply   \* the last call: the gateway, the source, and whether it was accepted

vars == <<owner, left, reply>>

Init ==
  /\ owner = [m \in Macs |-> Nobody]
  /\ left = [m \in Macs |-> 0]
  /\ reply = NoReply

Accept(m, s) ==
  /\ owner[m] \in {s, Nobody}
  /\ owner' = [owner EXCEPT ![m] = s]
  /\ left' = [left EXCEPT ![m] = Session]
  /\ reply' = [mac |-> m, source |-> s, ok |-> TRUE]

Refuse(m, s) ==
  /\ owner[m] \notin {s, Nobody}
  /\ reply' = [mac |-> m, source |-> s, ok |-> FALSE]
  /\ UNCHANGED <<owner, left>>

Tick ==
  /\ left' = [m \in Macs |-> IF left[m] = 0 THEN 0 ELSE left[m] - 1]
  /\ owner' = [m \in Macs |-> IF left[m] \in {0, 1} THEN Nobody ELSE owner[m]]
  /\ UNCHANGED reply

Next == (\E m \in Macs, s \in Sources : Accept(m, s) \/ Refuse(m, s)) \/ Tick

Spec == Init /\ [][Next]_vars
=============================================================================
