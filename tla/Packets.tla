------------------------------- MODULE Packets -------------------------------
(***************************************************************************)
(* The Semtech UDP packets (backend/pktfwd/structs.go) and what the packet *)
(* forwarder makes of a received one (backend/pktfwd/backend.go 434-578).  *)
(* A datagram is a record of what the code reads of it. None stands for    *)
(* the parts it is too short for.                                          *)
(***************************************************************************)
EXTENDS Integers, Sequences, SequencesExt

CONSTANTS
  MaxRXPK,             \* bound: received packets in a PUSH_DATA
  Levels, MaxAntennas, \* bounds: signal levels; antennas of a received packet
  Bad,                 \* a body that is not JSON, a rxpk that does not convert
  None

ASSUME PacketsNullAssumption == /\ None \notin 0 .. 6
                                /\ Bad \notin {"lock", "set", "ack", "stat", "rxpk"}
ASSUME PacketsAntennasAssumption == Levels \subseteq Int /\ MaxAntennas \in Nat

PushData == 0
PullData == 2
TXACK == 5

Payloads == [stat : BOOLEAN, rxpk : BoundedSeq({"rxpk", Bad}, MaxRXPK)]

\* Short of 4 bytes there is no type, of 12 no MAC; the body is what follows.
Datagrams(macs) ==
  {d \in [version : 0 .. 2, type : 0 .. 6 \union {None},
          mac : macs \union {None}, body : Payloads \union {Bad, None}] :
     (d.type = None => d.mac = None) /\ (d.mac = None => d.body = None)}

protocolSupported(v) == v \in {1, 2}

\* The type of a datagram that the server looks at, None for the others.
GetPacketType(d) == IF protocolSupported(d.version) THEN d.type ELSE None

\* What UnmarshalBinary accepts: at least 13 bytes of which the body is JSON,
\* exactly 12 bytes, and at least 12 with a body that is JSON.
UnmarshalPushData(d) == d.mac # None /\ d.body \notin {None, Bad}
UnmarshalPullData(d) == d.mac # None /\ d.body = None
UnmarshalTXACK(d) == d.mac # None /\ d.body # Bad

\* What handlePacket has a handler for that does not return an error at once.
Handled(d) == \/ GetPacketType(d) = PushData /\ UnmarshalPushData(d)
              \/ GetPacketType(d) = PullData /\ UnmarshalPullData(d)
              \/ GetPacketType(d) = TXACK /\ UnmarshalTXACK(d)

\* What a PUSH_DATA has to pass on: its stat, then its rxpks.
Messages(payload) == (IF payload.stat THEN <<"stat">> ELSE <<>>) \o payload.rxpk

-----------------------------------------------------------------------------
(* The signal of a received packet: that of its best antenna *)

Signals == [lsnr : Levels, rssis : Levels]
SigLists == BoundedSeq(Signals, MaxAntennas) \ {<<>>}

\* Mutant: the RSSI is not replaced with the SNR.
BetterSNR(best, sig) ==
  IF sig.lsnr > best.lsnr THEN [best EXCEPT !.lsnr = sig.lsnr]
  ELSE IF sig.lsnr = best.lsnr /\ sig.rssis > best.rssis THEN [best EXCEPT !.rssis = sig.rssis]
  ELSE best

\* One turn of the loop over rxpk.RSig.
Better(best, sig) ==
  IF sig.lsnr > best.lsnr THEN sig
  ELSE IF sig.lsnr = best.lsnr /\ sig.rssis > best.rssis THEN [best EXCEPT !.rssis = sig.rssis]
  ELSE best

\* The signal after each turn; it starts as that of the first antenna.
SignalOf(rsig) ==
  LET best[i \in 0 .. Len(rsig)] == IF i = 0 THEN rsig[1] ELSE Better(best[i - 1], rsig[i])
  IN  best[Len(rsig)]

\* The antenna with the highest SNR, and of those the one with the highest RSSI.
IsBest(best, rsig) ==
  /\ \E i \in DOMAIN rsig : rsig[i] = best
  /\ \A i \in DOMAIN rsig : \/ rsig[i].lsnr < best.lsnr
                            \/ rsig[i].lsnr = best.lsnr /\ rsig[i].rssis <= best.rssis
=============================================================================
