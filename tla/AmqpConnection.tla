---------------------------- MODULE AmqpConnection ----------------------------
(***************************************************************************)
(* The connection of the AMQP backend and what is published over it        *)
(* (backend/amqp/amqp.go): autoReconnect makes the connection and waits    *)
(* until it is lost; Publish puts messages into a buffer, from which one   *)
(* goroutine, started by the first of them, publishes on a channel of its  *)
(* own.  Both learn of a loss from NotifyClose, which tells nothing of a   *)
(* connection or channel that was lost before the call.                    *)
(*                                                                         *)
(* The first connection has been made (until then every caller waits).     *)
(***************************************************************************)
EXTENDS Naturals

CONSTANTS
  BufferSize, \* how many messages wait to be published
  FaultSets   \* what may happen, see FaultKinds: a behaviour keeps to one of the sets

\* "rush": a key is unsubscribed before its consumer is there, or while the
\* connection is away; "early": the
\* connection is lost while a channel is set up; "blind": or while the
\* connection is; "cut": or while a key is unsubscribed; "giveup": it stays away
\* for longer than a goroutine retries; "down": a key is subscribed while it is
\* away.  "subscribe" and "publish" are no failures: keys are subscribed,
\* messages published; the two share nothing but the connection.
FaultKinds == {"rush", "early", "blind", "cut", "giveup", "down", "subscribe", "publish"}

ASSUME AmqpFaultsAssumption == FaultSets \subseteq SUBSET FaultKinds
ASSUME BufferSizeAssumption == BufferSize \in Nat \ {0}

VARIABLES
  online,    \* whether the connection is there
  monitor,   \* where autoReconnect is
  publisher, \* where the goroutine that publishes is
  open,      \* whether its channel is open
  buffered,  \* how many messages c.publish.ch holds
  faults     \* the set of this behaviour

publishVars == <<publisher, open, buffered>>
connectionVars == <<online, monitor, publishVars>>

ConnectionInit ==
  /\ online = TRUE
  /\ monitor = "watch"
  /\ publisher = "none" /\ open = FALSE /\ buffered = 0
  /\ faults \in FaultSets

\* Ten attempts at the connection, or at a channel of it, have failed: which
\* they do when nobody connects any more.
Hopeless == ~online /\ ("giveup" \in faults \/ monitor = "over")

-----------------------------------------------------------------------------
(* autoReconnect *)

\* The connection is made, the exchange declared, NotifyClose called: one step, as
\* a loss in between differs from one after it in the missing notification only,
\* which is Drop's "blind" (an exchange that cannot be declared is tried again).
Connect ==
  /\ monitor = "dial"
  /\ online' = TRUE
  /\ monitor' = "watch"
  /\ UNCHANGED <<publishVars, faults>>

StopConnecting ==
  /\ monitor = "dial"
  /\ "giveup" \in faults
  /\ monitor' = "over"
  /\ UNCHANGED <<online, publishVars, faults>>

\* The connection is lost, and the channels with it.  If that was before
\* autoReconnect called NotifyClose (however late it does), its channel is closed
\* at once, without an error, which it takes for Disconnect.
Drop ==
  /\ online
  /\ "early" \in faults \/ publisher # "got"
  /\ online' = FALSE
  /\ open' = FALSE
  /\ \/ monitor' = "dial"
     \/ "blind" \in faults /\ monitor' = "over"
  /\ UNCHANGED <<publisher, buffered, faults>>

-----------------------------------------------------------------------------
(* Publish and its goroutine *)

\* The first call starts the goroutine; what does not fit is dropped.
Publish ==
  /\ "publish" \in faults
  /\ publisher' = IF publisher = "none" THEN "dial" ELSE publisher
  /\ buffered' = IF buffered < BufferSize THEN buffered + 1 ELSE buffered
  /\ UNCHANGED <<online, monitor, open, faults>>

GetChannel ==
  /\ publisher = "dial"
  /\ online
  /\ publisher' = "got" /\ open' = TRUE
  /\ UNCHANGED <<online, monitor, buffered, faults>>

StopPublishing ==
  /\ publisher = "dial"
  /\ Hopeless
  /\ publisher' = "over"
  /\ UNCHANGED <<online, monitor, open, buffered, faults>>

\* NotifyClose, which on a closed channel makes `<-ch` ready without an error.
Listen ==
  /\ publisher = "got"
  /\ publisher' = IF open THEN "handle" ELSE "deaf"
  /\ UNCHANGED <<online, monitor, open, buffered, faults>>

\* A message is published, or lost with the channel.
Take ==
  /\ publisher \in {"handle", "deaf"}
  /\ buffered > 0
  /\ buffered' = buffered - 1
  /\ UNCHANGED <<online, monitor, publisher, open, faults>>

\* Mutant: an error of the channel ends the goroutine, which nobody starts again.
ChannelClosedEnds ==
  /\ publisher \in {"handle", "deaf"} /\ ~open
  /\ publisher' = "over"
  /\ UNCHANGED <<online, monitor, open, buffered, faults>>

\* The channel was closed: with an error, back to c.channel(); without one the
\* goroutine ends.
ChannelClosed ==
  /\ \/ publisher = "handle" /\ ~open /\ publisher' = "dial"
     \/ publisher = "deaf" /\ publisher' = "over"
  /\ UNCHANGED <<online, monitor, open, buffered, faults>>

-----------------------------------------------------------------------------
ConnectionStep == Connect \/ StopConnecting
PublisherStep == GetChannel \/ StopPublishing \/ Listen \/ Take \/ ChannelClosed

\* A full buffer comes to have room again: otherwise every later message is
\* dropped, without an error, since only the first Publish starts the goroutine
\* that empties it (amqp.go:323-332).  That goroutine ends when its channel is
\* lost before NotifyClose is called (278-288, 307-309), and when the connection
\* does not come back in time, or at all since autoReconnect was told nothing
\* of its loss (229-234).
BufferDrains ==
  faults \intersect {"early", "blind", "giveup"} = {} /\ buffered = BufferSize ~> buffered < BufferSize

ConnectionTypeOK ==
  /\ online \in BOOLEAN
  /\ monitor \in {"dial", "watch", "over"}
  /\ publisher \in {"none", "dial", "got", "handle", "deaf", "over"}
  /\ open \in BOOLEAN
  /\ buffered \in 0..BufferSize
  /\ faults \in FaultSets
=============================================================================
