--------------------------- MODULE StatusChannel ---------------------------
(***************************************************************************)
(* What the notification worker promises the subscribers of the channel.   *)
(*                                                                         *)
(* It works each partition off in order.  A record it cannot handle is     *)
(* skipped, alone.  When it loses its place, in all partitions or, for the *)
(* record it is just at, in one after the others, it begins again where it *)
(* had last kept it; what it has kept is never given up, and never runs    *)
(* ahead of what it has worked off.                                        *)
(***************************************************************************)
EXTENDS Integers, Sequences

CONSTANT Partitions   \* partitions of the topic

VARIABLES
  produced,   \* records in each partition
  cursor,     \* records of each partition that are worked off
  kept,       \* the place a restart goes back to
  channel     \* the <<partition, offset>> published, in order

channelVars == <<produced, cursor, kept, channel>>

Nowhere == [p \in Partitions |-> 0]

ChannelInit ==
  /\ produced = Nowhere /\ cursor = Nowhere /\ kept = Nowhere
  /\ channel = <<>>

Produce(p) ==
  /\ produced' = [produced EXCEPT ![p] = @ + 1]
  /\ UNCHANGED <<cursor, kept, channel>>

Advance(p) ==
  /\ cursor[p] < produced[p]
  /\ cursor' = [cursor EXCEPT ![p] = @ + 1]
  /\ UNCHANGED <<produced, kept>>

Bridge(p) == Advance(p) /\ channel' = Append(channel, <<p, cursor[p]>>)

Skip(p) == Advance(p) /\ UNCHANGED channel

Keep == kept' = cursor /\ UNCHANGED <<produced, cursor, channel>>

Restart(S) ==
  /\ cursor' = [p \in Partitions |-> IF p \in S THEN kept[p] ELSE cursor[p]]
  /\ UNCHANGED <<produced, kept, channel>>

ChannelNext ==
  \/ \E p \in Partitions : Produce(p) \/ Bridge(p) \/ Skip(p)
  \/ \E S \in SUBSET Partitions : Restart(S)
  \/ Keep

ChannelSpec == ChannelInit /\ [][ChannelNext]_channelVars
=============================================================================
