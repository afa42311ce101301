------------------------ MODULE SnapshotReplication -------------------------
(***************************************************************************)
(* A publisher and a receiver over a datagram path that may lose, repeat,  *)
(* delay and reorder whatever is sent: a block or an acknowledgement, once *)
(* sent, may be delivered at any later time, any number of times, or never.*)
(* Every latest-wins channel of the boundary (the triple buffer, the       *)
(* datagram transport with its high-water mark) is a special case.         *)
(***************************************************************************)
EXTENDS SnapshotProtocol

CONSTANT MaxSeq    \* bound: the blocks built

ASSUME MaxSeqIsNat == MaxSeq \in Nat

VARIABLES
  pub,     \* the SnapshotPublisher
  rx,      \* the SnapshotReceiver
  blocks,  \* the blocks sent
  acks,    \* the sequences acknowledged
  tick,    \* the simulation tick of the last block
  built,   \* history: the render set each sequence was built from
  heldEver \* history: the highest sequence the receiver ever applied

vars == <<pub, rx, blocks, acks, tick, built, heldEver>>

Init ==
  /\ pub = FreshPublisher
  /\ rx = FreshReceiver
  /\ blocks = {}
  /\ acks = {}
  /\ tick = 0
  /\ built = [s \in 0 .. MaxSeq |-> NoEntities]
  /\ heldEver = 0

(* PublishTo: build against the current baseline and send.  The world may  *)
(* have changed in any way since the last tick.                            *)
Publish(world) ==
  /\ pub.nextSeq <= MaxSeq
  /\ tick' = tick + 1
  /\ blocks' = blocks \cup {Block(pub, world, tick + 1)}
  /\ built' = [built EXCEPT ![pub.nextSeq] = world]
  /\ pub' = AfterBuild(pub, world)
  /\ UNCHANGED <<rx, acks, heldEver>>

(* The view takes a block from the transport, applies it, and pushes an    *)
(* acknowledgement if it was applied.                                      *)
Deliver(m) ==
  /\ rx' = Apply(rx, m)
  /\ acks' = IF Applies(rx, m) THEN acks \cup {m.seq} ELSE acks
  /\ heldEver' = IF Applies(rx, m) /\ m.seq > heldEver THEN m.seq ELSE heldEver
  /\ UNCHANGED <<pub, blocks, tick, built>>

(* The simulation drains an acknowledgement at the start of a tick.        *)
ReceiveAck(seq) ==
  /\ pub' = Acknowledge(pub, seq)
  /\ UNCHANGED <<rx, blocks, acks, tick, built, heldEver>>

(* SnapshotReceiver::Reset, a view that rejoins with an empty mirror.      *)
ReceiverReset ==
  /\ rx' = FreshReceiver
  /\ UNCHANGED <<pub, blocks, acks, tick, built, heldEver>>

Next ==
  \/ \E world \in StateMap : Publish(world)
  \/ \E m \in blocks : Deliver(m)
  \/ \E seq \in acks : ReceiveAck(seq)
  \/ ReceiverReset

Spec == Init /\ [][Next]_vars

-----------------------------------------------------------------------------
Sequence == 1 .. MaxSeq

History == UNION {[S -> StateMap] : S \in SUBSET Sequence}

BlockType ==
  [seq : Sequence, base : 0 .. MaxSeq, tick : Nat, despawns : SUBSET Entity,
   spawns : SUBSET Entity, updates : SUBSET Entity, state : StateMap]

TypeOK ==
  /\ pub \in [baseline : StateMap, baselineSeq : 0 .. MaxSeq, inFlight : History,
              nextSeq : 1 .. MaxSeq + 1]
  /\ rx \in [mirror : StateMap, appliedSeq : 0 .. MaxSeq, serverTick : Nat]
  /\ blocks \subseteq BlockType
  /\ acks \subseteq Sequence
  /\ tick \in Nat
  /\ built \in [0 .. MaxSeq -> StateMap]
  /\ heldEver \in 0 .. MaxSeq

(* The mirror is exactly the render set the publisher built the applied    *)
(* sequence from, whatever was lost, repeated, delayed or reordered on the *)
(* way and whichever baselines the deltas in between were taken against.   *)
MirrorFidelity == rx.mirror = built[rx.appliedSeq]

(* Without a restart of the view, neither the mirror nor the server time   *)
(* it follows ever goes back, also when an old keyframe arrives late.      *)
NeverBackward ==
  [][~ReceiverReset => rx'.appliedSeq >= rx.appliedSeq /\ rx'.serverTick >= rx.serverTick]_vars

(* The keyframe fallback: a delta is only ever taken against a state the   *)
(* view has held, and never more than the threshold ahead of it.  So once  *)
(* that many blocks are newer than anything the view ever applied, every   *)
(* further block is a keyframe it can apply.  (A PerFrame publisher has no   *)
(* fallback: it is meant for a lossless path.)                             *)
StallBounded ==
  Mode = "Reliable" => \A m \in blocks : m.base # NoBaseline =>
    m.base <= heldEver /\ m.seq <= heldEver + KeyframeFallbackThreshold

(* The newest keyframe is applied whenever it is delivered, whatever the   *)
(* view holds: it is the way out of any stall.                             *)
NewestKeyframeApplies ==
  \A m \in blocks : m.base = NoBaseline /\ m.seq + 1 = pub.nextSeq =>
    Apply(rx, m).appliedSeq = m.seq /\ Apply(rx, m).mirror = m.state
=============================================================================
