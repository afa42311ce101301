-------------------------- MODULE SnapshotProtocol --------------------------
(***************************************************************************)
(* The two ends of the reliable snapshot protocol as pure operators:       *)
(* SnapshotPublisher (engine/boundary/src/snapshot_publisher.cpp) and      *)
(* SnapshotReceiver (src/snapshot_receiver.cpp).  The modules that extend  *)
(* this one connect them by a channel.                                     *)
(*                                                                         *)
(* A publisher is a record [baseline, baselineSeq, inFlight, nextSeq], a   *)
(* receiver a record [mirror, appliedSeq, serverTick], a block a record    *)
(* [seq, base, tick, despawns, spawns, updates, state].  The spawn record  *)
(* of entity e carries state[e], its update record the pose of state[e].   *)
(* A pose stands for the packed transform and the animation state, which   *)
(* are compared, sent and applied together.                                *)
(***************************************************************************)
EXTENDS Naturals, FiniteSets

CONSTANTS
  Entity,                     \* entity ids
  Visual,                     \* VisualStateId
  Pose,                       \* transform and animation state
  Absent,                     \* an entity without a render state
  Mode,                       \* DeltaMode
  KeyframeFallbackThreshold,  \* kKeyframeFallbackThreshold
  MaxInFlight                 \* kMaxInFlight

Render == [visual : Visual, pose : Pose]

ASSUME ProtocolAssumption ==
  /\ Absent \notin Render
  /\ Mode \in {"Reliable", "PerFrame"}
  /\ KeyframeFallbackThreshold \in Nat \ {0}
  /\ MaxInFlight \in Nat
  /\ KeyframeFallbackThreshold < MaxInFlight

NoBaseline == 0

StateMap == [Entity -> Render \cup {Absent}]

NoEntities == [e \in Entity |-> Absent]

-----------------------------------------------------------------------------
(* Diff: what changed from the map `old` to the map `new`.                 *)

Swapped(old, new, e) == old[e] # Absent /\ new[e] # Absent /\ old[e].visual # new[e].visual

Spawns(old, new) == {e \in Entity : new[e] # Absent /\ (old[e] = Absent \/ Swapped(old, new, e))}

Despawns(old, new) == {e \in Entity : old[e] # Absent /\ (new[e] = Absent \/ Swapped(old, new, e))}

Updates(old, new) ==
  {e \in Entity : /\ old[e] # Absent /\ new[e] # Absent
                  /\ ~Swapped(old, new, e)
                  /\ old[e].pose # new[e].pose}

-----------------------------------------------------------------------------
(* SnapshotPublisher.                                                      *)

FreshPublisher ==
  [baseline |-> NoEntities, baselineSeq |-> NoBaseline, inFlight |-> << >>, nextSeq |-> 1]

\* Mutant: no keyframe fallback.
NeverKeyframe(p) == FALSE

\* Mutant: the fallback fires one snapshot late.
LateKeyframe(p) ==
  /\ Mode = "Reliable"
  /\ p.baselineSeq # NoBaseline
  /\ Cardinality(DOMAIN p.inFlight) > KeyframeFallbackThreshold

ForceKeyframe(p) ==
  /\ Mode = "Reliable"
  /\ p.baselineSeq # NoBaseline
  /\ Cardinality(DOMAIN p.inFlight) >= KeyframeFallbackThreshold

(* The block BuildDelta fills for the render set `world`.                  *)
\* Mutant: a forced keyframe is still diffed against the baseline.
BlockKeepsDiff(p, world, tick) ==
  [seq |-> p.nextSeq, tick |-> tick, state |-> world,
   base |-> IF ForceKeyframe(p) THEN NoBaseline ELSE p.baselineSeq,
   despawns |-> Despawns(p.baseline, world),
   spawns |-> Spawns(p.baseline, world),
   updates |-> Updates(p.baseline, world)]

Block(p, world, tick) ==
  LET old == IF ForceKeyframe(p) THEN NoEntities ELSE p.baseline
  IN  [seq |-> p.nextSeq, tick |-> tick, state |-> world,
       base |-> IF ForceKeyframe(p) THEN NoBaseline ELSE p.baselineSeq,
       despawns |-> Despawns(old, world),
       spawns |-> Spawns(old, world),
       updates |-> Updates(old, world)]

Oldest(S) == CHOOSE s \in S : \A t \in S : s <= t

(* The history with one more state, the oldest one dropped when it is too  *)
(* long: it was not before, so the loop of the code runs at most once.     *)
Retain(inFlight, seq, world) ==
  LET grown == DOMAIN inFlight \cup {seq}
      kept == IF Cardinality(grown) > MaxInFlight THEN grown \ {Oldest(grown)} ELSE grown
  IN  [s \in kept |-> IF s = seq THEN world ELSE inFlight[s]]

(* The publisher after BuildDelta.                                         *)
AfterBuild(p, world) ==
  IF Mode = "PerFrame"
  THEN [baseline |-> world, baselineSeq |-> p.nextSeq,
        inFlight |-> p.inFlight, nextSeq |-> p.nextSeq + 1]
  ELSE [baseline |-> p.baseline, baselineSeq |-> p.baselineSeq,
        inFlight |-> Retain(p.inFlight, p.nextSeq, world), nextSeq |-> p.nextSeq + 1]

Accepted(p, seq) ==
  /\ seq # NoBaseline
  /\ p.baselineSeq # NoBaseline => seq > p.baselineSeq
  /\ seq \in DOMAIN p.inFlight

\* Mutant: the acknowledged sequence is recorded without its state.
AcknowledgeSeqOnly(p, seq) ==
  IF Accepted(p, seq)
  THEN [baseline |-> p.baseline, baselineSeq |-> seq,
        inFlight |-> [s \in {t \in DOMAIN p.inFlight : t > seq} |-> p.inFlight[s]],
        nextSeq |-> p.nextSeq]
  ELSE p

(* The publisher after Acknowledge(seq).                                   *)
Acknowledge(p, seq) ==
  IF Accepted(p, seq)
  THEN [baseline |-> p.inFlight[seq], baselineSeq |-> seq,
        inFlight |-> [s \in {t \in DOMAIN p.inFlight : t > seq} |-> p.inFlight[s]],
        nextSeq |-> p.nextSeq]
  ELSE p

-----------------------------------------------------------------------------
(* SnapshotReceiver.                                                       *)

FreshReceiver == [mirror |-> NoEntities, appliedSeq |-> NoBaseline, serverTick |-> 0]

(* The map after the records of block m: despawns, then spawns, then the   *)
(* updates of the entities that are there.                                 *)
Patch(map, m) ==
  [e \in Entity |->
    LET spawned == IF e \in m.spawns THEN m.state[e]
                   ELSE IF e \in m.despawns THEN Absent ELSE map[e]
    IN  IF e \in m.updates /\ spawned # Absent
        THEN [visual |-> spawned.visual, pose |-> m.state[e].pose]
        ELSE spawned]

Stale(r, m) == r.appliedSeq # NoBaseline /\ m.seq <= r.appliedSeq

\* Mutant: a delta is applied whatever its baseline.
AppliesAnyDelta(r, m) == ~Stale(r, m)

\* Mutant: a keyframe is applied also when it is stale.
AppliesStaleKeyframe(r, m) == m.base = NoBaseline \/ (~Stale(r, m) /\ m.base = r.appliedSeq)

Applies(r, m) == ~Stale(r, m) /\ (m.base = NoBaseline \/ m.base = r.appliedSeq)

(* The receiver after Apply(m).                                            *)
Apply(r, m) ==
  IF Applies(r, m)
  THEN [mirror |-> Patch(IF m.base = NoBaseline THEN NoEntities ELSE r.mirror, m),
        appliedSeq |-> m.seq,
        serverTick |-> IF m.tick > r.serverTick THEN m.tick ELSE r.serverTick]
  ELSE r
=============================================================================
