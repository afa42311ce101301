--------------------------- MODULE SnapshotProofs ----------------------------
(***************************************************************************)
(* The snapshot protocol is safe for any set of entities, any number of    *)
(* snapshots, any threshold and history length, and both delta modes.      *)
(* The argument: every block carries exactly the difference between two    *)
(* entries of the history `built`, and both ends only ever hold entries of *)
(* that history under their own numbers; so a block applied on its own     *)
(* baseline yields the entry it was built from.                            *)
(*                                                                         *)
(* The last part is about the session, whose numbers are renamed at every  *)
(* step: there is no history to compare with there, so the invariant says  *)
(* that a number both ends know stands for the same state at both (Agreed),*)
(* and that the renaming keeps their order and so mixes no two of them up. *)
(***************************************************************************)
EXTENDS SnapshotReplication, SnapshotSession, FiniteSetTheorems, SequenceTheorems, TLAPS

-----------------------------------------------------------------------------
(* Lemmas about Diff, Apply and the history.                               *)

\* Applying the difference of two maps to the first one yields the second one:
\* the order of the records (despawns, spawns, updates) is what makes a visual
\* swap, which is in two of the lists, come out right.
LEMMA PatchUndoesDiff ==
  ASSUME NEW old \in StateMap, NEW new \in StateMap, NEW m,
         m.state = new,
         m.despawns = Despawns(old, new),
         m.spawns = Spawns(old, new),
         m.updates = Updates(old, new)
  PROVE  Patch(old, m) = new
<1> DEFINE P == Patch(old, m)
<1>1. P = [e \in Entity |-> P[e]] /\ new = [e \in Entity |-> new[e]]
  BY DEF Patch, StateMap
<1>2. ASSUME NEW e \in Entity
      PROVE  P[e] = new[e]
  <2>1. old[e] \in Render \cup {Absent} /\ new[e] \in Render \cup {Absent}
    BY DEF StateMap
  <2>2. CASE new[e] = Absent
    BY <2>2 DEF Patch, Despawns, Spawns, Updates, Swapped
  <2>3. CASE new[e] # Absent /\ (old[e] = Absent \/ Swapped(old, new, e))
    BY <2>3 DEF Patch, Despawns, Spawns, Updates
  <2>4. CASE new[e] # Absent /\ old[e] # Absent /\ ~Swapped(old, new, e)
    <3>1. old[e] \in Render /\ new[e] \in Render /\ old[e].visual = new[e].visual
      BY <2>1, <2>4 DEF Swapped
    <3>2. e \notin m.despawns /\ e \notin m.spawns
      BY <2>4 DEF Despawns, Spawns
    <3>3. e \in m.updates <=> old[e].pose # new[e].pose
      BY <2>4 DEF Updates
    <3>4. P[e] = IF e \in m.updates
                 THEN [visual |-> old[e].visual, pose |-> new[e].pose] ELSE old[e]
      BY <2>4, <3>2 DEF Patch
    <3>5. QED
      BY <3>1, <3>3, <3>4 DEF Render
  <2>5. QED
    BY <2>2, <2>3, <2>4
<1>3. QED
  BY <1>1, <1>2

\* The empty render set is a render set.
LEMMA NoEntitiesType == NoEntities \in StateMap
BY DEF NoEntities, StateMap

\* The oldest number of a window of the history is its lower end.
LEMMA OldestOfWindow ==
  ASSUME NEW lo \in Nat, NEW hi \in Nat, lo <= hi
  PROVE  Oldest(lo .. hi) = lo
<1>1. lo \in lo .. hi /\ \A t \in lo .. hi : lo <= t
  OBVIOUS
<1>2. \A s \in lo .. hi : (\A t \in lo .. hi : s <= t) => s = lo
  BY <1>1
<1>3. QED
  BY <1>1, <1>2 DEF Oldest

-----------------------------------------------------------------------------
(* The inductive invariant.                                                *)

\* What the publisher keeps are entries of the history under their numbers.
PublisherInv ==
  /\ built[0] = NoEntities
  /\ pub.baselineSeq < pub.nextSeq
  /\ pub.baseline = built[pub.baselineSeq]
  /\ Mode = "PerFrame" => DOMAIN pub.inFlight = {}
  /\ \A s \in DOMAIN pub.inFlight :
       pub.baselineSeq < s /\ s < pub.nextSeq /\ pub.inFlight[s] = built[s]

\* A block is the difference between two entries of the history before `next`.
IsDiff(m, hist, next) ==
  /\ m.base < m.seq
  /\ m.seq < next
  /\ m.state = hist[m.seq]
  /\ m.despawns = Despawns(hist[m.base], m.state)
  /\ m.spawns = Spawns(hist[m.base], m.state)
  /\ m.updates = Updates(hist[m.base], m.state)

BlocksInv == \A m \in blocks : IsDiff(m, built, pub.nextSeq)

ViewInv ==
  /\ MirrorFidelity
  /\ rx.appliedSeq <= heldEver
  /\ heldEver < pub.nextSeq
  /\ \A a \in acks : a <= heldEver

\* The history in flight is the window of the numbers since the baseline, cut
\* off at its oldest end by the bound on its length.
Window(lo) ==
  /\ lo > pub.baselineSeq
  /\ lo <= pub.nextSeq
  /\ DOMAIN pub.inFlight = lo .. pub.nextSeq - 1
  /\ pub.nextSeq - lo <= MaxInFlight
  /\ lo > pub.baselineSeq + 1 => pub.nextSeq - lo = MaxInFlight

StallInv ==
  Mode = "Reliable" =>
    /\ pub.baselineSeq <= heldEver
    /\ \E lo \in Nat : Window(lo)
    /\ StallBounded

IInv == TypeOK /\ PublisherInv /\ BlocksInv /\ ViewInv /\ StallInv

\* The invariant holds before the first block.
LEMMA InitInv == Init => IInv
<1> SUFFICES ASSUME Init
             PROVE  IInv
  OBVIOUS
<1> USE ProtocolAssumption, MaxSeqIsNat, NoEntitiesType DEF Init
<1>1. DOMAIN pub.inFlight = {}
  BY DEF FreshPublisher
<1>2. pub.inFlight \in History
  <2>1. pub.inFlight \in [{} -> StateMap]
    BY DEF FreshPublisher
  <2>2. QED
    BY <2>1 DEF History, Sequence
<1>3. TypeOK
  BY <1>2 DEF TypeOK, FreshPublisher, FreshReceiver, NoBaseline, Sequence
<1>4. PublisherInv
  BY <1>1 DEF PublisherInv, FreshPublisher, NoBaseline
<1>5. BlocksInv
  BY DEF BlocksInv
<1>6. ViewInv
  BY DEF ViewInv, MirrorFidelity, FreshPublisher, FreshReceiver, NoBaseline
<1>7. StallInv
  <2>1. Window(1)
    BY <1>1 DEF Window, FreshPublisher, NoBaseline
  <2>2. QED
    BY <2>1 DEF StallInv, StallBounded, FreshPublisher, NoBaseline
<1>8. QED
  BY <1>3, <1>4, <1>5, <1>6, <1>7 DEF IInv

-----------------------------------------------------------------------------
(* Publish.                                                                *)

\* Retain adds the new state and keeps only entries that were there.
LEMMA RetainKeeps ==
  ASSUME NEW f, NEW n \in Sequence, NEW world \in StateMap,
         DOMAIN f \subseteq Sequence,
         \A s \in DOMAIN f : f[s] \in StateMap
  PROVE  /\ Retain(f, n, world) \in History
         /\ DOMAIN Retain(f, n, world) \subseteq DOMAIN f \cup {n}
         /\ \A s \in DOMAIN Retain(f, n, world) :
              Retain(f, n, world)[s] = IF s = n THEN world ELSE f[s]
<1> DEFINE grown == DOMAIN f \cup {n}
           kept == IF Cardinality(grown) > MaxInFlight THEN grown \ {Oldest(grown)} ELSE grown
<1>1. Retain(f, n, world) = [s \in kept |-> IF s = n THEN world ELSE f[s]]
  BY DEF Retain
<1>2. kept \in SUBSET Sequence /\ kept \subseteq DOMAIN f \cup {n}
  OBVIOUS
<1> HIDE DEF kept
<1>3. Retain(f, n, world) \in [kept -> StateMap]
  BY <1>1, <1>2
<1>4. QED
  BY <1>1, <1>2, <1>3 DEF History

\* The window moves by one, and its oldest number leaves it when it is full.
LEMMA RetainWindow ==
  ASSUME NEW lo \in Nat, NEW n \in Nat, NEW f, NEW world, lo <= n,
         DOMAIN f = lo .. n - 1, n - lo <= MaxInFlight
  PROVE  DOMAIN Retain(f, n, world) = (IF n - lo = MaxInFlight THEN lo + 1 ELSE lo) .. n
<1>1. DOMAIN f \cup {n} = lo .. n
  OBVIOUS
<1>2. Cardinality(lo .. n) = n - lo + 1
  BY FS_Interval
<1>3. Oldest(lo .. n) = lo
  BY OldestOfWindow
<1>4. (lo .. n) \ {lo} = lo + 1 .. n
  OBVIOUS
<1>5. n - lo + 1 > MaxInFlight <=> n - lo = MaxInFlight
  BY ProtocolAssumption
<1>6. QED
  BY <1>1, <1>2, <1>3, <1>4, <1>5 DEF Retain

\* The block built is the difference between two entries of the new history.
LEMMA PublishBlock ==
  ASSUME IInv, NEW world \in StateMap, Publish(world)
  PROVE  LET m == Block(pub, world, tick + 1)
         IN  /\ m \in BlockType
             /\ m.seq = pub.nextSeq
             /\ m.base \in {NoBaseline, pub.baselineSeq}
             /\ IsDiff(m, built', pub'.nextSeq)
<1> DEFINE m == Block(pub, world, tick + 1)
           old == IF ForceKeyframe(pub) THEN NoEntities ELSE pub.baseline
<1> USE ProtocolAssumption, MaxSeqIsNat
<1>1. /\ pub.nextSeq \in Sequence /\ pub.baselineSeq \in 0 .. MaxSeq
      /\ pub.baselineSeq < pub.nextSeq /\ tick \in Nat
      /\ built \in [0 .. MaxSeq -> StateMap]
  BY DEF IInv, TypeOK, PublisherInv, Publish, Sequence
<1>2. /\ m.seq = pub.nextSeq /\ m.tick = tick + 1 /\ m.state = world
      /\ m.base = (IF ForceKeyframe(pub) THEN NoBaseline ELSE pub.baselineSeq)
      /\ m.despawns = Despawns(old, world)
      /\ m.spawns = Spawns(old, world)
      /\ m.updates = Updates(old, world)
  BY DEF Block
<1>3. old = built[m.base]
  BY <1>2 DEF IInv, PublisherInv, NoBaseline
<1>4. built' = [built EXCEPT ![pub.nextSeq] = world]
  BY DEF Publish
<1>5. built'[m.base] = built[m.base] /\ built'[m.seq] = world /\ m.base < m.seq
  BY <1>1, <1>2, <1>4 DEF NoBaseline, Sequence
<1>6. pub.nextSeq < pub'.nextSeq
  BY <1>1 DEF Publish, AfterBuild, Sequence, IInv, TypeOK
<1>7. IsDiff(m, built', pub'.nextSeq)
  <2>1. m.state = built'[m.seq] /\ m.seq < pub'.nextSeq /\ m.base < m.seq
    BY <1>2, <1>5, <1>6
  <2>2. /\ m.despawns = Despawns(built'[m.base], m.state)
        /\ m.spawns = Spawns(built'[m.base], m.state)
        /\ m.updates = Updates(built'[m.base], m.state)
    BY <1>2, <1>3, <1>5
  <2> HIDE DEF m
  <2>3. QED
    BY <2>1, <2>2 DEF IsDiff
<1>8. m \in BlockType
  <2>1. m.despawns \subseteq Entity /\ m.spawns \subseteq Entity /\ m.updates \subseteq Entity
    BY <1>2 DEF Despawns, Spawns, Updates
  <2>2. QED
    BY <1>1, <1>2, <2>1 DEF Block, BlockType, NoBaseline
<1>9. QED
  BY <1>2, <1>7, <1>8

\* A block built from the baseline keeps it.
LEMMA PublishInv ==
  ASSUME IInv, NEW world \in StateMap, Publish(world)
  PROVE  IInv'
<1> DEFINE m == Block(pub, world, tick + 1)
           n == pub.nextSeq
           grown == Retain(pub.inFlight, n, world)
<1> USE ProtocolAssumption, MaxSeqIsNat
<1>1. /\ n \in Sequence /\ pub.baselineSeq \in 0 .. MaxSeq /\ pub.baselineSeq < n
      /\ tick \in Nat /\ heldEver \in 0 .. MaxSeq /\ heldEver < n
      /\ built \in [0 .. MaxSeq -> StateMap]
      /\ rx \in [mirror : StateMap, appliedSeq : 0 .. MaxSeq, serverTick : Nat]
      /\ rx.appliedSeq <= heldEver
      /\ pub \in [baseline : StateMap, baselineSeq : 0 .. MaxSeq, inFlight : History,
                  nextSeq : 1 .. MaxSeq + 1]
  BY DEF IInv, TypeOK, PublisherInv, ViewInv, Publish, Sequence
<1>2. /\ DOMAIN pub.inFlight \subseteq Sequence
      /\ \A s \in DOMAIN pub.inFlight : pub.inFlight[s] \in StateMap
  BY <1>1 DEF History
<1>3. /\ grown \in History
      /\ DOMAIN grown \subseteq DOMAIN pub.inFlight \cup {n}
      /\ \A s \in DOMAIN grown : grown[s] = IF s = n THEN world ELSE pub.inFlight[s]
  BY <1>1, <1>2, RetainKeeps
<1>4. /\ tick' = tick + 1 /\ blocks' = blocks \cup {m}
      /\ built' = [built EXCEPT ![n] = world]
      /\ pub' = AfterBuild(pub, world)
      /\ UNCHANGED <<rx, acks, heldEver>>
  BY DEF Publish
<1>5. /\ m \in BlockType /\ m.seq = n /\ m.base \in {NoBaseline, pub.baselineSeq}
      /\ IsDiff(m, built', pub'.nextSeq)
  BY PublishBlock
<1>6. /\ built' \in [0 .. MaxSeq -> StateMap] /\ built'[n] = world
      /\ \A s \in 0 .. MaxSeq : s # n => built'[s] = built[s]
  BY <1>1, <1>4 DEF Sequence
<1> HIDE DEF m, grown
<1>7. pub' = IF Mode = "PerFrame"
             THEN [baseline |-> world, baselineSeq |-> n, inFlight |-> pub.inFlight, nextSeq |-> n + 1]
             ELSE [baseline |-> pub.baseline, baselineSeq |-> pub.baselineSeq, inFlight |-> grown,
                   nextSeq |-> n + 1]
  BY <1>4 DEF AfterBuild, grown
<1>8. TypeOK'
  BY <1>1, <1>3, <1>4, <1>5, <1>6, <1>7 DEF IInv, TypeOK, Sequence
<1>9. PublisherInv'
  <2>1. built'[0] = NoEntities
    BY <1>1, <1>6 DEF IInv, PublisherInv, Sequence
  <2>2. pub'.baselineSeq < pub'.nextSeq /\ pub'.baseline = built'[pub'.baselineSeq]
    BY <1>1, <1>6, <1>7 DEF IInv, PublisherInv, Sequence
  <2>3. Mode = "PerFrame" => DOMAIN pub'.inFlight = {}
    BY <1>7 DEF IInv, PublisherInv
  <2>4. \A s \in DOMAIN pub'.inFlight :
          pub'.baselineSeq < s /\ s < pub'.nextSeq /\ pub'.inFlight[s] = built'[s]
    BY <1>1, <1>2, <1>3, <1>6, <1>7, <2>3 DEF IInv, PublisherInv, Sequence
  <2>5. QED
    BY <2>1, <2>2, <2>3, <2>4 DEF PublisherInv
<1>10. BlocksInv'
  <2>1. ASSUME NEW b \in blocks
        PROVE  IsDiff(b, built', pub'.nextSeq)
    <3>1. b.base \in 0 .. MaxSeq /\ b.seq \in 0 .. MaxSeq /\ IsDiff(b, built, n)
      BY <2>1 DEF IInv, TypeOK, BlockType, BlocksInv, Sequence
    <3>2. built'[b.base] = built[b.base] /\ built'[b.seq] = built[b.seq]
      BY <1>1, <1>6, <3>1 DEF IsDiff, Sequence
    <3>3. pub'.nextSeq = n + 1
      BY <1>7
    <3>4. QED
      BY <1>1, <3>1, <3>2, <3>3 DEF IsDiff, Sequence
  <2>2. QED
    BY <1>4, <1>5, <2>1 DEF BlocksInv
<1>11. ViewInv'
  <2>1. rx'.mirror = built'[rx'.appliedSeq]
    BY <1>1, <1>4, <1>6 DEF IInv, ViewInv, MirrorFidelity, Sequence
  <2>2. QED
    BY <1>1, <1>4, <1>7, <2>1 DEF IInv, ViewInv, MirrorFidelity, Sequence
<1>12. StallInv'
  <2> SUFFICES ASSUME Mode = "Reliable"
               PROVE  /\ pub'.baselineSeq <= heldEver'
                      /\ (\E lo \in Nat : Window(lo))'
                      /\ StallBounded'
    BY DEF StallInv
  <2>1. pub.baselineSeq <= heldEver /\ StallBounded
    BY DEF IInv, StallInv
  <2>2. PICK lo \in Nat : Window(lo)
    BY DEF IInv, StallInv
  <2>3. pub'.inFlight = grown /\ pub'.nextSeq = n + 1 /\ pub'.baselineSeq = pub.baselineSeq
    BY <1>7
  <2>4. PICK up \in Nat : up = IF n - lo = MaxInFlight THEN lo + 1 ELSE lo
    OBVIOUS
  <2>9. DOMAIN grown = up .. n
    <3>1. n \in Nat /\ lo <= n /\ DOMAIN pub.inFlight = lo .. n - 1 /\ n - lo <= MaxInFlight
      BY <1>1, <2>2 DEF Window, Sequence
    <3>2. DOMAIN Retain(pub.inFlight, n, world) = (IF n - lo = MaxInFlight THEN lo + 1 ELSE lo) .. n
      <4> DEFINE f == pub.inFlight
      <4>1. n \in Nat /\ lo \in Nat /\ lo <= n /\ DOMAIN f = lo .. n - 1 /\ n - lo <= MaxInFlight
        BY <3>1
      <4> HIDE DEF n, f
      <4>2. DOMAIN Retain(f, n, world) = (IF n - lo = MaxInFlight THEN lo + 1 ELSE lo) .. n
        BY <4>1, RetainWindow
      <4>3. QED
        BY <4>2 DEF f
    <3>3. QED
      BY <2>4, <3>2 DEF grown
  <2>5. Window(up)'
    <3>1. /\ n \in Nat /\ pub.baselineSeq \in Nat /\ pub.baselineSeq < n
          /\ lo > pub.baselineSeq /\ lo <= n /\ n - lo <= MaxInFlight
          /\ (lo > pub.baselineSeq + 1 => n - lo = MaxInFlight)
      BY <1>1, <2>2 DEF Window, Sequence
    <3> HIDE DEF n
    <3>2. up > pub'.baselineSeq /\ up <= pub'.nextSeq
      BY <2>3, <2>4, <3>1
    <3>3. DOMAIN pub'.inFlight = up .. pub'.nextSeq - 1
      BY <2>3, <2>9, <3>1
    <3>4. /\ pub'.nextSeq - up <= MaxInFlight
          /\ up > pub'.baselineSeq + 1 => pub'.nextSeq - up = MaxInFlight
      <4>1. CASE n - lo = MaxInFlight
        BY <2>3, <2>4, <3>1, <4>1
      <4>2. CASE n - lo # MaxInFlight
        BY <2>3, <2>4, <3>1, <4>2
      <4>3. QED
        BY <4>1, <4>2
    <3>5. QED
      BY <3>2, <3>3, <3>4 DEF Window
  <2>6. (\E lo1 \in Nat : Window(lo1))'
    BY <2>5
  <2>7. StallBounded'
    <3>1. m.base # NoBaseline => m.base <= heldEver /\ m.seq <= heldEver + KeyframeFallbackThreshold
      <4> SUFFICES ASSUME m.base # NoBaseline
                   PROVE  m.base <= heldEver /\ m.seq <= heldEver + KeyframeFallbackThreshold
        OBVIOUS
      <4>1. m.base = pub.baselineSeq /\ ~ForceKeyframe(pub) /\ pub.baselineSeq # NoBaseline
        BY <1>5 DEF m, Block
      <4>2. DOMAIN pub.inFlight = lo .. n - 1 /\ lo <= n
        BY <2>2 DEF Window
      <4>3. Cardinality(DOMAIN pub.inFlight) = n - lo
        <5>1. n \in Nat /\ n - 1 \in Int /\ lo \in Int
          BY <1>1 DEF Sequence
        <5>2. Cardinality(lo .. n - 1) = IF lo > n - 1 THEN 0 ELSE n - 1 - lo + 1
          BY <5>1, FS_Interval
        <5>3. QED
          BY <4>2, <5>1, <5>2
      <4>7. n - lo < KeyframeFallbackThreshold
        BY <1>1, <4>1, <4>3 DEF ForceKeyframe, Sequence
      <4>4. lo = pub.baselineSeq + 1
        BY <1>1, <2>2, <4>7 DEF Window, Sequence
      <4>5. QED
        BY <1>1, <1>5, <2>1, <4>1, <4>7, <4>4 DEF Sequence
    <3>2. QED
      BY <1>4, <2>1, <3>1 DEF StallBounded
  <2>8. QED
    BY <1>4, <2>1, <2>3, <2>6, <2>7
<1>13. QED
  BY <1>8, <1>9, <1>10, <1>11, <1>12 DEF IInv

-----------------------------------------------------------------------------
(* Deliver.                                                                *)

\* A block that is applied turns the mirror into the entry it was built from.
LEMMA ApplyGivesBuilt ==
  ASSUME IInv, NEW m \in blocks, Applies(rx, m)
  PROVE  /\ Apply(rx, m).mirror = built[m.seq]
         /\ Apply(rx, m).appliedSeq = m.seq
         /\ Apply(rx, m).serverTick = IF m.tick > rx.serverTick THEN m.tick ELSE rx.serverTick
<1> DEFINE from == IF m.base = NoBaseline THEN NoEntities ELSE rx.mirror
<1>1. /\ IsDiff(m, built, pub.nextSeq) /\ m \in BlockType
      /\ built \in [0 .. MaxSeq -> StateMap] /\ built[0] = NoEntities
      /\ rx.mirror = built[rx.appliedSeq]
  BY DEF IInv, TypeOK, BlocksInv, PublisherInv, ViewInv, MirrorFidelity
<1>2. from = built[m.base]
  BY <1>1 DEF Applies, NoBaseline
<1>3. built[m.base] \in StateMap /\ m.state \in StateMap
  BY <1>1 DEF BlockType
<1>4. Patch(built[m.base], m) = m.state
  BY <1>1, <1>3, PatchUndoesDiff DEF IsDiff
<1>5. Apply(rx, m) =
        [mirror |-> Patch(from, m), appliedSeq |-> m.seq,
         serverTick |-> IF m.tick > rx.serverTick THEN m.tick ELSE rx.serverTick]
  BY DEF Apply
<1>6. QED
  BY <1>1, <1>2, <1>4, <1>5 DEF IsDiff

\* A block that arrives, applied or refused, keeps it.
LEMMA DeliverInv ==
  ASSUME IInv, NEW m \in blocks, Deliver(m)
  PROVE  IInv'
<1> USE ProtocolAssumption, MaxSeqIsNat
<1>1. CASE ~Applies(rx, m)
  <2>1. UNCHANGED vars
    BY <1>1 DEF Deliver, Apply, vars
  <2>2. UNCHANGED <<pub, rx, blocks, acks, tick, built, heldEver>>
    BY <2>1 DEF vars
  <2>3. QED
    BY <2>2 DEF IInv, TypeOK, PublisherInv, BlocksInv, ViewInv, MirrorFidelity, StallInv,
                StallBounded, Window
<1>2. CASE Applies(rx, m)
  <2>1. /\ rx' = [mirror |-> built[m.seq], appliedSeq |-> m.seq,
                  serverTick |-> IF m.tick > rx.serverTick THEN m.tick ELSE rx.serverTick]
        /\ acks' = acks \cup {m.seq}
        /\ heldEver' = (IF m.seq > heldEver THEN m.seq ELSE heldEver)
        /\ UNCHANGED <<pub, blocks, tick, built>>
    BY <1>2, ApplyGivesBuilt DEF Deliver, Apply
  <2>2. /\ m \in BlockType /\ m.seq < pub.nextSeq
        /\ built \in [0 .. MaxSeq -> StateMap]
        /\ heldEver \in 0 .. MaxSeq /\ heldEver < pub.nextSeq
        /\ pub.nextSeq \in 1 .. MaxSeq + 1
        /\ pub.baselineSeq \in 0 .. MaxSeq
        /\ rx.serverTick \in Nat
        /\ acks \subseteq Sequence
    BY DEF IInv, TypeOK, BlocksInv, IsDiff, ViewInv
  <2>3. /\ heldEver' \in 0 .. MaxSeq /\ heldEver <= heldEver' /\ m.seq <= heldEver'
        /\ heldEver' < pub.nextSeq
    BY <2>1, <2>2 DEF BlockType, Sequence
  <2>4. TypeOK'
    <3>1. m.seq \in Sequence /\ m.tick \in Nat /\ m.seq \in 0 .. MaxSeq
      BY <2>2 DEF BlockType, Sequence
    <3>2. rx' \in [mirror : StateMap, appliedSeq : 0 .. MaxSeq, serverTick : Nat]
      BY <2>1, <2>2, <3>1
    <3>3. acks' \subseteq Sequence
      BY <2>1, <2>2, <3>1
    <3>4. QED
      BY <2>1, <2>3, <3>2, <3>3 DEF IInv, TypeOK
  <2>5. PublisherInv' /\ BlocksInv'
    BY <2>1 DEF IInv, PublisherInv, BlocksInv
  <2>6. ViewInv'
    BY <2>1, <2>2, <2>3 DEF IInv, ViewInv, MirrorFidelity, Sequence
  <2>7. StallInv'
    <3> SUFFICES ASSUME Mode = "Reliable"
                 PROVE  /\ pub'.baselineSeq <= heldEver'
                        /\ (\E lo \in Nat : Window(lo))'
                        /\ StallBounded'
      BY DEF StallInv
    <3>1. pub'.baselineSeq <= heldEver'
      BY <2>1, <2>2, <2>3 DEF IInv, StallInv
    <3>2. (\E lo \in Nat : Window(lo))'
      BY <2>1 DEF IInv, StallInv, Window
    <3>3. ASSUME NEW b \in blocks, b.base # NoBaseline
          PROVE  b.base <= heldEver' /\ b.seq <= heldEver' + KeyframeFallbackThreshold
      <4>1. b.base <= heldEver /\ b.seq <= heldEver + KeyframeFallbackThreshold
        BY <3>3 DEF IInv, StallInv, StallBounded
      <4>2. b.base \in 0 .. MaxSeq /\ b.seq \in 1 .. MaxSeq
        BY DEF IInv, TypeOK, BlockType, Sequence
      <4>3. QED
        BY <2>2, <2>3, <4>1, <4>2
    <3>4. QED
      BY <2>1, <3>1, <3>2, <3>3 DEF StallBounded
  <2>8. QED
    BY <2>4, <2>5, <2>6, <2>7 DEF IInv
<1>3. QED
  BY <1>1, <1>2

-----------------------------------------------------------------------------
(* ReceiveAck.                                                             *)

\* An acknowledgement, of any age, keeps it.
LEMMA ReceiveAckInv ==
  ASSUME IInv, NEW seq \in acks, ReceiveAck(seq)
  PROVE  IInv'
<1> DEFINE f == pub.inFlight
           rest == [s \in {t \in DOMAIN f : t > seq} |-> f[s]]
<1> USE ProtocolAssumption, MaxSeqIsNat
<1>1. CASE ~Accepted(pub, seq)
  <2>1. UNCHANGED <<pub, rx, blocks, acks, tick, built, heldEver>>
    BY <1>1 DEF ReceiveAck, Acknowledge
  <2>2. QED
    BY <2>1 DEF IInv, TypeOK, PublisherInv, BlocksInv, ViewInv, MirrorFidelity, StallInv,
                StallBounded, Window
<1>2. CASE Accepted(pub, seq)
  <2>1. /\ pub' = [baseline |-> f[seq], baselineSeq |-> seq, inFlight |-> rest,
                   nextSeq |-> pub.nextSeq]
        /\ UNCHANGED <<rx, blocks, acks, tick, built, heldEver>>
    BY <1>2 DEF ReceiveAck, Acknowledge
  <2>2. /\ f \in History
        /\ pub.nextSeq \in 1 .. MaxSeq + 1 /\ pub.baselineSeq \in 0 .. MaxSeq
        /\ heldEver \in 0 .. MaxSeq /\ seq \in Sequence
        /\ seq <= heldEver
        /\ seq \in DOMAIN f
    BY <1>2 DEF IInv, TypeOK, ViewInv, Accepted
  <2>3. /\ DOMAIN f \subseteq Sequence
        /\ \A s \in DOMAIN f :
             f[s] \in StateMap /\ pub.baselineSeq < s /\ s < pub.nextSeq /\ f[s] = built[s]
    BY <2>2 DEF IInv, PublisherInv, History
  <2>4. rest \in History
    <3>1. {t \in DOMAIN f : t > seq} \in SUBSET Sequence
      BY <2>3
    <3>2. rest \in [{t \in DOMAIN f : t > seq} -> StateMap]
      BY <2>3
    <3>3. QED
      BY <3>1, <3>2 DEF History
  <2>5. DOMAIN rest = {t \in DOMAIN f : t > seq}
    OBVIOUS
  <2>6. \A s \in DOMAIN rest : rest[s] = f[s] /\ s \in DOMAIN f /\ s > seq
    OBVIOUS
  <2> HIDE DEF rest
  <2>7. TypeOK'
    BY <2>1, <2>2, <2>3, <2>4 DEF IInv, TypeOK, Sequence
  <2>8. PublisherInv'
    <3>1. built[0] = NoEntities /\ (Mode = "PerFrame" => DOMAIN f = {})
      BY DEF IInv, PublisherInv
    <3>2. QED
      BY <2>1, <2>2, <2>3, <2>5, <2>6, <3>1 DEF PublisherInv, Sequence
  <2>9. BlocksInv' /\ ViewInv'
    BY <2>1 DEF IInv, BlocksInv, ViewInv, MirrorFidelity
  <2>10. StallInv'
    <3> SUFFICES ASSUME Mode = "Reliable"
                 PROVE  (\E lo \in Nat : Window(lo))'
      BY <2>1, <2>2 DEF IInv, StallInv, StallBounded
    <3>1. PICK lo \in Nat : Window(lo)
      BY DEF IInv, StallInv
    <3>2. DOMAIN rest = seq + 1 .. pub.nextSeq - 1
      BY <2>2, <2>5, <3>1 DEF Window, Sequence
    <3>3. PICK up \in Nat : up = seq + 1
      BY <2>2 DEF Sequence
    <3>4. Window(up)'
      <4>1. up > pub'.baselineSeq /\ up <= pub'.nextSeq
        BY <2>1, <2>2, <2>3, <3>3 DEF Sequence
      <4>2. DOMAIN pub'.inFlight = up .. pub'.nextSeq - 1
        BY <2>1, <3>2, <3>3
      <4>3. pub'.nextSeq - up <= MaxInFlight
        BY <2>1, <2>2, <3>1, <3>3 DEF Window, Sequence
      <4>4. ~(up > pub'.baselineSeq + 1)
        BY <2>1, <2>2, <3>3 DEF Sequence
      <4>5. QED
        BY <4>1, <4>2, <4>3, <4>4 DEF Window
    <3>5. QED
      BY <3>4
  <2>11. QED
    BY <2>7, <2>8, <2>9, <2>10 DEF IInv
<1>3. QED
  BY <1>1, <1>2

-----------------------------------------------------------------------------
(* ReceiverReset, and the theorems.                                        *)

\* A restart of the view keeps it.
LEMMA ReceiverResetInv ==
  ASSUME IInv, ReceiverReset
  PROVE  IInv'
<1> USE ProtocolAssumption, MaxSeqIsNat
<1>1. /\ rx' = [mirror |-> NoEntities, appliedSeq |-> 0, serverTick |-> 0]
      /\ UNCHANGED <<pub, blocks, acks, tick, built, heldEver>>
  BY DEF ReceiverReset, FreshReceiver, NoBaseline
<1>2. TypeOK'
  BY <1>1, NoEntitiesType DEF IInv, TypeOK
<1>3. PublisherInv' /\ BlocksInv' /\ StallInv'
  BY <1>1 DEF IInv, PublisherInv, BlocksInv, StallInv, StallBounded, Window
<1>4. ViewInv'
  <2>1. heldEver \in 0 .. MaxSeq
    BY DEF IInv, TypeOK
  <2>2. QED
    BY <1>1, <2>1 DEF IInv, ViewInv, MirrorFidelity, PublisherInv
<1>5. QED
  BY <1>2, <1>3, <1>4 DEF IInv

\* A step that changes nothing keeps it.
LEMMA StutterInv ==
  ASSUME IInv, UNCHANGED vars
  PROVE  IInv'
BY DEF vars, IInv, TypeOK, PublisherInv, BlocksInv, ViewInv, MirrorFidelity, StallInv,
       StallBounded, Window

\* Every step keeps it.
LEMMA NextInv ==
  ASSUME IInv, [Next]_vars
  PROVE  IInv'
<1>1. CASE \E world \in StateMap : Publish(world)
  BY <1>1, PublishInv
<1>2. CASE \E m \in blocks : Deliver(m)
  BY <1>2, DeliverInv
<1>3. CASE \E seq \in acks : ReceiveAck(seq)
  BY <1>3, ReceiveAckInv
<1>4. CASE ReceiverReset
  BY <1>4, ReceiverResetInv
<1>5. CASE UNCHANGED vars
  BY <1>5, StutterInv
<1>6. QED
  BY <1>1, <1>2, <1>3, <1>4, <1>5 DEF Next

\* The inductive invariant: both ends and every block on the way agree with one
\* history of render sets, and the publisher's window is bounded by the view.
THEOREM Invariance == Spec => []IInv
<1>1. Init => IInv
  BY InitInv
<1>2. IInv /\ [Next]_vars => IInv'
  BY NextInv
<1>3. QED
  BY <1>1, <1>2, PTL DEF Spec

\* Type correctness of SnapshotPublisher, SnapshotReceiver and the blocks.
THEOREM TypeCorrect == Spec => []TypeOK
<1>1. IInv => TypeOK
  BY DEF IInv
<1>2. QED
  BY <1>1, Invariance, PTL

\* SnapshotReceiver::Apply: the mirror is the render set its sequence was built
\* from, for any world, any loss, repetition, delay and reordering.
THEOREM Fidelity == Spec => []MirrorFidelity
<1>1. IInv => MirrorFidelity
  BY DEF IInv, ViewInv
<1>2. QED
  BY <1>1, Invariance, PTL

\* SnapshotPublisher::BuildDelta: no delta is further ahead of the view than the
\* keyframe fallback allows.
THEOREM BoundedStall == Spec => []StallBounded
<1>1. IInv => StallBounded
  BY DEF IInv, StallInv, StallBounded
<1>2. QED
  BY <1>1, Invariance, PTL

\* SnapshotReceiver::Apply never moves the view back in sequence or in time.
THEOREM Forward == Spec => NeverBackward
<1>1. ASSUME IInv, [Next]_vars
      PROVE  [~ReceiverReset => rx'.appliedSeq >= rx.appliedSeq
                                  /\ rx'.serverTick >= rx.serverTick]_vars
  <2> SUFFICES ASSUME Next, ~ReceiverReset
               PROVE  rx'.appliedSeq >= rx.appliedSeq /\ rx'.serverTick >= rx.serverTick
    BY <1>1
  <2>1. rx.appliedSeq \in 0 .. MaxSeq /\ rx.serverTick \in Nat
    BY <1>1 DEF IInv, TypeOK
  <2>2. CASE rx' = rx
    BY <2>1, <2>2
  <2>3. ASSUME NEW m \in blocks, Deliver(m)
        PROVE  rx'.appliedSeq >= rx.appliedSeq /\ rx'.serverTick >= rx.serverTick
    <3>1. m.seq \in 1 .. MaxSeq /\ m.tick \in Nat
      BY <1>1 DEF IInv, TypeOK, BlockType, Sequence
    <3>2. CASE Applies(rx, m)
      BY <1>1, <2>1, <2>3, <3>1, <3>2, ApplyGivesBuilt, MaxSeqIsNat
         DEF Deliver, Applies, Stale, NoBaseline
    <3>3. CASE ~Applies(rx, m)
      BY <2>1, <2>3, <3>3 DEF Deliver, Apply
    <3>4. QED
      BY <3>2, <3>3
  <2>4. QED
    BY <2>2, <2>3 DEF Next, Publish, ReceiveAck
<1>2. QED
  BY <1>1, Invariance, PTL DEF Spec, NeverBackward

\* The newest keyframe is applied whatever the view holds: nothing it holds is
\* newer, and a keyframe needs no baseline.
THEOREM KeyframeHeals == Spec => []NewestKeyframeApplies
<1>1. ASSUME IInv, NEW m \in blocks, m.base = NoBaseline, m.seq + 1 = pub.nextSeq
      PROVE  Apply(rx, m).appliedSeq = m.seq /\ Apply(rx, m).mirror = m.state
  <2>1. m.seq \in 1 .. MaxSeq /\ m.state = built[m.seq]
    BY <1>1 DEF IInv, TypeOK, BlockType, Sequence, BlocksInv, IsDiff
  <2>2. CASE Applies(rx, m)
    BY <1>1, <2>1, <2>2, ApplyGivesBuilt
  <2>3. CASE ~Applies(rx, m)
    <3>1. /\ rx.appliedSeq \in 0 .. MaxSeq /\ heldEver \in 0 .. MaxSeq
          /\ rx.appliedSeq <= heldEver /\ heldEver < pub.nextSeq
          /\ rx.mirror = built[rx.appliedSeq]
      BY <1>1 DEF IInv, TypeOK, ViewInv, MirrorFidelity
    <3>2. m.seq <= rx.appliedSeq
      BY <1>1, <2>3 DEF Applies, Stale
    <3>3. rx.appliedSeq = m.seq
      BY <1>1, <2>1, <3>1, <3>2, MaxSeqIsNat
    <3>4. Apply(rx, m) = rx
      BY <2>3 DEF Apply
    <3>5. QED
      BY <2>1, <3>1, <3>3, <3>4
  <2>4. QED
    BY <2>2, <2>3
<1>2. IInv => NewestKeyframeApplies
  BY <1>1 DEF NewestKeyframeApplies
<1>3. QED
  BY <1>2, Invariance, PTL

-----------------------------------------------------------------------------
(* The session: the two ends in lock step, the numbers renamed as they go. *)
Messages ==
  [seq : Nat, base : Nat, tick : Nat, despawns : SUBSET Entity, spawns : SUBSET Entity,
   updates : SUBSET Entity, state : StateMap]

Histories == UNION {[S -> StateMap] : S \in SUBSET (Nat \ {NoBaseline})}

Publishers == [baseline : StateMap, baselineSeq : Nat, inFlight : Histories,
               nextSeq : Nat \ {NoBaseline}]

Receivers == [mirror : StateMap, appliedSeq : Nat, serverTick : Nat]

Channels == [block : Messages, fresh : BOOLEAN]

(* A block that is not taken yet decodes, against the baseline it names,   *)
(* to the state that the publisher keeps for its number.                   *)
Decodes(m, p, r) ==
  /\ m.seq # NoBaseline
  /\ m.base = NoBaseline => Patch(NoEntities, m) = m.state
  /\ m.base # NoBaseline /\ m.base = r.appliedSeq => Patch(r.mirror, m) = m.state
  /\ m.seq = p.baselineSeq => p.baseline = m.state
  /\ m.seq \in DOMAIN p.inFlight => p.inFlight[m.seq] = m.state

(* A number that both ends know stands for the same state at both, and no  *)
(* number in use is as high as the publisher's next one.                   *)
Agreed(p, r, c, q) ==
  /\ p.baselineSeq = NoBaseline => p.baseline = NoEntities
  /\ p.baselineSeq # NoBaseline /\ p.baselineSeq = r.appliedSeq => p.baseline = r.mirror
  /\ r.appliedSeq \in DOMAIN p.inFlight => p.inFlight[r.appliedSeq] = r.mirror
  /\ Mode = "PerFrame" => DOMAIN p.inFlight = {}
  /\ \A s \in Live(p, r, c, q) : s < p.nextSeq
  /\ c.fresh => Decodes(c.block, p, r)

Typed(p, r, c, q) ==
  p \in Publishers /\ r \in Receivers /\ c \in Channels /\ q \in Seq(Nat)

SessionInv ==
  /\ Typed(publisher, receiver, channel, ring)
  /\ Agreed(publisher, receiver, channel, ring)
  /\ renderSet \in StateMap

\* Ranks: the numbers of a set, counted from its lowest, keep their order.
RankIn(L, s) == IF s = NoBaseline THEN NoBaseline ELSE Cardinality({t \in L : t <= s})

LEMMA RanksInOrder ==
  ASSUME NEW hi \in Nat, NEW L, L \subseteq 1 .. hi
  PROVE  /\ Cardinality(L) \in Nat
         /\ \A s \in L : RankIn(L, s) \in 1 .. Cardinality(L)
         /\ \A s, t \in L : s < t => RankIn(L, s) < RankIn(L, t)
<1> DEFINE Upto(s) == {t \in L : t <= s}
<1>1. IsFiniteSet(L) /\ Cardinality(L) \in Nat
  <2>1. IsFiniteSet(1 .. hi)
    BY FS_Interval
  <2>2. QED
    BY <2>1, FS_Subset, FS_CardinalityType
<1>2. \A s \in L : IsFiniteSet(Upto(s)) /\ Cardinality(Upto(s)) \in Nat /\ Cardinality(Upto(s)) <= Cardinality(L)
  BY <1>1, FS_Subset, FS_CardinalityType
<1>3. \A s \in L : s # 0 /\ RankIn(L, s) = Cardinality(Upto(s)) /\ s \in Nat
  BY DEF RankIn, NoBaseline
<1>4. \A s \in L : Cardinality(Upto(s)) # 0
  <2> TAKE s \in L
  <2>1. s \in Upto(s)
    BY <1>3
  <2>2. QED
    BY <2>1, <1>2, FS_EmptySet
<1>5. \A s, t \in L : s < t => Cardinality(Upto(s)) < Cardinality(Upto(t))
  <2> SUFFICES ASSUME NEW s \in L, NEW t \in L, s < t
               PROVE  Cardinality(Upto(s)) < Cardinality(Upto(t))
    OBVIOUS
  <2>1. t \notin Upto(s) /\ t \in Upto(t) /\ Upto(s) \subseteq Upto(t)
    <3>1. \A u \in L : u \in Int
      BY <1>3
    <3>2. ~ (t <= s) /\ t <= t
      BY <3>1
    <3>3. \A u \in L : u <= s => u <= t
      BY <3>1
    <3>4. QED
      BY <3>2, <3>3
  <2>2. Cardinality(Upto(s)) <= Cardinality(Upto(t))
    BY <2>1, <1>2, FS_Subset
  <2>3. Cardinality(Upto(s)) # Cardinality(Upto(t))
    BY <2>1, <1>2, FS_Subset
  <2>4. QED
    BY <2>2, <2>3, <1>2
<1> HIDE DEF Upto
<1>6. QED
  BY <1>1, <1>2, <1>3, <1>4, <1>5

\* The renaming keeps what the two ends know.
LEMMA Renamed ==
  ASSUME NEW p, NEW r, NEW c, NEW q, Typed(p, r, c, q), Agreed(p, r, c, q), Renumbered(p, r, c, q)
  PROVE  /\ Typed(publisher', receiver', channel', ring')
         /\ Agreed(publisher', receiver', channel', ring')
<1> DEFINE live == Live(p, r, c, q)
           R(s) == RankIn(live, s)
           D == DOMAIN p.inFlight
           m == c.block
<1>1. /\ p.baseline \in StateMap /\ p.baselineSeq \in Nat /\ p.nextSeq \in Nat
      /\ r.mirror \in StateMap /\ r.appliedSeq \in Nat
      /\ c.fresh \in BOOLEAN /\ m \in Messages /\ m.seq \in Nat /\ m.base \in Nat
      /\ D \subseteq Nat \ {NoBaseline} /\ p.inFlight \in [D -> StateMap]
      /\ q \in Seq(Nat) /\ \A i \in DOMAIN q : q[i] \in Nat
  <2>1. p \in Publishers /\ r \in Receivers /\ c \in Channels /\ q \in Seq(Nat)
    BY DEF Typed
  <2>2. /\ p.baseline \in StateMap /\ p.baselineSeq \in Nat /\ p.nextSeq \in Nat /\ p.inFlight \in Histories
        /\ r.mirror \in StateMap /\ r.appliedSeq \in Nat /\ c.fresh \in BOOLEAN /\ m \in Messages
    BY <2>1 DEF Publishers, Receivers, Channels
  <2>3. D \subseteq Nat \ {NoBaseline} /\ p.inFlight \in [D -> StateMap]
    BY <2>2 DEF Histories
  <2>4. m.seq \in Nat /\ m.base \in Nat
    BY <2>2 DEF Messages
  <2>5. QED
    BY <2>1, <2>2, <2>3, <2>4
<1>2. PICK n \in Nat : live \subseteq 1 .. n
  <2>1. \A s \in live : s \in Nat /\ s # 0
    BY <1>1 DEF Live, NoBaseline
  <2>2. \A s \in live : s < p.nextSeq
    BY DEF Agreed
  <2>3. live \subseteq 1 .. p.nextSeq
    BY <2>1, <2>2, <1>1
  <2>4. QED
    BY <2>3, <1>1
<1> DEFINE top == Cardinality(live)
<1>3. /\ top \in Nat
      /\ \A s \in live : R(s) \in 1 .. top
      /\ \A s, t \in live : s < t => R(s) < R(t)
  BY <1>2, RanksInOrder
<1>4. R(0) = 0 /\ 0 \notin live /\ NoBaseline = 0
  BY <1>2 DEF RankIn, NoBaseline
<1> DEFINE used == live \cup {0}
<1>5. \A s \in used : R(s) \in Nat /\ R(s) < top + 1 /\ (R(s) = 0 <=> s = 0)
  BY <1>3, <1>4
<1>6. \A s, t \in used : R(s) = R(t) => s = t
  <2> SUFFICES ASSUME NEW s \in used, NEW t \in used, R(s) = R(t)
               PROVE  s = t
    OBVIOUS
  <2>1. CASE s = 0 \/ t = 0
    BY <2>1, <1>5, <1>4
  <2>2. CASE s \in live /\ t \in live
    <3>1. s \in Int /\ t \in Int /\ R(s) \in Int /\ R(t) \in Int
      BY <2>2, <1>2, <1>5
    <3>2. ~ (s < t) /\ ~ (t < s)
      BY <2>2, <3>1, <1>3
    <3>3. QED
      BY <3>1, <3>2
  <2>3. QED
    BY <2>1, <2>2
<1>7. /\ p.baselineSeq \in used /\ r.appliedSeq \in used /\ D \subseteq used
      /\ \A i \in DOMAIN q : q[i] \in used
      /\ c.fresh => m.seq \in used /\ m.base \in used
  BY <1>4 DEF Live
<1>8. /\ publisher' = [p EXCEPT !.baselineSeq = R(@),
                         !.inFlight = [k \in {R(s) : s \in DOMAIN @} |->
                                         p.inFlight[CHOOSE s \in DOMAIN p.inFlight : R(s) = k]],
                         !.nextSeq = top + 1]
      /\ receiver' = [r EXCEPT !.appliedSeq = R(@)]
      /\ channel' = IF c.fresh
                    THEN [c EXCEPT !.block.seq = R(@), !.block.base = R(@)]
                    ELSE [block |-> NoBlock, fresh |-> FALSE]
      /\ ring' = [i \in DOMAIN q |-> R(q[i])]
  BY DEF Renumbered, RankIn
<1> HIDE DEF top, live, used, R
<1> DEFINE F == [k \in {R(s) : s \in D} |-> p.inFlight[CHOOSE s \in D : R(s) = k]]
<1>9. /\ DOMAIN F = {R(s) : s \in D}
      /\ \A s \in D : F[R(s)] = p.inFlight[s] /\ R(s) \in Nat \ {NoBaseline}
  <2>1. ASSUME NEW s \in D
        PROVE  (CHOOSE t \in D : R(t) = R(s)) = s
    <3>1. \A t \in D : R(t) = R(s) => t = s
      BY <1>6, <1>7
    <3>2. QED
      BY <3>1
  <2>2. \A s \in D : R(s) \in Nat \ {NoBaseline}
    BY <1>1, <1>4, <1>5, <1>7
  <2>3. QED
    BY <2>1, <2>2
<1>10. F \in [DOMAIN F -> StateMap] /\ F \in Histories
  <2>1. \A k \in DOMAIN F : F[k] \in StateMap /\ k \in Nat \ {NoBaseline}
    <3> TAKE k \in DOMAIN F
    <3>1. PICK s \in D : k = R(s)
      BY <1>9
    <3>2. p.inFlight[s] \in StateMap
      BY <1>1
    <3>3. QED
      BY <3>1, <3>2, <1>9
  <2>2. F = [k \in DOMAIN F |-> F[k]]
    OBVIOUS
  <2> HIDE DEF F
  <2>3. F \in [DOMAIN F -> StateMap]
    BY <2>1, <2>2
  <2>4. QED
    BY <2>1, <2>3 DEF Histories
<1>11. /\ publisher' \in Publishers
       /\ publisher'.baseline = p.baseline /\ publisher'.baselineSeq = R(p.baselineSeq)
       /\ publisher'.inFlight = F /\ publisher'.nextSeq = top + 1
  <2>1. publisher' = [baseline |-> p.baseline, baselineSeq |-> R(p.baselineSeq),
                      inFlight |-> F, nextSeq |-> top + 1]
    BY <1>8 DEF Typed, Publishers
  <2> HIDE DEF F
  <2>2. R(p.baselineSeq) \in Nat /\ top + 1 \in Nat \ {NoBaseline}
    BY <1>3, <1>4, <1>5, <1>7
  <2>3. QED
    BY <2>1, <2>2, <1>1, <1>10 DEF Publishers
<1>12. /\ receiver' \in Receivers
       /\ receiver'.mirror = r.mirror /\ receiver'.appliedSeq = R(r.appliedSeq)
  <2>1. R(r.appliedSeq) \in Nat
    BY <1>5, <1>7
  <2>2. QED
    BY <2>1, <1>8 DEF Typed, Receivers
<1>13. channel' \in Channels /\ channel'.fresh = c.fresh
  <2>1. CASE c.fresh
    <3>1. R(m.seq) \in Nat /\ R(m.base) \in Nat
      BY <2>1, <1>5, <1>7
    <3>2. QED
      BY <2>1, <3>1, <1>1, <1>8 DEF Typed, Channels, Messages
  <2>2. CASE ~c.fresh
    <3>1. channel' = [block |-> NoBlock, fresh |-> FALSE]
      BY <2>2, <1>8
    <3>2. NoBlock \in Messages
      BY NoEntitiesType DEF NoBlock, Messages
    <3>3. QED
      BY <3>1, <3>2, <2>2, <1>1 DEF Channels
  <2>3. QED
    BY <2>1, <2>2, <1>1
<1>14. c.fresh => /\ channel'.block.seq = R(m.seq) /\ channel'.block.base = R(m.base)
                  /\ channel'.block.state = m.state
                  /\ \A map : Patch(map, channel'.block) = Patch(map, m)
  <2> SUFFICES ASSUME c.fresh
               PROVE  /\ channel'.block.seq = R(m.seq) /\ channel'.block.base = R(m.base)
                      /\ channel'.block.state = m.state
                      /\ \A map : Patch(map, channel'.block) = Patch(map, m)
    OBVIOUS
  <2>1. /\ channel'.block.seq = R(m.seq) /\ channel'.block.base = R(m.base)
        /\ channel'.block.state = m.state /\ channel'.block.spawns = m.spawns
        /\ channel'.block.despawns = m.despawns /\ channel'.block.updates = m.updates
    BY <1>1, <1>8 DEF Typed, Channels, Messages
  <2>2. QED
    BY <2>1 DEF Patch
<1>15. ring' \in Seq(Nat) /\ DOMAIN ring' = DOMAIN q /\ \A i \in DOMAIN q : ring'[i] = R(q[i])
  <2>1. \A i \in DOMAIN q : R(q[i]) \in Nat
    BY <1>5, <1>7
  <2>2. DOMAIN q = 1 .. Len(q) /\ Len(q) \in Nat
    BY <1>1, LenProperties
  <2>3. ring' \in [1 .. Len(q) -> Nat]
    BY <2>1, <2>2, <1>8
  <2>4. ring' \in Seq(Nat)
    BY <2>2, <2>3, SeqDef
  <2>5. QED
    BY <2>4, <1>8
<1> HIDE DEF F, m
<1>16. Agreed(publisher', receiver', channel', ring')
  <2>1. publisher'.baselineSeq = NoBaseline => publisher'.baseline = NoEntities
    BY <1>4, <1>5, <1>7, <1>11 DEF Agreed
  <2>2. publisher'.baselineSeq # NoBaseline /\ publisher'.baselineSeq = receiver'.appliedSeq =>
          publisher'.baseline = receiver'.mirror
    <3> SUFFICES ASSUME R(p.baselineSeq) # 0, R(p.baselineSeq) = R(r.appliedSeq)
                 PROVE  p.baseline = r.mirror
      BY <1>4, <1>11, <1>12
    <3>1. p.baselineSeq = r.appliedSeq /\ p.baselineSeq # 0
      BY <1>5, <1>6, <1>7
    <3>2. QED
      BY <3>1, <1>4 DEF Agreed
  <2>3. receiver'.appliedSeq \in DOMAIN publisher'.inFlight =>
          publisher'.inFlight[receiver'.appliedSeq] = receiver'.mirror
    <3> SUFFICES ASSUME R(r.appliedSeq) \in DOMAIN F
                 PROVE  F[R(r.appliedSeq)] = r.mirror
      BY <1>11, <1>12
    <3>1. PICK s \in D : R(s) = R(r.appliedSeq)
      BY <1>9
    <3>2. s = r.appliedSeq
      BY <3>1, <1>6, <1>7
    <3>3. QED
      BY <3>2, <1>9 DEF Agreed
  <2>4. Mode = "PerFrame" => DOMAIN publisher'.inFlight = {}
    <3>1. Mode = "PerFrame" => D = {}
      BY DEF Agreed
    <3>2. QED
      BY <3>1, <1>9, <1>11
  <2>5. \A s \in Live(publisher', receiver', channel', ring') : s < publisher'.nextSeq
    <3>1. ASSUME NEW s \in Live(publisher', receiver', channel', ring')
          PROVE  \E t \in used : s = R(t)
      BY <3>1, <1>7, <1>9, <1>11, <1>12, <1>13, <1>14, <1>15 DEF Live
    <3>2. QED
      BY <3>1, <1>5, <1>11
  <2>6. channel'.fresh => Decodes(channel'.block, publisher', receiver')
    <3> SUFFICES ASSUME c.fresh
                 PROVE  Decodes(channel'.block, publisher', receiver')
      BY <1>13
    <3>1. Decodes(m, p, r)
      BY DEF Agreed, m
    <3>2. R(m.seq) # 0 /\ (R(m.base) = 0 <=> m.base = 0) /\ m.seq \in used /\ m.base \in used
      BY <3>1, <1>4, <1>5, <1>7 DEF Decodes
    <3>3. R(m.base) = R(r.appliedSeq) => m.base = r.appliedSeq
      BY <3>2, <1>6, <1>7
    <3>4. R(m.seq) = R(p.baselineSeq) => m.seq = p.baselineSeq
      BY <3>2, <1>6, <1>7
    <3>5. R(m.seq) \in DOMAIN F => m.seq \in D /\ F[R(m.seq)] = p.inFlight[m.seq]
      <4> SUFFICES ASSUME R(m.seq) \in DOMAIN F
                   PROVE  m.seq \in D
        BY <1>9
      <4>1. PICK s \in D : R(s) = R(m.seq)
        BY <1>9
      <4>2. QED
        BY <4>1, <3>2, <1>6, <1>7
    <3>6. QED
      BY <3>1, <3>2, <3>3, <3>4, <3>5, <1>4, <1>11, <1>12, <1>14 DEF Decodes
  <2>7. QED
    BY <2>1, <2>2, <2>3, <2>4, <2>5, <2>6 DEF Agreed
<1>17. QED
  BY <1>11, <1>12, <1>13, <1>15, <1>16 DEF Typed

\* A block decodes, against the map it was taken from, to the new state.
LEMMA BlockDecodes ==
  ASSUME NEW p \in Publishers, NEW w \in StateMap,
         p.baselineSeq = NoBaseline => p.baseline = NoEntities
  PROVE  LET m == Block(p, w, 0)
         IN  /\ m \in Messages
             /\ m.seq = p.nextSeq /\ m.state = w
             /\ m.base = NoBaseline \/ m.base = p.baselineSeq
             /\ m.base = NoBaseline => Patch(NoEntities, m) = w
             /\ m.base # NoBaseline => Patch(p.baseline, m) = w
<1> DEFINE m == Block(p, w, 0)
           old == IF ForceKeyframe(p) THEN NoEntities ELSE p.baseline
<1>1. p.baseline \in StateMap /\ p.baselineSeq \in Nat /\ p.nextSeq \in Nat /\ NoEntities \in StateMap
  BY NoEntitiesType DEF Publishers
<1>2. /\ m.seq = p.nextSeq /\ m.state = w
      /\ m.base = IF ForceKeyframe(p) THEN NoBaseline ELSE p.baselineSeq
      /\ m.despawns = Despawns(old, w) /\ m.spawns = Spawns(old, w) /\ m.updates = Updates(old, w)
  BY DEF Block
<1>3. m \in Messages
  <2>1. /\ Despawns(old, w) \in SUBSET Entity /\ Spawns(old, w) \in SUBSET Entity
        /\ Updates(old, w) \in SUBSET Entity
    BY DEF Despawns, Spawns, Updates
  <2>2. 0 \in Nat /\ NoBaseline \in Nat
    BY DEF NoBaseline
  <2>3. QED
    BY <2>1, <2>2, <1>1 DEF Block, Messages
<1>4. old \in StateMap
  BY <1>1
<1>5. Patch(old, m) = w
  <2> HIDE DEF m, old
  <2>1. QED
    BY <1>2, <1>4, PatchUndoesDiff
<1>6. m.base = NoBaseline => old = NoEntities
  BY <1>2
<1>7. m.base # NoBaseline => old = p.baseline
  BY <1>2
<1>8. QED
  BY <1>2, <1>3, <1>5, <1>6, <1>7

\* The new state is kept under its number, and the others under theirs.
LEMMA BuildKeeps ==
  ASSUME NEW p \in Publishers, NEW w \in StateMap
  PROVE  /\ AfterBuild(p, w) \in Publishers
         /\ AfterBuild(p, w).nextSeq = p.nextSeq + 1
         /\ Mode = "PerFrame" =>
              /\ AfterBuild(p, w).baseline = w /\ AfterBuild(p, w).baselineSeq = p.nextSeq
              /\ AfterBuild(p, w).inFlight = p.inFlight
         /\ Mode # "PerFrame" =>
              /\ AfterBuild(p, w).baseline = p.baseline /\ AfterBuild(p, w).baselineSeq = p.baselineSeq
              /\ \A s \in DOMAIN AfterBuild(p, w).inFlight :
                   \/ s = p.nextSeq /\ AfterBuild(p, w).inFlight[s] = w
                   \/ s \in DOMAIN p.inFlight /\ AfterBuild(p, w).inFlight[s] = p.inFlight[s]
<1>1. /\ p.baseline \in StateMap /\ p.baselineSeq \in Nat /\ p.inFlight \in Histories
      /\ p.nextSeq \in Nat \ {NoBaseline} /\ p.nextSeq + 1 \in Nat \ {NoBaseline}
  BY DEF Publishers, NoBaseline
<1>2. CASE Mode = "PerFrame"
  <2>1. AfterBuild(p, w) = [baseline |-> w, baselineSeq |-> p.nextSeq,
                            inFlight |-> p.inFlight, nextSeq |-> p.nextSeq + 1]
    BY <1>2 DEF AfterBuild
  <2>2. QED
    BY <2>1, <1>1, <1>2 DEF Publishers
<1>3. CASE Mode # "PerFrame"
  <2> DEFINE f == p.inFlight
             grown == DOMAIN f \cup {p.nextSeq}
             kept == IF Cardinality(grown) > MaxInFlight THEN grown \ {Oldest(grown)} ELSE grown
             g == [s \in kept |-> IF s = p.nextSeq THEN w ELSE f[s]]
  <2>1. AfterBuild(p, w) = [baseline |-> p.baseline, baselineSeq |-> p.baselineSeq,
                            inFlight |-> g, nextSeq |-> p.nextSeq + 1]
    BY <1>3 DEF AfterBuild, Retain
  <2>2. DOMAIN f \subseteq Nat \ {NoBaseline} /\ \A s \in DOMAIN f : f[s] \in StateMap
    BY <1>1 DEF Histories
  <2>3. kept \in SUBSET (Nat \ {NoBaseline}) /\ kept \subseteq DOMAIN f \cup {p.nextSeq}
    BY <1>1, <2>2
  <2> HIDE DEF kept
  <2>4. g \in [kept -> StateMap]
    BY <2>2, <2>3
  <2>5. g \in Histories
    BY <2>3, <2>4 DEF Histories
  <2>6. /\ DOMAIN g = kept
        /\ \A s \in kept : g[s] = IF s = p.nextSeq THEN w ELSE f[s]
    OBVIOUS
  <2> HIDE DEF g
  <2>7. AfterBuild(p, w) \in Publishers
    BY <2>1, <2>5, <1>1 DEF Publishers
  <2>8. /\ AfterBuild(p, w).baseline = p.baseline /\ AfterBuild(p, w).baselineSeq = p.baselineSeq
        /\ AfterBuild(p, w).inFlight = g /\ AfterBuild(p, w).nextSeq = p.nextSeq + 1
    BY <2>1
  <2>9. \A s \in DOMAIN g :
          (s = p.nextSeq /\ g[s] = w) \/ (s \in DOMAIN f /\ g[s] = f[s])
    BY <2>3, <2>6
  <2>10. QED
    BY <2>7, <2>8, <2>9, <1>3
<1>4. QED
  BY <1>2, <1>3

\* A block that is built: its number is new, whether it is sent or not.
LEMMA PublishAgrees ==
  ASSUME SessionInv
  PROVE  LET p == AfterBuild(publisher, renderSet)
             c == Sent(Block(publisher, renderSet, 0))
         IN  Typed(p, receiver, c, ring) /\ Agreed(p, receiver, c, ring)
<1> DEFINE m == Block(publisher, renderSet, 0)
           p == AfterBuild(publisher, renderSet)
           c == Sent(m)
<1>1. /\ publisher \in Publishers /\ receiver \in Receivers /\ channel \in Channels /\ ring \in Seq(Nat)
      /\ renderSet \in StateMap /\ Agreed(publisher, receiver, channel, ring)
  BY DEF SessionInv, Typed
<1>2. /\ publisher.nextSeq \in Nat \ {NoBaseline} /\ publisher.baselineSeq \in Nat /\ receiver.appliedSeq \in Nat
      /\ channel.block.seq \in Nat
  BY <1>1 DEF Publishers, Receivers, Channels, Messages
<1> DEFINE new == publisher.nextSeq
<1>3. \A s \in Live(publisher, receiver, channel, ring) : s < new
  BY <1>1 DEF Agreed
<1>4. /\ publisher.baselineSeq < new /\ receiver.appliedSeq < new
      /\ \A s \in DOMAIN publisher.inFlight : s < new
      /\ \A i \in DOMAIN ring : ring[i] < new
      /\ channel.fresh => channel.block.seq < new /\ channel.block.base < new
  <2>1. NoBaseline < new
    BY <1>2 DEF NoBaseline
  <2>2. QED
    BY <2>1, <1>3 DEF Live
<1>5. /\ m \in Messages /\ m.seq = new /\ m.state = renderSet
      /\ m.base = NoBaseline \/ m.base = publisher.baselineSeq
      /\ m.base = NoBaseline => Patch(NoEntities, m) = renderSet
      /\ m.base # NoBaseline => Patch(publisher.baseline, m) = renderSet
  <2>1. publisher.baselineSeq = NoBaseline => publisher.baseline = NoEntities
    BY <1>1 DEF Agreed
  <2>2. QED
    BY <2>1, <1>1, BlockDecodes
<1>6. /\ p \in Publishers /\ p.nextSeq = new + 1
      /\ Mode = "PerFrame" => p.baseline = renderSet /\ p.baselineSeq = new /\ p.inFlight = publisher.inFlight
      /\ Mode # "PerFrame" =>
           /\ p.baseline = publisher.baseline /\ p.baselineSeq = publisher.baselineSeq
           /\ \A s \in DOMAIN p.inFlight :
                \/ s = new /\ p.inFlight[s] = renderSet
                \/ s \in DOMAIN publisher.inFlight /\ p.inFlight[s] = publisher.inFlight[s]
  BY <1>1, BuildKeeps
<1>7. c = [block |-> m, fresh |-> TRUE] \/ c = channel
  BY DEF Sent
<1> HIDE DEF m, p, c
<1>8. Typed(p, receiver, c, ring)
  <2>1. c \in Channels
    <3>1. [block |-> m, fresh |-> TRUE] \in Channels
      BY <1>5 DEF Channels
    <3>2. QED
      BY <3>1, <1>1, <1>7
  <2>2. QED
    BY <2>1, <1>1, <1>6 DEF Typed
<1>9. Agreed(p, receiver, c, ring)
  <2>1. /\ publisher.baselineSeq = NoBaseline => publisher.baseline = NoEntities
        /\ publisher.baselineSeq # NoBaseline /\ publisher.baselineSeq = receiver.appliedSeq =>
             publisher.baseline = receiver.mirror
        /\ receiver.appliedSeq \in DOMAIN publisher.inFlight =>
             publisher.inFlight[receiver.appliedSeq] = receiver.mirror
        /\ Mode = "PerFrame" => DOMAIN publisher.inFlight = {}
        /\ channel.fresh => Decodes(channel.block, publisher, receiver)
    BY <1>1 DEF Agreed
  <2>2. receiver.appliedSeq # new /\ new # NoBaseline
    BY <1>2, <1>4
  <2>3. p.baselineSeq = NoBaseline => p.baseline = NoEntities
    BY <2>1, <2>2, <1>6
  <2>4. p.baselineSeq # NoBaseline /\ p.baselineSeq = receiver.appliedSeq => p.baseline = receiver.mirror
    BY <2>1, <2>2, <1>6
  <2>5. receiver.appliedSeq \in DOMAIN p.inFlight => p.inFlight[receiver.appliedSeq] = receiver.mirror
    BY <2>1, <2>2, <1>6
  <2>6. Mode = "PerFrame" => DOMAIN p.inFlight = {}
    BY <2>1, <1>6
  <2>7. \A s \in Live(p, receiver, c, ring) : s < p.nextSeq
    <3>1. /\ p.baselineSeq < new + 1 /\ receiver.appliedSeq < new + 1
          /\ \A s \in DOMAIN p.inFlight : s < new + 1
      <4>1. \A s \in DOMAIN publisher.inFlight : s \in Nat
        BY <1>1 DEF Publishers, Histories
      <4>2. \A s \in DOMAIN p.inFlight : s = new \/ s \in DOMAIN publisher.inFlight
        BY <1>6
      <4>3. \A s \in DOMAIN p.inFlight : s < new + 1
        BY <4>1, <4>2, <1>2, <1>4
      <4>4. p.baselineSeq = new \/ p.baselineSeq = publisher.baselineSeq
        BY <1>6
      <4>5. QED
        BY <4>3, <4>4, <1>2, <1>4
    <3>2. \A i \in DOMAIN ring : ring[i] < new + 1
      <4>1. \A i \in DOMAIN ring : ring[i] \in Nat
        BY <1>1
      <4>2. QED
        BY <4>1, <1>2, <1>4
    <3>3. c.fresh => c.block.seq < new + 1 /\ c.block.base < new + 1
      <4>1. CASE c = [block |-> m, fresh |-> TRUE]
        <5>1. c.block.seq = new /\ (c.block.base = NoBaseline \/ c.block.base = publisher.baselineSeq)
          BY <4>1, <1>5
        <5>2. NoBaseline < new + 1 /\ publisher.baselineSeq < new + 1 /\ new < new + 1
          BY <1>2, <1>4 DEF NoBaseline
        <5>3. QED
          BY <5>1, <5>2
      <4>2. CASE c = channel
        <5>1. channel.block.base \in Nat
          BY <1>1 DEF Channels, Messages
        <5>2. QED
          BY <4>2, <5>1, <1>2, <1>4
      <4>3. QED
        BY <4>1, <4>2, <1>7
    <3>4. QED
      BY <3>1, <3>2, <3>3, <1>6 DEF Live
  <2>8. c.fresh => Decodes(c.block, p, receiver)
    <3>1. CASE c = [block |-> m, fresh |-> TRUE]
      <4>1. c.block = m
        BY <3>1
      <4>2. m.base # NoBaseline /\ m.base = receiver.appliedSeq => Patch(receiver.mirror, m) = m.state
        BY <2>1, <1>5
      <4>3. m.seq = p.baselineSeq => p.baseline = m.state
        BY <1>2, <1>4, <1>5, <1>6
      <4>4. m.seq \in DOMAIN p.inFlight => p.inFlight[m.seq] = m.state
        <5>1. new \notin DOMAIN publisher.inFlight
          BY <1>2, <1>4
        <5>2. CASE Mode = "PerFrame"
          BY <5>2, <2>6
        <5>3. CASE Mode # "PerFrame"
          BY <5>1, <5>3, <1>5, <1>6
        <5>4. QED
          BY <5>2, <5>3
      <4>5. QED
        BY <4>1, <4>2, <4>3, <4>4, <2>2, <1>5 DEF Decodes
    <3>2. CASE c = channel
      <4> SUFFICES ASSUME channel.fresh
                   PROVE  Decodes(channel.block, p, receiver)
        BY <3>2
      <4>1. Decodes(channel.block, publisher, receiver)
        BY <2>1
      <4>2. channel.block.seq # new
        BY <1>2, <1>4
      <4>3. channel.block.seq = p.baselineSeq => p.baseline = channel.block.state
        BY <4>1, <4>2, <1>6 DEF Decodes
      <4>4. channel.block.seq \in DOMAIN p.inFlight => p.inFlight[channel.block.seq] = channel.block.state
        <5>1. CASE Mode = "PerFrame"
          BY <5>1, <2>6
        <5>2. CASE Mode # "PerFrame"
          BY <5>2, <4>1, <4>2, <1>6 DEF Decodes
        <5>3. QED
          BY <5>1, <5>2
      <4>5. QED
        BY <4>1, <4>3, <4>4 DEF Decodes
    <3>3. QED
      BY <3>1, <3>2, <1>7
  <2>9. QED
    BY <2>3, <2>4, <2>5, <2>6, <2>7, <2>8 DEF Agreed
<1>10. QED
  BY <1>8, <1>9 DEF m, p, c

\* An acknowledgement moves the baseline to a state both ends know.
LEMMA AcknowledgeAgrees ==
  ASSUME SessionInv, ring # << >>
  PROVE  LET p == Acknowledge(publisher, Head(ring))
         IN  Typed(p, receiver, channel, Tail(ring)) /\ Agreed(p, receiver, channel, Tail(ring))
<1> DEFINE a == Head(ring)
           p == Acknowledge(publisher, a)
<1>1. /\ publisher \in Publishers /\ receiver \in Receivers /\ channel \in Channels /\ ring \in Seq(Nat)
      /\ Agreed(publisher, receiver, channel, ring)
  BY DEF SessionInv, Typed
<1>2. /\ publisher.baseline \in StateMap /\ publisher.baselineSeq \in Nat
      /\ publisher.nextSeq \in Nat \ {NoBaseline} /\ publisher.inFlight \in Histories
  BY <1>1 DEF Publishers
<1>3. /\ a \in Nat /\ Tail(ring) \in Seq(Nat)
      /\ {Tail(ring)[i] : i \in DOMAIN Tail(ring)} \subseteq {ring[i] : i \in DOMAIN ring}
  <2>1. /\ a \in Nat /\ Tail(ring) \in Seq(Nat) /\ Len(Tail(ring)) = Len(ring) - 1 /\ Len(ring) \in Nat
        /\ \A i \in 1 .. Len(Tail(ring)) : Tail(ring)[i] = ring[i + 1]
    BY <1>1, HeadTailProperties, LenProperties
  <2>2. DOMAIN ring = 1 .. Len(ring) /\ DOMAIN Tail(ring) = 1 .. Len(Tail(ring))
    BY <1>1, <2>1, LenProperties
  <2>3. \A i \in 1 .. Len(Tail(ring)) : i + 1 \in 1 .. Len(ring)
    BY <2>1
  <2>4. QED
    BY <2>1, <2>2, <2>3
<1>4. /\ publisher.baselineSeq = NoBaseline => publisher.baseline = NoEntities
      /\ publisher.baselineSeq # NoBaseline /\ publisher.baselineSeq = receiver.appliedSeq =>
           publisher.baseline = receiver.mirror
      /\ receiver.appliedSeq \in DOMAIN publisher.inFlight =>
           publisher.inFlight[receiver.appliedSeq] = receiver.mirror
      /\ Mode = "PerFrame" => DOMAIN publisher.inFlight = {}
      /\ \A s \in Live(publisher, receiver, channel, ring) : s < publisher.nextSeq
      /\ channel.fresh => Decodes(channel.block, publisher, receiver)
  BY <1>1 DEF Agreed
<1>5. CASE ~ Accepted(publisher, a)
  <2>1. p = publisher
    BY <1>5 DEF Acknowledge
  <2>2. Live(publisher, receiver, channel, Tail(ring)) \subseteq Live(publisher, receiver, channel, ring)
    BY <1>3 DEF Live
  <2> HIDE DEF p
  <2>3. QED
    BY <2>1, <2>2, <1>1, <1>3, <1>4 DEF Typed, Agreed, p
<1>6. CASE Accepted(publisher, a)
  <2> DEFINE later == {t \in DOMAIN publisher.inFlight : t > a}
             g == [s \in later |-> publisher.inFlight[s]]
  <2>1. p = [baseline |-> publisher.inFlight[a], baselineSeq |-> a, inFlight |-> g,
             nextSeq |-> publisher.nextSeq]
    BY <1>6 DEF Acknowledge
  <2>2. a # NoBaseline /\ a \in DOMAIN publisher.inFlight
    BY <1>6 DEF Accepted
  <2>3. /\ DOMAIN publisher.inFlight \subseteq Nat \ {NoBaseline}
        /\ \A s \in DOMAIN publisher.inFlight : publisher.inFlight[s] \in StateMap
    BY <1>2 DEF Histories
  <2>4. /\ DOMAIN g = later /\ later \subseteq DOMAIN publisher.inFlight
        /\ \A s \in later : g[s] = publisher.inFlight[s]
    OBVIOUS
  <2>5. g \in Histories
    <3>1. later \in SUBSET (Nat \ {NoBaseline}) /\ g \in [later -> StateMap]
      BY <2>3
    <3>2. QED
      BY <3>1 DEF Histories
  <2> HIDE DEF g, later, p, a
  <2>6. /\ p.baseline = publisher.inFlight[a] /\ p.baselineSeq = a /\ p.inFlight = g
        /\ p.nextSeq = publisher.nextSeq
    BY <2>1
  <2>7. p \in Publishers
    BY <2>1, <2>2, <2>3, <2>5, <1>2, <1>3 DEF Publishers
  <2>8. Typed(p, receiver, channel, Tail(ring))
    BY <2>7, <1>1, <1>3 DEF Typed
  <2>9. Live(p, receiver, channel, Tail(ring)) \subseteq Live(publisher, receiver, channel, ring)
    BY <2>2, <2>4, <2>6, <1>3 DEF Live
  <2>10. channel.fresh => Decodes(channel.block, p, receiver)
    BY <2>2, <2>4, <2>6, <1>4 DEF Decodes
  <2>11. Agreed(p, receiver, channel, Tail(ring))
    <3>1. Mode = "PerFrame" => DOMAIN p.inFlight = {}
      BY <2>4, <2>6, <1>4
    <3>2. p.baselineSeq = receiver.appliedSeq => p.baseline = receiver.mirror
      BY <2>2, <2>6, <1>4
    <3>3. receiver.appliedSeq \in DOMAIN p.inFlight => p.inFlight[receiver.appliedSeq] = receiver.mirror
      BY <2>4, <2>6, <1>4
    <3>4. QED
      BY <3>1, <3>2, <3>3, <2>2, <2>6, <2>9, <2>10, <1>4 DEF Agreed
  <2>12. QED
    BY <2>8, <2>11 DEF p, a
<1>7. QED
  BY <1>5, <1>6

\* A block that is taken makes the mirror what the publisher keeps for it.
LEMMA ViewAgrees ==
  ASSUME SessionInv, channel.fresh
  PROVE  LET r == Apply(receiver, channel.block)
             taken == [channel EXCEPT !.fresh = FALSE]
         IN  /\ Typed(publisher, r, taken, ring) /\ Agreed(publisher, r, taken, ring)
             /\ Typed(publisher, r, taken, Append(ring, r.appliedSeq))
             /\ Agreed(publisher, r, taken, Append(ring, r.appliedSeq))
<1> DEFINE m == channel.block
           r == Apply(receiver, m)
           taken == [channel EXCEPT !.fresh = FALSE]
<1>1. /\ publisher \in Publishers /\ receiver \in Receivers /\ channel \in Channels /\ ring \in Seq(Nat)
      /\ Agreed(publisher, receiver, channel, ring)
  BY DEF SessionInv, Typed
<1>2. /\ receiver.mirror \in StateMap /\ receiver.appliedSeq \in Nat /\ receiver.serverTick \in Nat
      /\ m \in Messages /\ m.seq \in Nat /\ m.tick \in Nat /\ m.state \in StateMap
  <2>1. m \in Messages
    BY <1>1 DEF Channels
  <2>2. QED
    BY <2>1, <1>1 DEF Receivers, Messages
<1>3. /\ publisher.baselineSeq = NoBaseline => publisher.baseline = NoEntities
      /\ publisher.baselineSeq # NoBaseline /\ publisher.baselineSeq = receiver.appliedSeq =>
           publisher.baseline = receiver.mirror
      /\ receiver.appliedSeq \in DOMAIN publisher.inFlight =>
           publisher.inFlight[receiver.appliedSeq] = receiver.mirror
      /\ Mode = "PerFrame" => DOMAIN publisher.inFlight = {}
      /\ \A s \in Live(publisher, receiver, channel, ring) : s < publisher.nextSeq
      /\ Decodes(m, publisher, receiver)
  BY <1>1 DEF Agreed
<1>4. taken \in Channels /\ ~taken.fresh
  BY <1>1 DEF Channels
<1> HIDE DEF taken
<1>5. \/ r = receiver
      \/ r.appliedSeq = m.seq /\ r.mirror = m.state /\ r \in Receivers
  <2>1. CASE ~ Applies(receiver, m)
    BY <2>1 DEF Apply
  <2>2. CASE Applies(receiver, m)
    <3>1. r = [mirror |-> Patch(IF m.base = NoBaseline THEN NoEntities ELSE receiver.mirror, m),
               appliedSeq |-> m.seq,
               serverTick |-> IF m.tick > receiver.serverTick THEN m.tick ELSE receiver.serverTick]
      BY <2>2 DEF Apply
    <3>2. Patch(IF m.base = NoBaseline THEN NoEntities ELSE receiver.mirror, m) = m.state
      BY <2>2, <1>3 DEF Applies, Decodes
    <3>3. r = [mirror |-> m.state, appliedSeq |-> m.seq,
               serverTick |-> IF m.tick > receiver.serverTick THEN m.tick ELSE receiver.serverTick]
      BY <3>1, <3>2
    <3> HIDE DEF r, m
    <3>4. QED
      BY <3>3, <1>2 DEF Receivers
  <2>3. QED
    BY <2>1, <2>2
<1>6. r \in Receivers /\ r.appliedSeq \in Nat
  BY <1>1, <1>2, <1>5
<1>7. r.appliedSeq = NoBaseline \/ r.appliedSeq \in Live(publisher, receiver, channel, ring)
  BY <1>5 DEF Live
<1> HIDE DEF r
<1>8. /\ publisher.baselineSeq # NoBaseline /\ publisher.baselineSeq = r.appliedSeq =>
           publisher.baseline = r.mirror
      /\ r.appliedSeq \in DOMAIN publisher.inFlight => publisher.inFlight[r.appliedSeq] = r.mirror
  BY <1>3, <1>5 DEF Decodes
<1>9. Live(publisher, r, taken, ring) \subseteq Live(publisher, receiver, channel, ring)
  BY <1>4, <1>7 DEF Live
<1>10. Append(ring, r.appliedSeq) \in Seq(Nat)
  BY <1>1, <1>6
<1>11. Live(publisher, r, taken, Append(ring, r.appliedSeq)) \subseteq Live(publisher, receiver, channel, ring)
  <2> DEFINE q == Append(ring, r.appliedSeq)
  <2>1. /\ DOMAIN ring = 1 .. Len(ring) /\ DOMAIN q = 1 .. Len(ring) + 1 /\ Len(ring) \in Nat
        /\ \A i \in 1 .. Len(ring) : q[i] = ring[i]
        /\ q[Len(ring) + 1] = r.appliedSeq
    <3>1. Len(q) = Len(ring) + 1 /\ Len(ring) \in Nat
      BY <1>1, <1>6, AppendProperties, LenProperties
    <3>2. DOMAIN ring = 1 .. Len(ring) /\ DOMAIN q = 1 .. Len(q)
      BY <1>1, <1>10, LenProperties
    <3>3. (\A i \in 1 .. Len(ring) : q[i] = ring[i]) /\ q[Len(ring) + 1] = r.appliedSeq
      BY <1>1, <1>6, AppendProperties
    <3>4. QED
      BY <3>1, <3>2, <3>3
  <2> HIDE DEF q
  <2>2. \A i \in DOMAIN q : (i \in DOMAIN ring /\ q[i] = ring[i]) \/ q[i] = r.appliedSeq
    BY <2>1
  <2>3. QED
    BY <2>2, <1>4, <1>7 DEF Live, q
<1>12. QED
  BY <1>1, <1>3, <1>4, <1>6, <1>8, <1>9, <1>10, <1>11 DEF Typed, Agreed, r, taken

\* The session keeps what its ends know.
LEMMA SessionInvariant == SessionSpec => []SessionInv
<1>1. SessionInit => SessionInv
  <2> SUFFICES ASSUME SessionInit
               PROVE  SessionInv
    OBVIOUS
  <2>1. /\ publisher = FreshPublisher /\ receiver = FreshReceiver /\ ring = << >>
        /\ channel = [block |-> NoBlock, fresh |-> FALSE] /\ renderSet = NoEntities
    BY DEF SessionInit
  <2>2. << >> \in [{} -> StateMap] /\ << >> \in Seq(Nat) /\ DOMAIN << >> = {}
    OBVIOUS
  <2>3. << >> \in Histories
    <3>1. {} \in SUBSET (Nat \ {NoBaseline})
      OBVIOUS
    <3>2. QED
      BY <3>1, <2>2 DEF Histories
  <2>4. publisher \in Publishers /\ receiver \in Receivers
    BY <2>1, <2>3, NoEntitiesType DEF FreshPublisher, FreshReceiver, Publishers, Receivers, NoBaseline
  <2>5. channel \in Channels
    BY <2>1, NoEntitiesType DEF NoBlock, Channels, Messages
  <2>6. Live(publisher, receiver, channel, ring) = {}
    BY <2>1, <2>2 DEF Live, FreshPublisher, FreshReceiver
  <2>7. Agreed(publisher, receiver, channel, ring)
    BY <2>1, <2>2, <2>6 DEF Agreed, FreshPublisher, FreshReceiver
  <2>8. QED
    BY <2>1, <2>2, <2>4, <2>5, <2>7, NoEntitiesType DEF SessionInv, Typed
<1>2. SessionInv /\ [SessionNext]_sessionVars => SessionInv'
  <2> SUFFICES ASSUME SessionInv, [SessionNext]_sessionVars
               PROVE  SessionInv'
    OBVIOUS
  <2>1. CASE ChangeWorld
    <3>1. /\ UNCHANGED <<publisher, receiver, channel, ring>>
          /\ \E e \in Entity, s \in Render \cup {Absent} : renderSet' = [renderSet EXCEPT ![e] = s]
      BY <2>1 DEF ChangeWorld
    <3>2. renderSet' \in StateMap
      BY <3>1 DEF SessionInv, StateMap
    <3>3. QED
      BY <3>1, <3>2 DEF SessionInv, Typed, Agreed, Live, Decodes
  <2>2. CASE Settle
    BY <2>2 DEF Settle, SessionInv, Typed, Agreed, Live, Decodes
  <2>3. CASE DrainAck
    <3>1. /\ ring # << >>
          /\ Renumbered(Acknowledge(publisher, Head(ring)), receiver, channel, Tail(ring))
          /\ renderSet' = renderSet
      BY <2>3 DEF DrainAck
    <3>2. QED
      BY <3>1, AcknowledgeAgrees, Renamed DEF SessionInv
  <2>4. CASE PublishTick
    <3>1. /\ Renumbered(AfterBuild(publisher, renderSet), receiver, Sent(Block(publisher, renderSet, 0)), ring)
          /\ renderSet' = renderSet
      BY <2>4 DEF PublishTick
    <3>2. QED
      BY <3>1, PublishAgrees, Renamed DEF SessionInv
  <2>5. CASE ViewFrame
    <3> DEFINE r == Apply(receiver, channel.block)
               taken == [channel EXCEPT !.fresh = FALSE]
    <3>1. /\ channel.fresh /\ renderSet' = renderSet
          /\ \/ Renumbered(publisher, r, taken, ring)
             \/ Renumbered(publisher, r, taken, Append(ring, r.appliedSeq))
      BY <2>5 DEF ViewFrame
    <3>2. /\ Typed(publisher, r, taken, ring) /\ Agreed(publisher, r, taken, ring)
          /\ Typed(publisher, r, taken, Append(ring, r.appliedSeq))
          /\ Agreed(publisher, r, taken, Append(ring, r.appliedSeq))
      BY <3>1, ViewAgrees
    <3> HIDE DEF r, taken
    <3>3. QED
      BY <3>1, <3>2, Renamed DEF SessionInv
  <2>6. CASE UNCHANGED sessionVars
    BY <2>6 DEF sessionVars, SessionInv, Typed, Agreed, Live, Decodes
  <2>7. QED
    BY <2>1, <2>2, <2>3, <2>4, <2>5, <2>6 DEF SessionNext
<1>3. QED
  BY <1>1, <1>2, PTL DEF SessionSpec

(* In a session that runs for ever, whichever blocks were not sent or were *)
(* overwritten before the view took them and whichever acknowledgements    *)
(* were lost: when both ends name the same baseline, they hold the same    *)
(* state for it.                                                           *)
THEOREM Agreement == SessionSpec => []AgreeOnBaseline
<1>1. SessionInv => AgreeOnBaseline
  BY DEF SessionInv, Agreed, AgreeOnBaseline
<1>2. QED
  BY <1>1, SessionInvariant, PTL
=============================================================================
