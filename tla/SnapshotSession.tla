-------------------------- MODULE SnapshotSession ---------------------------
(***************************************************************************)
(* One simulation and one view in the same session, running for ever: the  *)
(* call sites of the boundary around the transport of transport.h.  The    *)
(* simulation drains its acknowledgements and publishes once a tick; the   *)
(* view acquires the freshest block once a frame, applies it and pushes an *)
(* acknowledgement.  The frame channel keeps the newest block only; an     *)
(* acknowledgement may be dropped (a full ring, a lost datagram).          *)
(*                                                                         *)
(* Sequence numbers grow for ever, but the protocol only compares them and *)
(* tests them for zero.  So that the runs are finite, every step renames   *)
(* the numbers still in use to their ranks: Renumbered keeps their order.  *)
(***************************************************************************)
EXTENDS SnapshotProtocol, Sequences

CONSTANTS
  AckCapacity,  \* the capacity of the acknowledgement ring
  MaxRecords    \* the records one message of the transport can carry

ASSUME CapacityIsNat == AckCapacity \in Nat /\ MaxRecords \in Nat

VARIABLES
  publisher, \* the SnapshotPublisher
  receiver,  \* the SnapshotReceiver
  channel,   \* the newest block and whether the view has taken it
  ring,      \* the acknowledgements on their way
  renderSet, \* the render set of the world
  settled,   \* the world does not change any more
  applied    \* history: the last frame of the view applied a block

sessionVars == <<publisher, receiver, channel, ring, renderSet, settled, applied>>

NoBlock == [seq |-> 0, base |-> 0, tick |-> 0, state |-> NoEntities,
            despawns |-> {}, spawns |-> {}, updates |-> {}]

SessionInit ==
  /\ publisher = FreshPublisher
  /\ receiver = FreshReceiver
  /\ channel = [block |-> NoBlock, fresh |-> FALSE]
  /\ ring = << >>
  /\ renderSet = NoEntities
  /\ settled = FALSE
  /\ applied = FALSE

(* The sequence numbers in use in publisher p, receiver r, channel c and   *)
(* ring q, and the renaming of each of them to its rank.                   *)
Live(p, r, c, q) ==
  ({p.baselineSeq, r.appliedSeq} \cup DOMAIN p.inFlight \cup {q[i] : i \in DOMAIN q}
     \cup (IF c.fresh THEN {c.block.seq, c.block.base} ELSE {})) \ {NoBaseline}

Renumbered(p, r, c, q) ==
  \E live \in {Live(p, r, c, q)} :
    LET Rank(s) == IF s = NoBaseline THEN NoBaseline ELSE Cardinality({t \in live : t <= s})
    IN  /\ publisher' = [p EXCEPT
             !.baselineSeq = Rank(@),
             !.inFlight = [n \in {Rank(s) : s \in DOMAIN @} |->
                             p.inFlight[CHOOSE s \in DOMAIN p.inFlight : Rank(s) = n]],
             !.nextSeq = Cardinality(live) + 1]
        /\ receiver' = [r EXCEPT !.appliedSeq = Rank(@)]
        /\ channel' = IF c.fresh
                      THEN [c EXCEPT !.block.seq = Rank(@), !.block.base = Rank(@)]
                      ELSE [block |-> NoBlock, fresh |-> FALSE]
        /\ ring' = [i \in DOMAIN q |-> Rank(q[i])]

-----------------------------------------------------------------------------
(* The game changes the render set, until it comes to rest.                *)
ChangeWorld ==
  /\ ~settled
  /\ \E e \in Entity, s \in Render \cup {Absent} : renderSet' = [renderSet EXCEPT ![e] = s]
  /\ UNCHANGED <<publisher, receiver, channel, ring, settled, applied>>

Settle ==
  /\ ~settled
  /\ settled' = TRUE
  /\ UNCHANGED <<publisher, receiver, channel, ring, renderSet, applied>>

(* The simulation: drain every acknowledgement, then publish the tick.     *)
DrainAck ==
  /\ ring # << >>
  /\ Renumbered(Acknowledge(publisher, Head(ring)), receiver, channel, Tail(ring))
  /\ UNCHANGED <<renderSet, settled, applied>>

RecordCount(m) == Cardinality(m.spawns) + Cardinality(m.updates) + Cardinality(m.despawns)

(* A block the transport cannot carry is not sent; the publisher does not  *)
(* look at the result.                                                     *)
Sent(m) == IF RecordCount(m) <= MaxRecords THEN [block |-> m, fresh |-> TRUE] ELSE channel

PublishTick ==
  /\ ring = << >>
  /\ Renumbered(AfterBuild(publisher, renderSet), receiver, Sent(Block(publisher, renderSet, 0)), ring)
  /\ UNCHANGED <<renderSet, settled, applied>>

(* The view: acquire, apply, acknowledge what it holds: what it applied,   *)
(* or once more what it held before.  The push is left out or lost when    *)
(* the ring is full, and on a datagram path at any time.                   *)
ViewFrame ==
  /\ channel.fresh
  /\ LET m == channel.block
         r == Apply(receiver, m)
         taken == [channel EXCEPT !.fresh = FALSE]
     IN  /\ \/ Renumbered(publisher, r, taken, ring)
            \/ /\ r.appliedSeq # NoBaseline
               /\ Len(ring) < AckCapacity
               /\ Renumbered(publisher, r, taken, Append(ring, r.appliedSeq))
         /\ applied' = Applies(receiver, m)
  /\ UNCHANGED <<renderSet, settled>>

SessionNext == ChangeWorld \/ Settle \/ DrainAck \/ PublishTick \/ ViewFrame

(* The simulation ticks and the view renders for ever; the world need not  *)
(* change or come to rest, and no acknowledgement has to arrive.           *)
SessionSpec == SessionInit /\ [][SessionNext]_sessionVars

FairSessionSpec ==
  SessionSpec /\ WF_sessionVars(DrainAck) /\ WF_sessionVars(PublishTick) /\ WF_sessionVars(ViewFrame)

-----------------------------------------------------------------------------
(* Once the world is at rest the mirror becomes equal to it and stays so,  *)
(* whichever frames the view missed and acknowledgements were lost.        *)
Converges == settled ~> [](receiver.mirror = renderSet)

(* While the world moves the view never stays stuck on an old state: it    *)
(* applies a block again and again.                                        *)
NeverStuck == []<>applied

(* Whenever the two ends name the same baseline they hold the same state   *)
(* for it: the next delta is exactly what the mirror is missing.           *)
AgreeOnBaseline ==
  publisher.baselineSeq # NoBaseline /\ publisher.baselineSeq = receiver.appliedSeq =>
    publisher.baseline = receiver.mirror
=============================================================================
