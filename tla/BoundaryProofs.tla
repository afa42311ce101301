--------------------------- MODULE BoundaryProofs ----------------------------
(***************************************************************************)
(* engine/boundary: the frame channel between two threads, the ends of the *)
(* datagram transport that stands in for it between two processes, and the *)
(* ring of items between two threads.  The first two implement the same    *)
(* register, for any number of frames or datagrams; the ring is a bounded  *)
(* FIFO, for any width of its counters, any capacity and number of calls.  *)
(*                                                                         *)
(* Frame channel.  The three slots are distinct at every instant; whoever  *)
(* wants one exchanges it for its own, and what is fresh is the newest.    *)
(*                                                                         *)
(* Datagram transport.  The pending block, or the held one when there is   *)
(* none, is always the one that set the high-water mark; so what           *)
(* AcquireSnapshot promotes is the newest block drained.  The link hands   *)
(* over what arrived from its front, and only to the end it was meant for; *)
(* so the datagrams of a kind that are drained are those with a place in   *)
(* its queue, and they are counted off in the same order.                  *)
(*                                                                         *)
(* Ring.  The distance of the two wrapped counters, which is what the code *)
(* compares, is the number of items in the ring, at most the capacity, and *)
(* below it while a push is under way.  The capacity divides the modulus,  *)
(* so the slots of as many counters as it has, from the tail on, are all   *)
(* different, also where the counters wrap: the slot being filled is none  *)
(* of those still to be read.                                              *)
(***************************************************************************)
EXTENDS TripleBuffer, DatagramTransport, SpscRing, FiniteSetTheorems, SequenceTheorems, TLAPS

-----------------------------------------------------------------------------
Whole(i) == slot[i].a = slot[i].b

ProducerInv ==
  /\ prod # "idle" => published < MaxFrame /\ slot[write].a = published + 1
  /\ prod = "full" => Whole(write)
  /\ prod = "idle" => Whole(write)

NewestInv ==
  /\ Whole(read)
  /\ Whole(mid.idx)
  /\ slot[read].a <= published
  /\ mid.fresh => slot[mid.idx].a = published
  /\ ~mid.fresh => slot[read].a = published
  /\ cons = "claim" => mid.fresh

IInv == TypeOK /\ SlotsDisjoint /\ ProducerInv /\ NewestInv

\* The parts of IInv, for the leaves that need all of them.
LEMMA InitInv == Init => IInv
BY MaxFrameIsNat DEF Init, IInv, TypeOK, Frame, Index, SlotsDisjoint, ProducerInv, NewestInv, Whole

\* Filling the producer's slot disturbs no other slot.
LEMMA WriteInv == IInv /\ (BeginWrite \/ EndWrite) => IInv'
<1> SUFFICES ASSUME IInv, BeginWrite \/ EndWrite
             PROVE  IInv'
  OBVIOUS
<1> USE MaxFrameIsNat DEF IInv, TypeOK, Frame, Index, SlotsDisjoint, ProducerInv, NewestInv, Whole
<1>1. CASE BeginWrite
  BY <1>1 DEF BeginWrite
<1>2. CASE EndWrite
  BY <1>2 DEF EndWrite
<1>3. QED
  BY <1>1, <1>2

\* The exchange of Publish swaps the producer's slot with the shared one.
LEMMA PublishInv == IInv /\ Publish => IInv'
BY MaxFrameIsNat DEF IInv, TypeOK, Frame, Index, SlotsDisjoint, ProducerInv, NewestInv, Whole, Publish

\* The load changes nothing; the exchange of Acquire swaps the consumer's slot
\* with the shared one, which is still fresh.
LEMMA AcquireInv == IInv /\ (Poll \/ Claim) => IInv'
<1> SUFFICES ASSUME IInv, Poll \/ Claim
             PROVE  IInv'
  OBVIOUS
<1> USE MaxFrameIsNat DEF IInv, TypeOK, Frame, Index, SlotsDisjoint, ProducerInv, NewestInv, Whole
<1>1. CASE Poll
  BY <1>1 DEF Poll
<1>2. CASE Claim
  BY <1>2 DEF Claim
<1>3. QED
  BY <1>1, <1>2

\* A step that changes nothing keeps the invariant.
LEMMA StutterInv == IInv /\ UNCHANGED vars => IInv'
BY DEF IInv, TypeOK, Frame, Index, SlotsDisjoint, ProducerInv, NewestInv, Whole, vars

\* The invariant holds in every state of every behaviour.
THEOREM Invariance == Spec => []IInv
<1>1. IInv /\ [Next]_vars => IInv'
  BY WriteInv, PublishInv, AcquireInv, StutterInv DEF Next
<1>2. QED
  BY InitInv, <1>1, PTL DEF Spec

\* The types of triple_buffer.h: the three indices stay in range after any
\* number of exchanges.
THEOREM TypeCorrect == Spec => []TypeOK
<1>1. IInv => TypeOK
  BY DEF IInv
<1>2. QED
  BY <1>1, Invariance, PTL

\* Producer, consumer and shared word never name the same slot.
THEOREM Exclusion == Spec => []SlotsDisjoint
<1>1. IInv => SlotsDisjoint
  BY DEF IInv
<1>2. QED
  BY <1>1, Invariance, PTL

\* No torn frame behind the pointer Acquire returned.
THEOREM NoTearing == Spec => []HeldFrameWhole
<1>1. IInv => HeldFrameWhole
  BY DEF IInv, NewestInv, Whole, HeldFrameWhole
<1>2. QED
  BY <1>1, Invariance, PTL

\* The slot the consumer holds is not written until its next Acquire.
THEOREM Stability == Spec => HeldFrameStable
<1>1. IInv /\ [Next]_vars => [read' = read => slot'[read] = slot[read]]_vars
  BY DEF IInv, TypeOK, Frame, Index, SlotsDisjoint, Next, vars,
         BeginWrite, EndWrite, Publish, Poll, Claim
<1>2. QED
  BY <1>1, Invariance, PTL DEF Spec, HeldFrameStable

\* What Acquire hands over is the newest frame at that instant.
THEOREM Freshness == Spec => ClaimIsNewest
<1>1. IInv /\ [Next]_vars => [Claim => slot'[read'].a = published]_vars
  BY DEF IInv, NewestInv, Claim, vars
<1>2. QED
  BY <1>1, Invariance, PTL DEF Spec, ClaimIsNewest

\* The frames the consumer sees never go back in time.
THEOREM Monotone == Spec => NeverBackward
<1>1. IInv /\ [Next]_vars => [slot'[read'].a >= slot[read].a]_vars
  BY MaxFrameIsNat
  DEF IInv, TypeOK, Frame, Index, SlotsDisjoint, NewestInv, Next, vars,
      BeginWrite, EndWrite, Publish, Poll, Claim
<1>2. QED
  BY <1>1, Invariance, PTL DEF Spec, NeverBackward

\* Each step of the buffer is a publish or a take of the register, or leaves
\* the register alone.
THEOREM Implements == Spec => RegisterSpec
<1>1. Init => Register!Init
  BY DEF Init, Register!Init, Index
<1>2. IInv /\ [Next]_vars => [Register!Next]_Register!vars
  <2> SUFFICES ASSUME IInv, [Next]_vars
               PROVE  [Register!Next]_Register!vars
    OBVIOUS
  <2> USE DEF IInv, TypeOK, Frame, Index, SlotsDisjoint, NewestInv, Register!Next, Register!vars
  <2>1. CASE BeginWrite
    BY <2>1 DEF BeginWrite
  <2>2. CASE EndWrite
    BY <2>2 DEF EndWrite
  <2>3. CASE Publish
    <3>1. published' = published + 1 /\ mid'.fresh = TRUE /\ slot' = slot /\ read' = read
      BY <2>3 DEF Publish
    <3>2. published \in Nat
      BY MaxFrameIsNat
    <3>3. published' \in Nat /\ published' > published
      BY <3>1, <3>2
    <3>4. Register!Publish
      BY <3>1, <3>3 DEF Register!Publish
    <3>5. QED
      BY <3>4 DEF Register!Next
  <2>4. CASE Poll
    BY <2>4 DEF Poll
  <2>5. CASE Claim
    BY <2>5 DEF Claim, Register!Take
  <2>6. CASE UNCHANGED vars
    BY <2>6 DEF vars
  <2>7. QED
    BY <2>1, <2>2, <2>3, <2>4, <2>5, <2>6 DEF Next
<1>3. QED
  BY <1>1, <1>2, Invariance, PTL DEF Spec, RegisterSpec, Register!Spec

-----------------------------------------------------------------------------
\* What the steps rely on: the datagrams and the register carry numbers.
LinkType ==
  /\ inbox \in [End -> Seq(Datagram)]
  /\ highest \in Nat
  /\ pending \in Nat
  /\ held \in Nat
  /\ DOMAIN call = End

LinkInv == LinkType /\ NewestKept

\* The invariant holds before anything arrives.
LEMMA LinkInitInv == LinkInit => LinkInv
BY DEF LinkInit, LinkInv, LinkType, NewestKept, End

\* Arrivals: only the queue of the link grows.
LEMMA ArriveInv ==
  ASSUME LinkInv, NEW k \in Kind, NEW id \in 1 .. MaxSent, Arrive(k, id)
  PROVE  LinkInv'
<1> DEFINE d == [kind |-> k, id |-> id]
<1>1. d \in Datagram /\ Receiver(k) \in End
  BY DEF Datagram, Receiver, End
<1>2. inbox' = [inbox EXCEPT ![Receiver(k)] = Append(@, d)]
      /\ UNCHANGED <<highest, pending, held, call>>
  BY DEF Arrive
<1>3. inbox[Receiver(k)] \in Seq(Datagram)
  BY <1>1 DEF LinkInv, LinkType
<1> HIDE DEF d
<1>4. Append(inbox[Receiver(k)], d) \in Seq(Datagram)
  BY <1>1, <1>3
<1>5. inbox' \in [End -> Seq(Datagram)]
  BY <1>1, <1>2, <1>4 DEF LinkInv, LinkType
<1>6. QED
  BY <1>2, <1>5 DEF LinkInv, LinkType, NewestKept

\* What one turn of the loop does to the register.
LEMMA PumpStep ==
  ASSUME LinkInv, NEW n \in End, Pump(n)
  PROVE  /\ inbox' \in [End -> Seq(Datagram)]
         /\ UNCHANGED <<held, call>>
         /\ \/ UNCHANGED <<highest, pending>>
            \/ highest' \in Nat /\ highest' > highest /\ pending' = highest'
<1>1. inbox[n] \in Seq(Datagram) /\ inbox[n] # << >>
  BY DEF Pump, LinkInv, LinkType
<1>2. Head(inbox[n]) \in Datagram /\ Tail(inbox[n]) \in Seq(Datagram)
  BY <1>1
<1>3. Head(inbox[n]).id \in Nat
  BY <1>2, BoundsAreNat DEF Datagram
<1>4. inbox' = [inbox EXCEPT ![n] = Tail(inbox[n])] /\ UNCHANGED <<held, call>>
  BY DEF Pump, Take
<1>5. inbox' \in [End -> Seq(Datagram)]
  BY <1>2, <1>4 DEF LinkInv, LinkType
<1>6. \/ UNCHANGED <<highest, pending>>
      \/ /\ highest' = Head(inbox[n]).id /\ pending' = Head(inbox[n]).id
         /\ Newer(Head(inbox[n]).id)
  BY DEF Pump, Take
<1>7. QED
  BY <1>3, <1>4, <1>5, <1>6 DEF Newer, LinkInv, LinkType

\* A datagram taken off the link, newer or not, keeps it.
LEMMA PumpInv ==
  ASSUME LinkInv, NEW n \in End, Pump(n)
  PROVE  LinkInv'
BY PumpStep DEF LinkInv, LinkType, NewestKept

\* Every step keeps it.
LEMMA LinkNextInv ==
  ASSUME LinkInv, [LinkNext]_linkVars
  PROVE  LinkInv'
<1>1. ASSUME NEW k \in Kind, Send(k)
      PROVE  LinkInv'
  BY <1>1 DEF Send, LinkInv, LinkType, NewestKept
<1>2. ASSUME NEW n \in End, NEW k \in Calls(n), Begin(n, k)
      PROVE  LinkInv'
  BY <1>2 DEF Begin, LinkInv, LinkType, NewestKept
<1>3. CASE FinishAcquire
  BY <1>3 DEF FinishAcquire, LinkInv, LinkType, NewestKept
<1>4. ASSUME NEW n \in End, Pop(n)
      PROVE  LinkInv'
  BY <1>4 DEF Pop, LinkInv, LinkType, NewestKept
<1>5. CASE UNCHANGED linkVars
  BY <1>5 DEF linkVars, LinkInv, LinkType, NewestKept
<1>6. QED
  BY <1>1, <1>2, <1>3, <1>4, <1>5, ArriveInv, PumpInv DEF LinkNext, Finish

\* The inductive invariant holds in every reachable state.
THEOREM LinkInvariance == LinkSpec => []LinkInv
<1>1. LinkInit => LinkInv
  BY LinkInitInv
<1>2. LinkInv /\ [LinkNext]_linkVars => LinkInv'
  BY LinkNextInv
<1>3. QED
  BY <1>1, <1>2, PTL DEF LinkSpec

\* DatagramTransport::Pump: no late or repeated datagram takes the place of the
\* newest snapshot.
THEOREM KeepsNewest == LinkSpec => []NewestKept
<1>1. LinkInv => NewestKept
  BY DEF LinkInv
<1>2. QED
  BY <1>1, LinkInvariance, PTL

\* Every step of either end is a publish or a take of the register, or leaves it
\* alone: the call sites cannot tell this transport from the triple buffer.
THEOREM LinkImplements == LinkSpec => LinkRegisterSpec
<1>1. LinkInit => LinkRegister!Init
  BY DEF LinkInit, LinkRegister!Init
<1>2. LinkInv /\ [LinkNext]_linkVars => [LinkRegister!Next]_LinkRegister!vars
  <2> SUFFICES ASSUME LinkInv, [LinkNext]_linkVars
               PROVE  [LinkRegister!Next]_LinkRegister!vars
    OBVIOUS
  <2>1. CASE UNCHANGED <<highest, pending, held>>
    BY <2>1 DEF LinkRegister!vars
  <2>2. ASSUME NEW n \in End, Pump(n)
        PROVE  [LinkRegister!Next]_LinkRegister!vars
    <3>1. CASE UNCHANGED <<highest, pending>>
      BY <2>2, <3>1, PumpStep DEF LinkRegister!vars
    <3>2. CASE highest' \in Nat /\ highest' > highest /\ pending' = highest'
      <4>1. pending' # 0 /\ UNCHANGED held
        BY <2>2, <3>2, PumpStep DEF LinkInv, LinkType
      <4>2. LinkRegister!Publish
        BY <3>2, <4>1 DEF LinkRegister!Publish
      <4>3. QED
        BY <4>2 DEF LinkRegister!Next
    <3>3. QED
      BY <2>2, <3>1, <3>2, PumpStep
  <2>3. CASE FinishAcquire
    <3>1. CASE pending = 0
      BY <2>3, <3>1 DEF FinishAcquire, LinkRegister!vars
    <3>2. CASE pending # 0
      <4>1. LinkRegister!Take
        BY <2>3, <3>2 DEF FinishAcquire, LinkRegister!Take, LinkInv, NewestKept
      <4>2. QED
        BY <4>1 DEF LinkRegister!Next
    <3>3. QED
      BY <3>1, <3>2
  <2>4. QED
    BY <2>1, <2>2, <2>3 DEF LinkNext, linkVars, Send, Arrive, Begin, Finish, Pop
<1>3. QED
  BY <1>1, <1>2, LinkInvariance, PTL DEF LinkSpec, LinkRegisterSpec, LinkRegister!Spec

\* AcquireSnapshot alone changes the block the view holds.
THEOREM HeldIsStable == LinkSpec => HeldStable
<1>1. ASSUME LinkInv, [LinkNext]_linkVars
      PROVE  [held' # held => call["view"] = "snapshot" /\ call'["view"] = "idle"]_linkVars
  <2> SUFFICES ASSUME LinkNext, held' # held
               PROVE  call["view"] = "snapshot" /\ call'["view"] = "idle"
    BY <1>1
  <2>1. FinishAcquire
    BY DEF LinkNext, Send, Arrive, Begin, Finish, Pump, Take, Pop
  <2>2. QED
    BY <1>1, <2>1 DEF FinishAcquire, LinkInv, LinkType, End
<1>2. QED
  BY <1>1, LinkInvariance, PTL DEF LinkSpec, HeldStable

-----------------------------------------------------------------------------
\* How many of a kind there are among the first n datagrams, and one more.
LEMMA CountNext ==
  ASSUME NEW s, NEW k, NEW n \in Nat
  PROVE  /\ Count(s, k, n) \in Nat
         /\ Count(s, k, n + 1) = Count(s, k, n) + (IF s[n + 1].kind = k THEN 1 ELSE 0)
<1> DEFINE C(j) == {i \in 1 .. j : s[i].kind = k}
<1>1. C(n) \subseteq 1 .. n /\ n + 1 \notin C(n)
  OBVIOUS
<1>2. IsFiniteSet(C(n))
  <2>1. IsFiniteSet(1 .. n)
    BY FS_Interval
  <2>2. QED
    BY <1>1, <2>1, FS_Subset
<1>3. C(n + 1) = IF s[n + 1].kind = k THEN C(n) \cup {n + 1} ELSE C(n)
  <2>1. \A i : i \in 1 .. n + 1 <=> i \in 1 .. n \/ i = n + 1
    OBVIOUS
  <2>2. QED
    BY <2>1
<1>4. Cardinality(C(n)) \in Nat /\ Cardinality(C(n) \cup {n + 1}) = Cardinality(C(n)) + 1
  BY <1>1, <1>2, FS_CardinalityType, FS_AddElement
<1>5. Count(s, k, n) = Cardinality(C(n)) /\ Count(s, k, n + 1) = Cardinality(C(n + 1))
  BY DEF Count
<1> HIDE DEF C
<1>6. QED
  BY <1>3, <1>4, <1>5

\* An earlier count is no more than a later one, and less if one came between.
LEMMA CountOrder ==
  ASSUME NEW s, NEW k, NEW n \in Nat, NEW i \in 1 .. n
  PROVE  /\ Count(s, k, i) <= Count(s, k, n)
         /\ s[i].kind = k => Count(s, k, i) >= 1
<1> DEFINE C(j) == {l \in 1 .. j : s[l].kind = k}
<1>1. C(i) \subseteq C(n) /\ C(n) \subseteq 1 .. n
  OBVIOUS
<1>2. IsFiniteSet(C(n))
  <2>1. IsFiniteSet(1 .. n)
    BY FS_Interval
  <2>2. QED
    BY <1>1, <2>1, FS_Subset
<1>3. Cardinality(C(i)) <= Cardinality(C(n))
  BY <1>1, <1>2, FS_Subset
<1>4. i - 1 \in Nat /\ i - 1 + 1 = i
  OBVIOUS
<1>5. Count(s, k, i - 1) \in Nat
      /\ Count(s, k, i) = Count(s, k, i - 1) + (IF s[i].kind = k THEN 1 ELSE 0)
  BY <1>4, CountNext
<1>6. QED
  BY <1>3, <1>5 DEF Count

\* A count does not look further than the places it counts.
LEMMA CountSame ==
  ASSUME NEW s, NEW t, NEW k, NEW n \in Nat, \A i \in 1 .. n : s[i] = t[i]
  PROVE  Count(s, k, n) = Count(t, k, n)
<1>1. {i \in 1 .. n : s[i].kind = k} = {i \in 1 .. n : t[i].kind = k}
  OBVIOUS
<1>2. QED
  BY <1>1 DEF Count

-----------------------------------------------------------------------------
\* What the steps rely on: what is on the link, and that it is on its way to
\* the end that takes its kind.
QueueType ==
  /\ inbox \in [End -> Seq(Datagram)] /\ arrivals \in [End -> Seq(Datagram)]
  /\ queue \in [Queued -> Seq(1 .. MaxSent)] /\ popped \in [Queued -> Seq(1 .. MaxSent)]
  /\ \A n \in End : \A i \in 1 .. Len(inbox[n]) : Receiver(inbox[n][i].kind) = n
  /\ \A n \in End : Len(inbox[n]) <= Len(arrivals[n])

\* NothingLost for one kind k, of what arrived at its end, of what the link holds
\* there, of what was handed over and of what is queued.
Accounted(k, all, left, gone, in) ==
  LET drained == Len(all) - Len(left)
      taken == gone \o in
  IN  /\ left = SubSeq(all, drained + 1, Len(all))
      /\ Len(taken) = Count(all, k, drained)
      /\ \A i \in 1 .. drained : all[i].kind = k => taken[Count(all, k, i)] = all[i].id

QueueInv ==
  /\ QueueType
  /\ \A k \in Queued : Accounted(k, arrivals[Receiver(k)], inbox[Receiver(k)], popped[k], queue[k])

\* An arrival is counted among what is left.
LEMMA ArrivalAccounted ==
  ASSUME NEW k, NEW all \in Seq(Datagram), NEW left \in Seq(Datagram), NEW gone, NEW in,
         NEW d \in Datagram, Len(left) <= Len(all), Accounted(k, all, left, gone, in)
  PROVE  Accounted(k, Append(all, d), Append(left, d), gone, in)
<1> DEFINE drained == Len(all) - Len(left)
           more == Append(all, d)
<1>1. drained \in Nat /\ drained <= Len(all) /\ drained = Len(more) - Len(Append(left, d))
  OBVIOUS
<1>2. more \in Seq(Datagram) /\ Len(more) = Len(all) + 1 /\ \A i \in 1 .. Len(all) : more[i] = all[i]
  OBVIOUS
<1>3. \A n \in 0 .. drained : Count(more, k, n) = Count(all, k, n)
  <2> TAKE n \in 0 .. drained
  <2>1. n \in Nat /\ \A i \in 1 .. n : more[i] = all[i]
    BY <1>1, <1>2
  <2> HIDE DEF more
  <2>2. QED
    BY <2>1, CountSame
<1>4. Append(left, d) = SubSeq(more, drained + 1, Len(more))
  <2>1. left = SubSeq(all, drained + 1, Len(all))
    BY DEF Accounted
  <2>2. QED
    BY <2>1, <1>1
<1>5. /\ Len(gone \o in) = Count(all, k, drained)
      /\ \A i \in 1 .. drained : all[i].kind = k => (gone \o in)[Count(all, k, i)] = all[i].id
  BY DEF Accounted
<1> HIDE DEF drained, more
<1>6. /\ Len(gone \o in) = Count(more, k, drained)
      /\ \A i \in 1 .. drained : more[i].kind = k => (gone \o in)[Count(more, k, i)] = more[i].id
  <2>1. Count(more, k, drained) = Count(all, k, drained)
    BY <1>1, <1>3
  <2>2. \A i \in 1 .. drained : more[i] = all[i] /\ Count(more, k, i) = Count(all, k, i)
    BY <1>1, <1>2, <1>3
  <2>3. QED
    BY <2>1, <2>2, <1>5
<1>7. QED
  BY <1>1, <1>4, <1>6 DEF Accounted, more

\* The front of what is left, if it is of this kind, goes to the end of the queue.
LEMMA DrainAccounted ==
  ASSUME NEW k, NEW all \in Seq(Datagram), NEW left \in Seq(Datagram), left # << >>,
         NEW gone \in Seq(1 .. MaxSent), NEW in \in Seq(1 .. MaxSent),
         Len(left) <= Len(all), Accounted(k, all, left, gone, in)
  PROVE  Accounted(k, all, Tail(left), gone,
                   IF Head(left).kind = k THEN Append(in, Head(left).id) ELSE in)
<1> DEFINE drained == Len(all) - Len(left)
           d == Head(left)
           more == IF d.kind = k THEN Append(in, d.id) ELSE in
<1>1. drained \in Nat /\ drained + 1 <= Len(all) /\ Len(all) - Len(Tail(left)) = drained + 1
  OBVIOUS
<1>2. left = SubSeq(all, drained + 1, Len(all))
      /\ Len(gone \o in) = Count(all, k, drained)
      /\ \A i \in 1 .. drained : all[i].kind = k => (gone \o in)[Count(all, k, i)] = all[i].id
  BY DEF Accounted
<1>3. d = all[drained + 1] /\ d \in Datagram /\ d.id \in 1 .. MaxSent
  <2>1. d = left[1] /\ d \in Datagram
    OBVIOUS
  <2>2. left[1] = all[drained + 1]
    <3> HIDE DEF drained
    <3>1. SubSeq(all, drained + 1, Len(all))[1] = all[drained + 1]
      BY <1>1
    <3>2. QED
      BY <3>1, <1>2
  <2>3. d.id \in 1 .. MaxSent
    BY <2>1 DEF Datagram
  <2>4. QED
    BY <2>1, <2>2, <2>3
<1>4. Tail(left) = SubSeq(all, drained + 2, Len(all))
  BY <1>1, <1>2
<1> HIDE DEF d, drained
<1>5. Count(all, k, drained) \in Nat
      /\ Count(all, k, drained + 1) = Count(all, k, drained) + (IF d.kind = k THEN 1 ELSE 0)
  BY <1>1, <1>3, CountNext
<1>6. \A i \in 1 .. drained :
        /\ Count(all, k, i) \in Nat
        /\ Count(all, k, i) <= Count(all, k, drained)
        /\ all[i].kind = k => Count(all, k, i) >= 1
  BY <1>1, CountOrder, CountNext
<1>7. /\ Len(gone \o more) = Count(all, k, drained + 1)
      /\ \A i \in 1 .. Len(gone \o in) : (gone \o more)[i] = (gone \o in)[i]
      /\ d.kind = k => (gone \o more)[Count(all, k, drained + 1)] = d.id
  <2>1. CASE d.kind = k
    <3>1. more = Append(in, d.id) /\ Len(more) = Len(in) + 1
      BY <2>1, <1>3
    <3> HIDE DEF more
    <3>2. /\ Len(gone \o more) = Len(gone \o in) + 1
          /\ \A i \in 1 .. Len(gone \o in) : (gone \o more)[i] = (gone \o in)[i]
          /\ (gone \o more)[Len(gone \o in) + 1] = d.id
      BY <3>1, <1>3
    <3>3. QED
      BY <3>2, <2>1, <1>2, <1>5
  <2>2. CASE d.kind # k
    <3>1. more = in /\ Count(all, k, drained + 1) = Count(all, k, drained)
      BY <2>2, <1>5
    <3> HIDE DEF more
    <3>2. QED
      BY <3>1, <2>2, <1>2
  <2>3. QED
    BY <2>1, <2>2
<1> HIDE DEF more
<1>8. ASSUME NEW i \in 1 .. drained + 1, all[i].kind = k
      PROVE  (gone \o more)[Count(all, k, i)] = all[i].id
  <2>1. CASE i = drained + 1
    BY <2>1, <1>8, <1>7, <1>3
  <2>2. CASE i \in 1 .. drained
    <3>1. Count(all, k, i) \in 1 .. Len(gone \o in)
      <4>1. Count(all, k, i) \in Nat /\ Count(all, k, i) <= Count(all, k, drained) /\ Count(all, k, i) >= 1
        BY <2>2, <1>8, <1>6
      <4>2. QED
        BY <4>1, <1>2, <1>5
    <3>2. QED
      <4>1. (gone \o more)[Count(all, k, i)] = (gone \o in)[Count(all, k, i)]
        BY <3>1, <1>7
      <4>2. (gone \o in)[Count(all, k, i)] = all[i].id
        BY <2>2, <1>8, <1>2
      <4>3. QED
        BY <4>1, <4>2
  <2>3. i = drained + 1 \/ i \in 1 .. drained
    BY <1>1
  <2>4. QED
    BY <2>1, <2>2, <2>3
<1>9. Accounted(k, all, Tail(left), gone, more)
  <2>1. Len(all) - Len(Tail(left)) = drained + 1 /\ drained + 1 + 1 = drained + 2
    BY <1>1
  <2>2. QED
    BY <2>1, <1>4, <1>7, <1>8 DEF Accounted
<1>10. QED
  BY <1>9 DEF more, d

\* The front of the queue goes to the end of what was handed over.
LEMMA PopAccounted ==
  ASSUME NEW k, NEW all, NEW left, NEW gone \in Seq(1 .. MaxSent), NEW in \in Seq(1 .. MaxSent),
         in # << >>, Accounted(k, all, left, gone, in)
  PROVE  Accounted(k, all, left, Append(gone, Head(in)), Tail(in))
<1>1. Append(gone, Head(in)) \o Tail(in) = gone \o in
  OBVIOUS
<1>2. QED
  BY <1>1 DEF Accounted

\* Nothing has arrived.
LEMMA NothingAccounted ==
  ASSUME NEW k
  PROVE  Accounted(k, << >>, << >>, << >>, << >>)
<1>1. Count(<< >>, k, 0) = 0
  <2>1. {i \in 1 .. 0 : (<< >>)[i].kind = k} = {}
    OBVIOUS
  <2>2. QED
    BY <2>1, FS_EmptySet DEF Count
<1>2. QED
  BY <1>1 DEF Accounted

\* The invariant holds before anything arrives.
LEMMA InitQueues == LinkInit => QueueInv
<1> SUFFICES ASSUME LinkInit
             PROVE  QueueInv
  OBVIOUS
<1>1. \A k \in Kind : Receiver(k) \in End
  BY DEF Receiver, End
<1>2. \A k \in Queued : Accounted(k, arrivals[Receiver(k)], inbox[Receiver(k)], popped[k], queue[k])
  BY <1>1, NothingAccounted DEF LinkInit, Kind
<1>3. QueueType
  BY DEF LinkInit, QueueType
<1>4. QED
  BY <1>2, <1>3 DEF QueueInv

\* Arrivals keep it: the end they are meant for has one more of their kind left.
LEMMA ArriveQueues ==
  ASSUME QueueInv, NEW kind \in Kind, NEW id \in 1 .. MaxSent, Arrive(kind, id)
  PROVE  QueueInv'
<1> DEFINE n == Receiver(kind)
           d == [kind |-> kind, id |-> id]
<1>1. n \in End /\ d \in Datagram /\ d.kind = kind
  BY DEF Receiver, End, Datagram
<1>2. /\ inbox' = [inbox EXCEPT ![n] = Append(@, d)]
      /\ arrivals' = [arrivals EXCEPT ![n] = Append(@, d)]
      /\ UNCHANGED <<queue, popped>>
  BY DEF Arrive
<1>3. inbox[n] \in Seq(Datagram) /\ arrivals[n] \in Seq(Datagram) /\ Len(inbox[n]) <= Len(arrivals[n])
  BY <1>1 DEF QueueInv, QueueType
<1>4. Receiver(d.kind) = n
  BY <1>1
<1> HIDE DEF d, n
<1>5. /\ Append(inbox[n], d) \in Seq(Datagram) /\ Append(arrivals[n], d) \in Seq(Datagram)
      /\ Len(Append(inbox[n], d)) <= Len(Append(arrivals[n], d))
      /\ \A i \in 1 .. Len(Append(inbox[n], d)) : Receiver(Append(inbox[n], d)[i].kind) = n
  <2>1. \A i \in 1 .. Len(inbox[n]) : Receiver(inbox[n][i].kind) = n
    BY <1>1 DEF QueueInv, QueueType
  <2>2. QED
    BY <1>1, <1>3, <1>4, <2>1
<1>6. /\ inbox'[n] = Append(inbox[n], d) /\ arrivals'[n] = Append(arrivals[n], d)
      /\ \A m \in End : m # n => inbox'[m] = inbox[m] /\ arrivals'[m] = arrivals[m]
  BY <1>1, <1>2 DEF QueueInv, QueueType
<1>7. inbox' \in [End -> Seq(Datagram)] /\ arrivals' \in [End -> Seq(Datagram)]
  BY <1>1, <1>2, <1>5 DEF QueueInv, QueueType
<1>8. QueueType'
  BY <1>2, <1>5, <1>6, <1>7 DEF QueueInv, QueueType
<1>9. ASSUME NEW k \in Queued
      PROVE  Accounted(k, arrivals[Receiver(k)], inbox[Receiver(k)], popped[k], queue[k])'
  <2>1. Receiver(k) \in End /\ Accounted(k, arrivals[Receiver(k)], inbox[Receiver(k)], popped[k], queue[k])
    BY DEF Receiver, End, QueueInv
  <2>2. CASE Receiver(k) = n
    BY <2>1, <2>2, <1>1, <1>2, <1>3, <1>6, ArrivalAccounted
  <2>3. CASE Receiver(k) # n
    BY <2>1, <2>3, <1>2, <1>6
  <2>4. QED
    BY <2>2, <2>3
<1>10. QED
  BY <1>8, <1>9 DEF QueueInv

\* One turn of the loop keeps it: what is at the front is of a kind of this end.
LEMMA PumpQueues ==
  ASSUME QueueInv, NEW n \in End, Pump(n)
  PROVE  QueueInv'
<1> DEFINE d == Head(inbox[n])
<1>1. /\ inbox[n] \in Seq(Datagram) /\ inbox[n] # << >> /\ arrivals[n] \in Seq(Datagram)
      /\ Len(inbox[n]) <= Len(arrivals[n])
      /\ \A i \in 1 .. Len(inbox[n]) : Receiver(inbox[n][i].kind) = n
  BY DEF Pump, QueueInv, QueueType
<1>2. inbox' = [inbox EXCEPT ![n] = Tail(@)] /\ UNCHANGED <<arrivals, popped>>
  BY DEF Pump
<1>3. /\ d \in Datagram /\ d.id \in 1 .. MaxSent /\ Receiver(d.kind) = n
      /\ Tail(inbox[n]) \in Seq(Datagram)
      /\ \A i \in 1 .. Len(Tail(inbox[n])) : Receiver(Tail(inbox[n])[i].kind) = n
  <2>1. /\ d \in Datagram /\ Tail(inbox[n]) \in Seq(Datagram)
        /\ d = inbox[n][1] /\ 1 \in 1 .. Len(inbox[n])
        /\ \A i \in 1 .. Len(Tail(inbox[n])) : Tail(inbox[n])[i] = inbox[n][i + 1] /\ i + 1 \in 1 .. Len(inbox[n])
    BY <1>1
  <2>2. QED
    BY <2>1, <1>1 DEF Datagram
<1> HIDE DEF d
<1>4. \A k \in Queued : queue'[k] = IF d.kind = k THEN Append(queue[k], d.id) ELSE queue[k]
  <2>1. \/ d.kind \in Queued /\ queue' = [queue EXCEPT ![d.kind] = Append(@, d.id)]
        \/ d.kind \notin Queued /\ queue' = queue
    BY DEF Pump, d, Queued
  <2>2. QED
    BY <2>1 DEF QueueInv, QueueType
<1>5. queue' \in [Queued -> Seq(1 .. MaxSent)]
  <2>1. \/ d.kind \in Queued /\ queue' = [queue EXCEPT ![d.kind] = Append(@, d.id)]
        \/ queue' = queue
    BY DEF Pump, d
  <2>2. \A k \in Queued : queue[k] \in Seq(1 .. MaxSent) /\ Append(queue[k], d.id) \in Seq(1 .. MaxSent)
    BY <1>3 DEF QueueInv, QueueType
  <2>3. QED
    BY <2>1, <2>2 DEF QueueInv, QueueType
<1>6. inbox'[n] = Tail(inbox[n]) /\ \A m \in End : m # n => inbox'[m] = inbox[m]
  BY <1>2 DEF QueueInv, QueueType
<1>7. QueueType'
  <2>1. inbox' \in [End -> Seq(Datagram)]
    BY <1>2, <1>3 DEF QueueInv, QueueType
  <2>2. Len(Tail(inbox[n])) <= Len(arrivals[n])
    BY <1>1
  <2>3. \A m \in End : Len(inbox'[m]) <= Len(arrivals'[m])
    BY <2>2, <1>2, <1>6 DEF QueueInv, QueueType
  <2>4. \A m \in End : \A i \in 1 .. Len(inbox'[m]) : Receiver(inbox'[m][i].kind) = m
    BY <1>3, <1>6 DEF QueueInv, QueueType
  <2>5. QED
    BY <2>1, <2>3, <2>4, <1>2, <1>5 DEF QueueInv, QueueType
<1>8. ASSUME NEW k \in Queued
      PROVE  Accounted(k, arrivals[Receiver(k)], inbox[Receiver(k)], popped[k], queue[k])'
  <2>1. /\ Receiver(k) \in End /\ queue[k] \in Seq(1 .. MaxSent) /\ popped[k] \in Seq(1 .. MaxSent)
        /\ Accounted(k, arrivals[Receiver(k)], inbox[Receiver(k)], popped[k], queue[k])
    BY DEF Receiver, End, QueueInv, QueueType
  <2>2. CASE Receiver(k) = n
    <3>1. Accounted(k, arrivals[n], Tail(inbox[n]), popped[k],
                    IF Head(inbox[n]).kind = k THEN Append(queue[k], Head(inbox[n]).id) ELSE queue[k])
      BY <2>1, <2>2, <1>1, DrainAccounted
    <3>2. QED
      BY <3>1, <2>2, <1>2, <1>4, <1>6 DEF d
  <2>3. CASE Receiver(k) # n
    <3>1. d.kind # k
      BY <2>3, <1>3
    <3>2. QED
      BY <3>1, <2>1, <2>3, <1>2, <1>4, <1>6
  <2>4. QED
    BY <2>2, <2>3
<1>9. QED
  BY <1>7, <1>8 DEF QueueInv

\* A call that takes something: the front of its queue is handed over.
LEMMA PopQueues ==
  ASSUME QueueInv, NEW n \in End, Pop(n)
  PROVE  QueueInv'
<1>1. PICK k \in Queued : /\ UNCHANGED <<inbox, arrivals>>
                         /\ \/ UNCHANGED <<queue, popped>>
                            \/ /\ queue[k] # << >>
                               /\ popped' = [popped EXCEPT ![k] = Append(@, Head(queue[k]))]
                               /\ queue' = [queue EXCEPT ![k] = Tail(@)]
  BY DEF Pop
<1>2. CASE UNCHANGED <<queue, popped>>
  BY <1>1, <1>2 DEF QueueInv, QueueType
<1>3. CASE ~ UNCHANGED <<queue, popped>>
  <2>1. /\ queue[k] # << >> /\ queue[k] \in Seq(1 .. MaxSent) /\ popped[k] \in Seq(1 .. MaxSent)
        /\ popped' = [popped EXCEPT ![k] = Append(@, Head(queue[k]))]
        /\ queue' = [queue EXCEPT ![k] = Tail(@)]
    <3>1. /\ queue[k] # << >>
          /\ popped' = [popped EXCEPT ![k] = Append(@, Head(queue[k]))]
          /\ queue' = [queue EXCEPT ![k] = Tail(@)]
      BY <1>1, <1>3
    <3>2. queue[k] \in Seq(1 .. MaxSent) /\ popped[k] \in Seq(1 .. MaxSent)
      BY DEF QueueInv, QueueType
    <3>3. QED
      BY <3>1, <3>2
  <2>2. Append(popped[k], Head(queue[k])) \in Seq(1 .. MaxSent) /\ Tail(queue[k]) \in Seq(1 .. MaxSent)
    <3>1. Head(queue[k]) \in 1 .. MaxSent /\ Tail(queue[k]) \in Seq(1 .. MaxSent)
      BY <2>1, HeadTailProperties
    <3>2. Append(popped[k], Head(queue[k])) \in Seq(1 .. MaxSent)
      BY <2>1, <3>1, AppendProperties
    <3>3. QED
      BY <3>1, <3>2
  <2>3. QueueType'
    BY <2>1, <2>2, <1>1 DEF QueueInv, QueueType
  <2>4. ASSUME NEW j \in Queued
        PROVE  Accounted(j, arrivals[Receiver(j)], inbox[Receiver(j)], popped[j], queue[j])'
    <3>1. Accounted(j, arrivals[Receiver(j)], inbox[Receiver(j)], popped[j], queue[j])
      BY DEF QueueInv
    <3>2. CASE j # k
      BY <3>1, <3>2, <2>1, <1>1 DEF QueueInv, QueueType
    <3>3. CASE j = k
      <4>1. popped'[k] = Append(popped[k], Head(queue[k])) /\ queue'[k] = Tail(queue[k])
        BY <2>1 DEF QueueInv, QueueType
      <4>2. QED
        BY <4>1, <3>1, <3>3, <2>1, <1>1, PopAccounted
    <3>4. QED
      BY <3>2, <3>3
  <2>5. QED
    BY <2>3, <2>4 DEF QueueInv
<1>4. QED
  BY <1>2, <1>3

\* DatagramTransport::Pump and the Pop calls: whatever arrives is handed over
\* once, in the order of arrival, or still has its place in the queue of its
\* kind or on the link.
THEOREM NothingIsLost == LinkSpec => []NothingLost
<1>1. LinkInit => QueueInv
  BY InitQueues
<1>2. QueueInv /\ [LinkNext]_linkVars => QueueInv'
  <2> SUFFICES ASSUME QueueInv, [LinkNext]_linkVars
               PROVE  QueueInv'
    OBVIOUS
  <2>1. CASE UNCHANGED <<inbox, arrivals, queue, popped>>
    BY <2>1 DEF QueueInv, QueueType
  <2>2. ASSUME NEW k \in Kind, NEW id \in 1 .. MaxSent, Arrive(k, id)
        PROVE  QueueInv'
    BY <2>2, ArriveQueues
  <2>3. ASSUME NEW n \in End, Pump(n)
        PROVE  QueueInv'
    BY <2>3, PumpQueues
  <2>4. ASSUME NEW n \in End, Pop(n)
        PROVE  QueueInv'
    BY <2>4, PopQueues
  <2>5. QED
    BY <2>1, <2>2, <2>3, <2>4 DEF LinkNext, linkVars, Send, Begin, Finish, FinishAcquire
<1>3. QueueInv => NothingLost
  BY DEF QueueInv, Accounted, NothingLost
<1>4. QED
  BY <1>1, <1>2, <1>3, PTL DEF LinkSpec

-----------------------------------------------------------------------------
(* Remainders.                                                             *)

\* A remainder below the divisor is what it is.
LEMMA Remainder ==
  ASSUME NEW c \in Nat \ {0}, NEW k \in Int, NEW r \in 0 .. c - 1
  PROVE  (k * c + r) % c = r
OBVIOUS

\* Numbers within one turn of the modulus.
LEMMA Wraps ==
  ASSUME NEW m \in Nat \ {0}, NEW x \in Int
  PROVE  /\ 0 <= x /\ x < m => x % m = x
         /\ 0 - m <= x /\ x < 0 => x % m = x + m
         /\ m <= x /\ x < m + m => x % m = x - m
<1>1. 0 <= x /\ x < m => x % m = x
  OBVIOUS
<1>2. 0 - m <= x /\ x < 0 => x % m = x + m
  OBVIOUS
<1>3. m <= x /\ x < m + m => x % m = x - m
  OBVIOUS
<1>4. QED
  BY <1>1, <1>2, <1>3

\* A multiple more does not change the remainder.
LEMMA Shift ==
  ASSUME NEW c \in Nat \ {0}, NEW n \in Nat, NEW m, m = n * c, NEW x \in Nat
  PROVE  (x + m) % c = x % c
<1> DEFINE j == x \div c
           s == x % c
<1>1. x = j * c + s /\ s \in 0 .. c - 1 /\ j \in Nat
  OBVIOUS
<1> HIDE DEF j, s
<1>2. (n + j) * c = n * c + j * c /\ n + j \in Int
  BY <1>1
<1>3. x + m = (n + j) * c + s
  BY <1>1, <1>2
<1>4. (x + m) % c = s
  BY <1>1, <1>2, <1>3, Remainder
<1>5. QED
  BY <1>4 DEF s

\* Fewer than c numbers in a row have different remainders.
LEMMA Apart ==
  ASSUME NEW c \in Nat \ {0}, NEW a \in Nat, NEW b \in Nat, a <= b, b < a + c, a % c = b % c
  PROVE  a = b
<1> DEFINE i == a \div c
           j == b \div c
           s == a % c
<1>1. a = i * c + s /\ s \in 0 .. c - 1 /\ i \in Nat
  OBVIOUS
<1>2. b = j * c + s /\ j \in Nat
  OBVIOUS
<1> HIDE DEF i, j, s
<1>3. (j - i) * c = j * c - i * c /\ j - i \in Int
  BY <1>1, <1>2
<1>4. (j - i) * c < c /\ 0 <= (j - i) * c
  BY <1>1, <1>2, <1>3
<1>5. ~ (0 < (j - i) * c)
  BY <1>3, <1>4
<1>6. QED
  BY <1>1, <1>2, <1>3, <1>4, <1>5

-----------------------------------------------------------------------------
(* The counters.                                                           *)
Counter == 0 .. Modulus - 1

\* The modulus and the capacity are numbers.
LEMMA Sizes ==
  /\ Capacity \in Nat \ {0} /\ Modulus \in Nat \ {0} /\ Capacity + 1 < Modulus
         /\ \E n \in Nat : Modulus = n * Capacity
<1>1. PICK n \in 1 .. Modulus : Modulus = n * Capacity
  BY PowersDivide
<1>2. Capacity \in Nat \ {0} /\ Capacity + 1 < Modulus
  BY PowersDivide
<1>3. n \in Int
  OBVIOUS
<1>4. Modulus \in Int
  BY <1>1, <1>2, <1>3
<1>5. n \in Nat
  BY <1>4
<1>6. QED
  BY <1>1, <1>2, <1>4, <1>5

\* The slot of a counter i places on, whether or not it has wrapped.
LEMMA SlotOn ==
  ASSUME NEW t \in Counter, NEW i \in 0 .. Capacity
  PROVE  /\ (t + i) % Modulus \in Counter
         /\ SlotOf((t + i) % Modulus) = (t + i) % Capacity
         /\ (t + i) % Modulus = IF t + i < Modulus THEN t + i ELSE t + i - Modulus
         /\ (t + i) % Capacity \in 0 .. Capacity - 1
<1>1. /\ Capacity \in Nat \ {0} /\ Modulus \in Nat \ {0} /\ Capacity + 1 < Modulus
      /\ t \in Nat /\ t < Modulus /\ i \in Nat /\ i <= Capacity
  BY Sizes DEF Counter
<1>2. PICK n \in Nat : Modulus = n * Capacity
  BY Sizes
<1> DEFINE y == t + i
<1>3. y \in Nat /\ y \in Int /\ 0 <= y /\ y < Modulus + Modulus
  BY <1>1
<1>4. t + i = y
  OBVIOUS
<1> HIDE DEF y
<1>5. y % Capacity \in 0 .. Capacity - 1
  BY <1>1, <1>3
<1>6. CASE y < Modulus
  <2>1. y % Modulus = y
    BY <1>1, <1>3, <1>6, Wraps
  <2>2. y \in Counter
    BY <1>1, <1>3, <1>6 DEF Counter
  <2>3. QED
    BY <2>1, <2>2, <1>5, <1>6 DEF SlotOf, y
<1>7. CASE ~ (y < Modulus)
  <2>1. Modulus \in Int /\ Modulus <= y
    BY <1>1, <1>3, <1>7
  <2>2. y % Modulus = y - Modulus
    BY <2>1, <1>1, <1>3, Wraps
  <2> DEFINE x == y - Modulus
  <2>3. y % Modulus = x
    BY <2>2
  <2>4. x \in Nat /\ x + Modulus = y /\ x < Modulus
    BY <1>1, <1>3, <1>7
  <2>5. x \in Counter
    BY <2>4, <1>1 DEF Counter
  <2>6. x = y - Modulus
    OBVIOUS
  <2> HIDE DEF x
  <2>7. (x + Modulus) % Capacity = x % Capacity
    <3>1. PICK k \in Nat : Modulus = k * Capacity
      BY <1>2
    <3>2. Capacity \in Nat \ {0} /\ x \in Nat
      BY <1>1, <2>4
    <3>3. ASSUME NEW m, m = k * Capacity PROVE (x + m) % Capacity = x % Capacity
      BY <3>2, <3>3, Shift
    <3>4. QED
      BY <3>1, <3>3
  <2>8. SlotOf(y % Modulus) = y % Capacity
    BY <2>3, <2>4, <2>7 DEF SlotOf
  <2>9. y % Modulus \in Counter /\ y % Modulus = IF y < Modulus THEN y ELSE y - Modulus
    BY <2>3, <2>5, <2>6, <1>7
  <2>10. y % Modulus \in Counter /\ y % Modulus = IF t + i < Modulus THEN t + i ELSE t + i - Modulus
    BY <2>9, <1>4, <1>1, <1>3
  <2>11. QED
    BY <2>8, <2>10, <1>5, <1>4
<1>8. QED
  BY <1>6, <1>7

\* The distance is the number of steps from one counter to the other.
LEMMA Distances ==
  ASSUME NEW t \in Counter, NEW h \in Counter
  PROVE  /\ Distance(t, h) = IF t <= h THEN h - t ELSE h - t + Modulus
         /\ Distance(t, h) \in Counter
         /\ Distance(t, h) = 0 <=> t = h
<1>1. /\ Modulus \in Nat \ {0} /\ t \in Nat /\ t < Modulus /\ h \in Nat /\ h < Modulus
  BY Sizes DEF Counter
<1> DEFINE y == h - t
<1>2. y \in Int /\ 0 - Modulus <= y /\ y < Modulus /\ (t <= h <=> 0 <= y)
  BY <1>1
<1> HIDE DEF y
<1>3. 0 <= y => y % Modulus = y
  BY <1>1, <1>2, Wraps
<1>4. y < 0 => y % Modulus = y + Modulus
  BY <1>1, <1>2, Wraps
<1>5. y % Modulus = IF t <= h THEN y ELSE y + Modulus
  BY <1>2, <1>3, <1>4
<1>6. Distance(t, h) = IF t <= h THEN y ELSE y + Modulus
  BY <1>5 DEF Distance, y
<1>7. QED
  BY <1>6, <1>1 DEF Counter, y

\* One step on.
LEMMA Steps ==
  ASSUME NEW c \in Counter
  PROVE  Advance(c) \in Counter /\ Advance(c) = IF c + 1 = Modulus THEN 0 ELSE c + 1
<1>1. Modulus \in Nat \ {0} /\ 1 < Modulus /\ c \in Nat /\ c < Modulus
  BY Sizes DEF Counter
<1> DEFINE y == c + 1
<1>2. y \in Int /\ 0 <= y /\ y <= Modulus /\ y < Modulus + Modulus /\ 0 < Modulus
  BY <1>1
<1> HIDE DEF y
<1>3. y < Modulus => y % Modulus = y
  BY <1>1, <1>2, Wraps
<1>4. y = Modulus => y % Modulus = 0
  BY <1>1, <1>2, Wraps
<1>5. y % Modulus = IF y = Modulus THEN 0 ELSE y
  BY <1>1, <1>2, <1>3, <1>4
<1>6. QED
  BY <1>1, <1>5 DEF Advance, Counter, y

\* What a push and a pop do to the distance, and what its end is.
LEMMA Moves ==
  ASSUME NEW t \in Counter, NEW h \in Counter, Distance(t, h) <= Capacity
  PROVE  /\ Distance(t, h) \in 0 .. Capacity
         /\ Distance(t, Advance(h)) = Distance(t, h) + 1
         /\ t # h => Distance(Advance(t), h) = Distance(t, h) - 1
         /\ (t + Distance(t, h)) % Modulus = h
         /\ SlotOf(h) = (t + Distance(t, h)) % Capacity
         /\ \A i \in 0 .. Capacity - 1 : (Advance(t) + i) % Capacity = (t + (i + 1)) % Capacity
<1> DEFINE d == Distance(t, h)
<1>1. /\ Capacity \in Nat \ {0} /\ Modulus \in Nat \ {0} /\ Capacity + 1 < Modulus
      /\ t \in Nat /\ t < Modulus /\ h \in Nat /\ h < Modulus
  BY Sizes DEF Counter
<1>2. d = (IF t <= h THEN h - t ELSE h - t + Modulus) /\ d \in Counter
  BY Distances
<1>3. d \in Nat /\ d <= Capacity
  BY <1>2 DEF Counter
<1>4. Advance(h) \in Counter /\ Advance(h) = IF h + 1 = Modulus THEN 0 ELSE h + 1
  BY Steps
<1>5. Advance(t) \in Counter /\ Advance(t) = IF t + 1 = Modulus THEN 0 ELSE t + 1
  BY Steps
<1>6. Distance(t, Advance(h)) = IF t <= Advance(h) THEN Advance(h) - t ELSE Advance(h) - t + Modulus
  BY <1>4, Distances
<1>7. Distance(Advance(t), h) = IF Advance(t) <= h THEN h - Advance(t) ELSE h - Advance(t) + Modulus
  BY <1>5, Distances
<1> HIDE DEF d
<1>8. Distance(t, Advance(h)) = d + 1
  BY <1>1, <1>2, <1>3, <1>4, <1>6
<1>9. t # h => Distance(Advance(t), h) = d - 1
  BY <1>1, <1>2, <1>3, <1>5, <1>7
<1>10. d \in 0 .. Capacity
  BY <1>1, <1>3
<1>11. (t + d) % Modulus = (IF t + d < Modulus THEN t + d ELSE t + d - Modulus)
       /\ SlotOf((t + d) % Modulus) = (t + d) % Capacity
  BY <1>10, SlotOn
<1>12. (t + d) % Modulus = h
  BY <1>1, <1>2, <1>3, <1>11
<1>13. ASSUME NEW i \in 0 .. Capacity - 1
       PROVE  (Advance(t) + i) % Capacity = (t + (i + 1)) % Capacity
  <2>1. i \in 0 .. Capacity /\ i + 1 \in 0 .. Capacity /\ i \in Nat /\ i < Capacity
    BY <1>1
  <2>2. /\ SlotOf((Advance(t) + i) % Modulus) = (Advance(t) + i) % Capacity
        /\ (Advance(t) + i) % Modulus = IF Advance(t) + i < Modulus THEN Advance(t) + i
                                        ELSE Advance(t) + i - Modulus
    BY <2>1, <1>5, SlotOn
  <2>3. /\ SlotOf((t + (i + 1)) % Modulus) = (t + (i + 1)) % Capacity
        /\ (t + (i + 1)) % Modulus = IF t + (i + 1) < Modulus THEN t + (i + 1)
                                     ELSE t + (i + 1) - Modulus
    BY <2>1, SlotOn
  <2>4. (Advance(t) + i) % Modulus = (t + (i + 1)) % Modulus
    BY <2>1, <2>2, <2>3, <1>1, <1>5
  <2>5. QED
    BY <2>2, <2>3, <2>4
<1>14. QED
  BY <1>8, <1>9, <1>10, <1>11, <1>12, <1>13 DEF d

-----------------------------------------------------------------------------
(* The inductive invariant.  The i-th item waiting is in the i-th slot from*)
(* the tail's on.                                                          *)
Held == Distance(tail, head)

Room == Held <= Capacity /\ (ringProd # "idle" => Held < Capacity /\ calls < MaxCalls)

WholeItems == \A i \in 0 .. Held - 1 : buffer[(tail + i) % Capacity].a = buffer[(tail + i) % Capacity].b

Filling ==
  /\ ringProd \in {"half", "filled"} => buffer[SlotOf(head)].a = calls + 1
  /\ ringProd = "filled" => buffer[SlotOf(head)].b = calls + 1

Copying ==
  /\ ringCons # "idle" => 0 < Held
  /\ ringCons \in {"half", "copied"} => out.a = buffer[SlotOf(tail)].a
  /\ ringCons = "copied" => out.b = buffer[SlotOf(tail)].b

RingInv == RingTypeOK /\ Room /\ WholeItems /\ Filling /\ Copying

\* The counters' facts in an invariant state.
LEMMA Places ==
  ASSUME RingInv
  PROVE  /\ Held \in 0 .. Capacity
         /\ head \in Counter /\ tail \in Counter
         /\ SlotOf(head) = (tail + Held) % Capacity
         /\ SlotOf(head) \in 0 .. Capacity - 1
         /\ SlotOf(tail) = (tail + 0) % Capacity
         /\ SlotOf(tail) \in 0 .. Capacity - 1
         /\ \A i \in 0 .. Capacity : (tail + i) % Capacity \in 0 .. Capacity - 1
<1>1. head \in Counter /\ tail \in Counter /\ Distance(tail, head) <= Capacity
  BY DEF RingInv, RingTypeOK, Counter, Room, Held
<1>2. Held \in 0 .. Capacity /\ SlotOf(head) = (tail + Held) % Capacity
  BY <1>1, Moves DEF Held
<1>3. \A i \in 0 .. Capacity : (tail + i) % Capacity \in 0 .. Capacity - 1
  BY <1>1, SlotOn
<1>4. tail \in Nat /\ tail + 0 = tail /\ Capacity \in Nat \ {0}
  BY <1>1, Sizes DEF Counter
<1>5. 0 \in 0 .. Capacity /\ SlotOf(tail) = (tail + 0) % Capacity
  BY <1>4 DEF SlotOf
<1>6. QED
  BY <1>1, <1>2, <1>3, <1>5

\* The slot being filled is none of those that hold an item.
LEMMA FreeSlot ==
  ASSUME RingInv, Held < Capacity, NEW i \in 0 .. Held - 1
  PROVE  (tail + i) % Capacity # SlotOf(head)
<1>1. Held \in Nat /\ tail \in Nat /\ Capacity \in Nat \ {0} /\ i \in Nat /\ i < Held
  BY Places, Sizes DEF Counter
<1> DEFINE a == tail + i
           b == tail + Held
<1>2. a \in Nat /\ b \in Nat /\ a <= b /\ b < a + Capacity /\ a # b
  BY <1>1
<1>3. SlotOf(head) = b % Capacity
  BY Places
<1> HIDE DEF a, b
<1>4. a % Capacity # b % Capacity
  BY <1>1, <1>2, Apart
<1>5. QED
  BY <1>3, <1>4 DEF a

-----------------------------------------------------------------------------
(* Each step keeps the invariant.                                          *)

\* The empty ring.
LEMMA RingStart ==
  ASSUME RingInit
  PROVE  RingInv
<1>1. 0 \in Counter /\ Capacity \in Nat \ {0}
  BY Sizes DEF Counter
<1>2. Held = 0
  BY <1>1, Distances DEF Held, RingInit
<1>3. MaxCalls \in Nat
  BY WidthFits
<1>4. RingTypeOK
  BY <1>1, <1>3 DEF RingTypeOK, RingInit, Counter, Item
<1>5. QED
  BY <1>1, <1>2, <1>4 DEF RingInv, Room, WholeItems, Filling, Copying, RingInit

\* Entering a call changes neither the slots nor the counters.
LEMMA Entering ==
  ASSUME RingInv, PushFull \/ PushBegin \/ PopBegin
  PROVE  RingInv'
<1>1. /\ MaxCalls \in Nat /\ head \in Counter /\ tail \in Counter /\ Held \in 0 .. Capacity
      /\ Held \in Nat /\ Capacity \in Nat \ {0} /\ calls \in 0 .. MaxCalls
  BY WidthFits, Places, Sizes DEF RingInv, RingTypeOK
<1>2. Held' = Held
  BY DEF Held, PushFull, PushBegin, PopBegin
<1>3. RingTypeOK'
  BY <1>1 DEF RingInv, RingTypeOK, PushFull, PushBegin, PopBegin
<1>4. Room'
  <2>1. CASE PushBegin
    <3>1. ~ (Distance(tail, Advance(head)) > Capacity) /\ calls < MaxCalls
      BY <2>1 DEF PushBegin, Full
    <3>2. Distance(tail, Advance(head)) = Held + 1
      BY <1>1, Moves DEF Held, RingInv, Room
    <3>3. Held < Capacity
      BY <3>1, <3>2, <1>1
    <3>4. QED
      BY <2>1, <3>1, <3>3, <1>1, <1>2 DEF Room, PushBegin
  <2>2. CASE PushFull \/ PopBegin
    BY <2>2, <1>2 DEF RingInv, Room, PushFull, PopBegin
  <2>3. QED
    BY <2>1, <2>2
<1>5. WholeItems'
  BY <1>2 DEF RingInv, WholeItems, PushFull, PushBegin, PopBegin
<1>6. Filling'
  BY DEF RingInv, Filling, PushFull, PushBegin, PopBegin
<1>7. Copying'
  <2>1. PopBegin => 0 < Held
    BY <1>1, Distances DEF PopBegin, NonEmpty, Held
  <2>2. QED
    BY <2>1, <1>2 DEF RingInv, Copying, PushFull, PushBegin, PopBegin
<1>8. QED
  BY <1>3, <1>4, <1>5, <1>6, <1>7 DEF RingInv

\* Filling writes the free slot, so that the items waiting and the item
\* being copied stay as they are.
LEMMA FillingKeeps ==
  ASSUME RingInv, FillFirst \/ FillSecond
  PROVE  /\ RingInv'
         /\ \A i \in 0 .. Held - 1 : buffer'[(tail + i) % Capacity] = buffer[(tail + i) % Capacity]
<1>1. /\ MaxCalls \in Nat /\ Held \in 0 .. Capacity
      /\ Capacity \in Nat \ {0} /\ calls \in 0 .. MaxCalls
      /\ calls < MaxCalls /\ Held < Capacity
  BY WidthFits, Places, Sizes DEF RingInv, RingTypeOK, Room, FillFirst, FillSecond
<1>2. /\ Held' = Held /\ tail' = tail /\ head' = head /\ calls' = calls /\ ringCons' = ringCons /\ out' = out
      /\ SlotOf(head)' = SlotOf(head) /\ SlotOf(tail)' = SlotOf(tail)
  BY DEF Held, SlotOf, FillFirst, FillSecond
<1> DEFINE s == SlotOf(head)
<1>3. s \in 0 .. Capacity - 1 /\ buffer \in [0 .. Capacity - 1 -> Item] /\ calls + 1 \in 0 .. MaxCalls
  BY <1>1, Places DEF RingInv, RingTypeOK
<1>4. /\ FillFirst => buffer' = [buffer EXCEPT ![s].a = calls + 1]
      /\ FillSecond => buffer' = [buffer EXCEPT ![s].b = calls + 1]
  BY DEF FillFirst, FillSecond
<1> HIDE DEF s
<1>5. \A k \in 0 .. Capacity - 1 : k # s => buffer'[k] = buffer[k]
  BY <1>3, <1>4
<1>6. buffer[s] \in Item
  BY <1>3
<1>7. /\ FillFirst => buffer'[s].a = calls + 1 /\ buffer'[s].b = buffer[s].b
      /\ FillSecond => buffer'[s].b = calls + 1 /\ buffer'[s].a = buffer[s].a
  BY <1>3, <1>4, <1>6 DEF Item
<1>8. buffer' \in [0 .. Capacity - 1 -> Item]
  BY <1>3, <1>4, <1>6 DEF Item
<1>9. ASSUME NEW i \in 0 .. Held - 1
      PROVE  buffer'[(tail + i) % Capacity] = buffer[(tail + i) % Capacity]
  <2>1. (tail + i) % Capacity # s
    BY <1>1, FreeSlot DEF s
  <2>2. i \in 0 .. Capacity
    BY <1>1
  <2>3. (tail + i) % Capacity \in 0 .. Capacity - 1
    BY <2>2, Places
  <2>4. QED
    BY <2>1, <2>3, <1>5
<1>10. RingTypeOK'
  BY <1>8, <1>2 DEF RingInv, RingTypeOK, FillFirst, FillSecond
<1>11. Room'
  BY <1>1, <1>2 DEF RingInv, Room
<1>12. WholeItems'
  BY <1>2, <1>9 DEF RingInv, WholeItems
<1>13. Filling'
  BY <1>2, <1>7 DEF RingInv, Filling, FillFirst, FillSecond, s
<1>14. Copying'
  <2>1. SUFFICES ASSUME ringCons # "idle" PROVE Copying'
    BY <1>2 DEF Copying
  <2>2. 0 < Held
    BY <2>1 DEF RingInv, Copying
  <2>3. 0 \in 0 .. Held - 1
    BY <2>2, <1>1
  <2>4. buffer'[SlotOf(tail)] = buffer[SlotOf(tail)]
    BY <2>3, <1>9, Places
  <2>5. QED
    BY <2>2, <2>4, <1>2 DEF RingInv, Copying
<1>15. QED
  BY <1>9, <1>10, <1>11, <1>12, <1>13, <1>14 DEF RingInv

\* Storing the head hands the filled slot to the consumer.
LEMMA StoringHead ==
  ASSUME RingInv, StoreHead
  PROVE  RingInv' /\ Held' = Held + 1
<1>1. /\ MaxCalls \in Nat /\ head \in Counter /\ tail \in Counter /\ Held \in 0 .. Capacity
      /\ Held \in Nat /\ Capacity \in Nat \ {0} /\ calls \in 0 .. MaxCalls
      /\ Held < Capacity /\ calls < MaxCalls
  BY WidthFits, Places, Sizes DEF RingInv, RingTypeOK, Room, StoreHead
<1>2. /\ tail' = tail /\ head' = Advance(head) /\ buffer' = buffer /\ ringProd' = "idle"
      /\ ringCons' = ringCons /\ out' = out
  BY DEF StoreHead
<1>3. Distance(tail, Advance(head)) = Held + 1
  BY <1>1, Moves DEF Held
<1>4. Held' = Held + 1
  BY <1>2, <1>3 DEF Held
<1>5. RingTypeOK'
  <2>1. Advance(head) \in 0 .. Modulus - 1
    BY <1>1, Steps DEF Counter
  <2>2. calls + 1 \in 0 .. MaxCalls
    BY <1>1
  <2>3. QED
    BY <2>1, <2>2 DEF RingInv, RingTypeOK, StoreHead
<1>6. Room'
  BY <1>1, <1>2, <1>4 DEF Room
<1>7. WholeItems'
  <2>1. buffer[(tail + Held) % Capacity].a = buffer[(tail + Held) % Capacity].b
    BY Places DEF RingInv, Filling, StoreHead
  <2>2. \A i \in 0 .. (Held + 1) - 1 : i \in 0 .. Held - 1 \/ i = Held
    BY <1>1
  <2>3. \A i \in 0 .. (Held + 1) - 1 :
          buffer[(tail + i) % Capacity].a = buffer[(tail + i) % Capacity].b
    BY <2>1, <2>2 DEF RingInv, WholeItems
  <2>4. QED
    BY <2>3, <1>2, <1>4 DEF WholeItems
<1>8. Filling'
  BY <1>2 DEF Filling
<1>9. Copying'
  BY <1>1, <1>2, <1>4 DEF RingInv, Copying, SlotOf
<1>10. QED
  BY <1>4, <1>5, <1>6, <1>7, <1>8, <1>9 DEF RingInv

\* Copying reads the slot word by word.
LEMMA CopyingKeeps ==
  ASSUME RingInv, CopyFirst \/ CopySecond
  PROVE  RingInv'
<1>1. /\ Held' = Held /\ tail' = tail /\ head' = head /\ calls' = calls /\ ringProd' = ringProd
      /\ buffer' = buffer
      /\ SlotOf(head)' = SlotOf(head) /\ SlotOf(tail)' = SlotOf(tail)
  BY DEF Held, SlotOf, CopyFirst, CopySecond
<1>2. buffer[SlotOf(tail)] \in Item /\ out \in Item
  BY Places DEF RingInv, RingTypeOK
<1>3. /\ CopyFirst => out' = [out EXCEPT !.a = buffer[SlotOf(tail)].a]
      /\ CopySecond => out' = [out EXCEPT !.b = buffer[SlotOf(tail)].b]
  BY DEF CopyFirst, CopySecond
<1>4. /\ out' \in Item
      /\ CopyFirst => out'.a = buffer[SlotOf(tail)].a
      /\ CopySecond => out'.b = buffer[SlotOf(tail)].b /\ out'.a = out.a
  BY <1>2, <1>3 DEF Item
<1>5. RingTypeOK'
  BY <1>4 DEF RingInv, RingTypeOK, CopyFirst, CopySecond
<1>6. Room' /\ WholeItems' /\ Filling'
  BY <1>1 DEF RingInv, Room, WholeItems, Filling
<1>7. Copying'
  BY <1>1, <1>4 DEF RingInv, Copying, CopyFirst, CopySecond
<1>8. QED
  BY <1>5, <1>6, <1>7 DEF RingInv

\* Storing the tail gives the copied slot back.
LEMMA StoringTail ==
  ASSUME RingInv, StoreTail
  PROVE  /\ RingInv' /\ 0 < Held /\ Held' = Held - 1
         /\ \A i \in 0 .. Held - 2 : (tail' + i) % Capacity = (tail + (i + 1)) % Capacity
         /\ out.a = buffer[(tail + 0) % Capacity].a
<1>1. /\ head \in Counter /\ tail \in Counter /\ Held \in 0 .. Capacity
      /\ Held \in Nat /\ Capacity \in Nat \ {0} /\ 0 < Held
      /\ Distance(tail, head) <= Capacity
  BY Places, Sizes DEF RingInv, Copying, StoreTail, Held
<1>2. /\ tail' = Advance(tail) /\ head' = head /\ buffer' = buffer /\ ringProd' = ringProd
      /\ ringCons' = "idle" /\ out' = out /\ calls' = calls /\ got' = out.a
  BY DEF StoreTail
<1>3. tail # head
  BY <1>1, Distances DEF Held
<1>4. Held' = Held - 1
  BY <1>1, <1>2, <1>3, Moves DEF Held
<1>5. \A i \in 0 .. Capacity - 1 : (tail' + i) % Capacity = (tail + (i + 1)) % Capacity
  BY <1>1, <1>2, Moves
<1>6. \A i \in 0 .. Held - 2 : i \in 0 .. Capacity - 1 /\ i + 1 \in 0 .. Held - 1
  BY <1>1
<1>7. RingTypeOK'
  <2>1. Advance(tail) \in 0 .. Modulus - 1
    BY <1>1, Steps DEF Counter
  <2>2. out.a \in 0 .. MaxCalls
    BY DEF RingInv, RingTypeOK, Item
  <2>3. QED
    BY <2>1, <2>2 DEF RingInv, RingTypeOK, StoreTail
<1>8. Room'
  BY <1>1, <1>2, <1>4 DEF RingInv, Room
<1>9. WholeItems'
  <2>1. \A i \in 0 .. Held - 2 :
          buffer[(tail' + i) % Capacity].a = buffer[(tail' + i) % Capacity].b
    BY <1>5, <1>6 DEF RingInv, WholeItems
  <2>2. (Held - 1) - 1 = Held - 2
    BY <1>1
  <2>3. QED
    BY <2>1, <2>2, <1>2, <1>4 DEF WholeItems
<1>10. Filling'
  BY <1>2 DEF RingInv, Filling, SlotOf
<1>11. Copying'
  BY <1>2 DEF Copying
<1>12. out.a = buffer[(tail + 0) % Capacity].a
  BY Places DEF RingInv, Copying, StoreTail
<1>13. QED
  BY <1>1, <1>4, <1>5, <1>6, <1>7, <1>8, <1>9, <1>10, <1>11, <1>12 DEF RingInv

\* Every step keeps the invariant.
LEMMA RingStep ==
  ASSUME RingInv, [RingNext]_ringVars
  PROVE  RingInv'
<1>1. CASE RingNext
  BY <1>1, Entering, FillingKeeps, StoringHead, CopyingKeeps, StoringTail
     DEF RingNext, FinishPush, RingPop
<1>2. CASE UNCHANGED ringVars
  BY <1>2 DEF ringVars, RingInv, RingTypeOK, Room, WholeItems, Filling, Copying, Held, SlotOf
<1>3. QED
  BY <1>1, <1>2

\* In an invariant state the slots of the two sides differ, and a copied
\* item is one item.
LEMMA RingSafe ==
  ASSUME RingInv
  PROVE  NoOverwrite
<1>1. /\ ringCons # "idle" => 0 < Held
      /\ ringProd # "idle" => Held < Capacity
      /\ Held \in Nat
  BY Places DEF RingInv, Room, Copying
<1>2. 0 < Held => 0 \in 0 .. Held - 1
  BY <1>1
<1>3. 0 < Held /\ Held < Capacity => SlotOf(head) # SlotOf(tail)
  BY <1>2, FreeSlot, Places
<1>4. ringCons = "copied" => out.a = out.b
  BY <1>1, <1>2, Places DEF RingInv, Copying, WholeItems
<1>5. QED
  BY <1>1, <1>3, <1>4 DEF NoOverwrite

\* Pop never copies out of a slot that Push is filling, and what it has
\* copied is one item whole.
THEOREM ItemsAreWhole == RingSpec => []NoOverwrite
<1>1. RingInit => RingInv
  BY RingStart
<1>2. RingInv /\ [RingNext]_ringVars => RingInv'
  BY RingStep
<1>3. RingInv => NoOverwrite
  BY RingSafe
<1>4. QED
  BY <1>1, <1>2, <1>3, PTL DEF RingSpec

-----------------------------------------------------------------------------
(* The bounded queue.                                                      *)
Row(b, t, h) == [i \in 1 .. Distance(t, h) |-> b[SlotOf((t + i - 1) % Modulus)].a]

\* The items in the ring are a sequence as long as the distance.
LEMMA Rows ==
  ASSUME NEW b \in [0 .. Capacity - 1 -> Item], NEW t \in Counter, NEW h \in Counter,
         Distance(t, h) <= Capacity
  PROVE  /\ Row(b, t, h) \in Seq(0 .. MaxCalls)
         /\ Len(Row(b, t, h)) = Distance(t, h)
         /\ \A i \in 1 .. Distance(t, h) : Row(b, t, h)[i] = b[(t + (i - 1)) % Capacity].a
<1> DEFINE d == Distance(t, h)
<1>1. d \in Nat /\ d <= Capacity /\ Capacity \in Nat \ {0} /\ t \in Nat
  BY Moves, Sizes DEF Counter
<1> HIDE DEF d
<1>2. ASSUME NEW i \in 1 .. d
      PROVE  /\ b[SlotOf((t + i - 1) % Modulus)].a = b[(t + (i - 1)) % Capacity].a
             /\ b[(t + (i - 1)) % Capacity].a \in 0 .. MaxCalls
  <2>1. i - 1 \in 0 .. Capacity /\ t + i - 1 = t + (i - 1)
    BY <1>1
  <2> DEFINE j == i - 1
  <2>2. j \in 0 .. Capacity /\ t + i - 1 = t + j
    BY <2>1
  <2> HIDE DEF j
  <2>3. /\ SlotOf((t + j) % Modulus) = (t + j) % Capacity
        /\ (t + j) % Capacity \in 0 .. Capacity - 1
    BY <2>2, SlotOn
  <2>4. b[(t + j) % Capacity] \in Item
    BY <2>3
  <2>5. QED
    BY <2>2, <2>3, <2>4 DEF Item, j
<1>3. Row(b, t, h) = [i \in 1 .. d |-> b[SlotOf((t + i - 1) % Modulus)].a]
  BY DEF Row, d
<1> DEFINE s == Row(b, t, h)
<1>4. s \in [1 .. d -> 0 .. MaxCalls]
  BY <1>2, <1>3
<1>5. \A i \in 1 .. d : s[i] = b[(t + (i - 1)) % Capacity].a
  BY <1>2, <1>3
<1> HIDE DEF s
<1>6. s \in Seq(0 .. MaxCalls)
  BY <1>1, <1>4, SeqDef
<1>8. DOMAIN s = 1 .. d
  BY <1>4
<1>9. Len(s) = d
  BY <1>1, <1>6, <1>8, LenProperties
<1>7. QED
  BY <1>5, <1>6, <1>9 DEF s, d

\* The same of the ring itself.
LEMMA RingRow ==
  ASSUME RingInv
  PROVE  /\ Contents \in Seq(0 .. MaxCalls) /\ Len(Contents) = Held
         /\ \A i \in 1 .. Held : Contents[i] = buffer[(tail + (i - 1)) % Capacity].a
<1>1. /\ buffer \in [0 .. Capacity - 1 -> Item] /\ tail \in Counter /\ head \in Counter
      /\ Distance(tail, head) <= Capacity
  BY DEF RingInv, RingTypeOK, Counter, Room, Held
<1>2. Contents = Row(buffer, tail, head)
  BY DEF Contents, Row
<1>3. QED
  BY <1>1, <1>2, Rows DEF Held

LEMMA RingRowNext ==
  ASSUME RingInv'
  PROVE  /\ Contents' \in Seq(0 .. MaxCalls) /\ Len(Contents') = Held'
         /\ \A i \in 1 .. Held' : Contents'[i] = buffer'[(tail' + (i - 1)) % Capacity].a
<1>1. /\ buffer' \in [0 .. Capacity - 1 -> Item] /\ tail' \in Counter /\ head' \in Counter
      /\ Distance(tail', head') <= Capacity
  BY DEF RingInv, RingTypeOK, Counter, Room, Held
<1>2. Contents' = Row(buffer', tail', head')
  BY DEF Contents, Row
<1> DEFINE b == buffer'
           t == tail'
           h == head'
<1>3. /\ b \in [0 .. Capacity - 1 -> Item] /\ t \in Counter /\ h \in Counter
      /\ Distance(t, h) <= Capacity /\ Contents' = Row(b, t, h) /\ Held' = Distance(t, h)
  BY <1>1, <1>2 DEF Held
<1>4. \A i \in 1 .. Held' : buffer'[(tail' + (i - 1)) % Capacity].a = b[(t + (i - 1)) % Capacity].a
  OBVIOUS
<1> HIDE DEF b, t, h
<1>5. QED
  BY <1>3, <1>4, Rows

\* The empty ring is the empty queue.
LEMMA QueueStart ==
  ASSUME RingInit
  PROVE  Fifo!Init
<1>1. RingInv
  BY RingStart
<1>2. 0 \in Counter
  BY Sizes DEF Counter
<1>3. Held = 0
  BY <1>2, Distances DEF Held, RingInit
<1>4. Contents = <<>>
  BY <1>1, <1>3, RingRow, EmptySeq
<1>5. QED
  BY <1>4 DEF Fifo!Init, RingInit

\* A step that leaves the items where they are is no step of the queue.
LEMMA QueueRests ==
  ASSUME RingInv, RingInv', Held' = Held, tail' = tail,
         \A i \in 0 .. Held - 1 : buffer'[(tail + i) % Capacity] = buffer[(tail + i) % Capacity]
  PROVE  Contents' = Contents
<1>1. Held \in Nat
  BY Places
<1>2. \A i \in 1 .. Held : i - 1 \in 0 .. Held - 1
  BY <1>1
<1>3. \A i \in 1 .. Held : Contents'[i] = Contents[i]
  BY <1>2, RingRow, RingRowNext
<1>4. QED
  BY <1>3, RingRow, RingRowNext, SeqEqual

\* Every step of the ring is a step of the queue or none.
LEMMA QueueStep ==
  ASSUME RingInv, [RingNext]_ringVars
  PROVE  [Fifo!Next]_(Fifo!vars)
<1>1. RingInv' /\ Held \in Nat /\ Held \in 0 .. Capacity /\ Capacity \in Nat
  BY RingStep, Places, Sizes
<1>2. CASE PushFull
  <2>1. Distance(tail, Advance(head)) = Held + 1
    BY <1>1, Places, Moves DEF Held, RingInv, Room
  <2>2. Held = Capacity
    BY <2>1, <1>1, <1>2 DEF PushFull, Full
  <2>3. Contents' = Contents
    BY <1>2 DEF PushFull, Contents
  <2>4. Fifo!Drop
    BY <2>2, <2>3, <1>2, RingRow DEF Fifo!Drop, PushFull
  <2>5. QED
    BY <2>4 DEF Fifo!Next
<1>3. CASE PushBegin \/ PopBegin \/ CopyFirst \/ CopySecond
  <2>1. Contents' = Contents /\ calls' = calls /\ got' = got
    BY <1>3 DEF Contents, PushBegin, PopBegin, CopyFirst, CopySecond
  <2>2. QED
    BY <2>1 DEF Fifo!vars
<1>4. CASE FillFirst \/ FillSecond
  <2>1. Held' = Held /\ tail' = tail /\ calls' = calls /\ got' = got
    BY <1>4 DEF Held, FillFirst, FillSecond
  <2>2. Contents' = Contents
    BY <2>1, <1>1, <1>4, FillingKeeps, QueueRests
  <2>3. QED
    BY <2>1, <2>2 DEF Fifo!vars
<1>5. CASE StoreHead
  <2>1. Held' = Held + 1 /\ tail' = tail /\ buffer' = buffer /\ calls' = calls + 1 /\ got' = got
    BY <1>5, StoringHead DEF StoreHead
  <2>2. Held < Capacity /\ calls + 1 \in 0 .. MaxCalls
    <3>1. Held < Capacity /\ calls < MaxCalls /\ calls \in 0 .. MaxCalls /\ MaxCalls \in Nat
      BY WidthFits, <1>5 DEF RingInv, Room, StoreHead, RingTypeOK
    <3>2. QED
      BY <3>1
  <2> DEFINE q == Append(Contents, calls + 1)
  <2>3. /\ q \in Seq(0 .. MaxCalls) /\ Len(q) = Held + 1
        /\ \A i \in 1 .. Held + 1 : q[i] = IF i <= Held THEN Contents[i] ELSE calls + 1
    BY <2>2, <1>1, RingRow, AppendProperties
  <2>4. /\ Contents' \in Seq(0 .. MaxCalls) /\ Len(Contents') = Held + 1
        /\ \A i \in 1 .. Held + 1 : Contents'[i] = buffer[(tail + (i - 1)) % Capacity].a
    BY <2>1, <1>1, RingRowNext
  <2>5. ASSUME NEW i \in 1 .. Held + 1 PROVE Contents'[i] = q[i]
    <3>1. CASE i <= Held
      <4>1. i \in 1 .. Held
        BY <3>1, <1>1
      <4>2. QED
        BY <4>1, <3>1, <2>3, <2>4, RingRow
    <3>2. CASE ~ (i <= Held)
      <4>1. i - 1 = Held
        BY <3>2, <1>1
      <4>2. buffer[(tail + Held) % Capacity].a = calls + 1
        BY <1>5, Places DEF RingInv, Filling, StoreHead
      <4>3. QED
        BY <4>1, <4>2, <3>2, <2>3, <2>4
    <3>3. QED
      BY <3>1, <3>2
  <2> HIDE DEF q
  <2>6. Contents' = q
    BY <2>3, <2>4, <2>5, SeqEqual
  <2>7. Fifo!Push
    BY <2>1, <2>2, <2>6, RingRow DEF Fifo!Push, q
  <2>8. QED
    BY <2>7 DEF Fifo!Next
<1>6. CASE StoreTail
  <2>1. /\ 0 < Held /\ Held' = Held - 1 /\ out.a = buffer[(tail + 0) % Capacity].a
        /\ \A i \in 0 .. Held - 2 : (tail' + i) % Capacity = (tail + (i + 1)) % Capacity
        /\ buffer' = buffer /\ calls' = calls /\ got' = out.a
    BY <1>6, StoringTail DEF StoreTail
  <2>2. Contents \in Seq(0 .. MaxCalls) /\ Len(Contents) = Held /\ Contents # <<>>
    BY <2>1, <1>1, RingRow, EmptySeq
  <2>3. got' = Head(Contents)
    <3>1. Head(Contents) = Contents[1]
      BY <2>2
    <3>2. 1 \in 1 .. Held /\ 1 - 1 = 0
      BY <2>1, <1>1
    <3>3. Contents[1] = buffer[(tail + (1 - 1)) % Capacity].a
      BY <3>2, RingRow
    <3>4. QED
      BY <3>1, <3>2, <3>3, <2>1
  <2> DEFINE q == Tail(Contents)
  <2>4. /\ q \in Seq(0 .. MaxCalls) /\ Len(q) = Held - 1
        /\ \A i \in 1 .. Held - 1 : q[i] = Contents[i + 1]
    BY <2>2, HeadTailProperties
  <2>5. /\ Contents' \in Seq(0 .. MaxCalls) /\ Len(Contents') = Held - 1
        /\ \A i \in 1 .. Held - 1 : Contents'[i] = buffer[(tail' + (i - 1)) % Capacity].a
    BY <2>1, <1>1, RingRowNext
  <2>6. ASSUME NEW i \in 1 .. Held - 1 PROVE Contents'[i] = q[i]
    <3>1. /\ i - 1 \in 0 .. Held - 2 /\ i + 1 \in 1 .. Held
          /\ (i - 1) + 1 = i /\ (i + 1) - 1 = i
      BY <1>1
    <3>2. (tail' + (i - 1)) % Capacity = (tail + i) % Capacity
      BY <3>1, <2>1
    <3>3. Contents[i + 1] = buffer[(tail + i) % Capacity].a
      BY <3>1, RingRow
    <3>4. QED
      BY <3>2, <3>3, <2>4, <2>5
  <2> HIDE DEF q
  <2>7. Contents' = q
    BY <2>4, <2>5, <2>6, SeqEqual
  <2>8. Fifo!Pop
    BY <2>1, <2>2, <2>3, <2>7 DEF Fifo!Pop, q
  <2>9. QED
    BY <2>8 DEF Fifo!Next
<1>7. CASE UNCHANGED ringVars
  BY <1>7 DEF ringVars, Contents, Fifo!vars
<1>8. QED
  BY <1>2, <1>3, <1>4, <1>5, <1>6, <1>7 DEF RingNext, FinishPush, RingPop

\* The ring is a bounded queue that drops a push only when it is full: no
\* item is lost, repeated or reordered where the counters wrap.
THEOREM RingIsFifo == RingSpec => FifoSpec
<1>1. RingInit => RingInv
  BY RingStart
<1>2. RingInv /\ [RingNext]_ringVars => RingInv'
  BY RingStep
<1>3. RingInit => Fifo!Init
  BY QueueStart
<1>4. RingInv /\ [RingNext]_ringVars => [Fifo!Next]_(Fifo!vars)
  BY QueueStep
<1>5. QED
  BY <1>1, <1>2, <1>3, <1>4, PTL DEF RingSpec, FifoSpec, Fifo!Spec
=============================================================================
