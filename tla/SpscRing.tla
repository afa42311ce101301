------------------------------ MODULE SpscRing ------------------------------
(***************************************************************************)
(* engine/boundary/include/next/boundary/spsc_ring.h: the lock-free ring   *)
(* with one producer and one consumer.  `head` and `tail` are free-running *)
(* size_t counters that wrap at 2^Width; the slot of a counter is its low  *)
(* bits.  The atomic loads and stores are single steps; filling and        *)
(* copying a slot take two steps each, one per word of the item, so an     *)
(* overwritten slot shows as an item whose words differ.                   *)
(***************************************************************************)
EXTENDS Integers, Sequences, FiniteSetsExt

CONSTANTS
  Width,        \* the bits of size_t
  MinCapacity,  \* the constructor's argument
  MaxCalls      \* bound: the Push calls made

(* The caller of the constructor asks for less than half the counters.     *)
ASSUME WidthFits ==
  /\ Width \in Nat \ {0, 1} /\ MinCapacity \in Nat /\ 2 * MinCapacity <= 2 ^ Width
  /\ MaxCalls \in Nat

VARIABLES
  buffer,   \* buffer_
  head,     \* head_, stored by the producer only
  tail,     \* tail_, stored by the consumer only
  ringProd, \* the producer: "idle", "fill", "half", "filled"
  ringCons, \* the consumer: "idle", "copy", "half", "copied"
  out,      \* the item Pop is copying
  calls,    \* the Push calls finished, which number the items
  got       \* the last item Pop returned

ringVars == <<buffer, head, tail, ringProd, ringCons, out, calls, got>>

Modulus == 2 ^ Width

(* The constructor doubles 1 until it reaches the requested capacity.      *)
Capacity == Min({2 ^ k : k \in {j \in 0 .. Width : 2 ^ j >= MinCapacity}})

(* This follows from it, since both are powers of two, of which the provers*)
(* know nothing.                                                           *)
ASSUME PowersDivide ==
  /\ Capacity \in Nat \ {0} /\ Capacity + 1 < Modulus
  /\ \E n \in 1 .. Modulus : Modulus = n * Capacity

SlotOf(counter) == counter % Capacity

Advance(counter) == (counter + 1) % Modulus

Distance(from, to) == (to - from) % Modulus

Item == [a : 0 .. MaxCalls, b : 0 .. MaxCalls]

RingTypeOK ==
  /\ buffer \in [0 .. Capacity - 1 -> Item]
  /\ head \in 0 .. Modulus - 1
  /\ tail \in 0 .. Modulus - 1
  /\ ringProd \in {"idle", "fill", "half", "filled"}
  /\ ringCons \in {"idle", "copy", "half", "copied"}
  /\ out \in Item
  /\ calls \in 0 .. MaxCalls
  /\ got \in 0 .. MaxCalls

RingInit ==
  /\ buffer = [i \in 0 .. Capacity - 1 |-> [a |-> 0, b |-> 0]]
  /\ head = 0
  /\ tail = 0
  /\ ringProd = "idle"
  /\ ringCons = "idle"
  /\ out = [a |-> 0, b |-> 0]
  /\ calls = 0
  /\ got = 0

-----------------------------------------------------------------------------
(* Push: compare against the consumer's counter, fill, publish the slot.   *)

\* Mutant: the counters compared as if they never wrapped.
FullUnwrapped == Advance(head) - tail > Capacity

Full == Distance(tail, Advance(head)) > Capacity

PushFull ==
  /\ ringProd = "idle"
  /\ calls < MaxCalls
  /\ Full
  /\ calls' = calls + 1
  /\ UNCHANGED <<buffer, head, tail, ringProd, ringCons, out, got>>

PushBegin ==
  /\ ringProd = "idle"
  /\ calls < MaxCalls
  /\ ~Full
  /\ ringProd' = "fill"
  /\ UNCHANGED <<buffer, head, tail, ringCons, out, calls, got>>

FillFirst ==
  /\ ringProd = "fill"
  /\ buffer' = [buffer EXCEPT ![SlotOf(head)].a = calls + 1]
  /\ ringProd' = "half"
  /\ UNCHANGED <<head, tail, ringCons, out, calls, got>>

FillSecond ==
  /\ ringProd = "half"
  /\ buffer' = [buffer EXCEPT ![SlotOf(head)].b = calls + 1]
  /\ ringProd' = "filled"
  /\ UNCHANGED <<head, tail, ringCons, out, calls, got>>

StoreHead ==
  /\ ringProd = "filled"
  /\ head' = Advance(head)
  /\ calls' = calls + 1
  /\ ringProd' = "idle"
  /\ UNCHANGED <<buffer, tail, ringCons, out, got>>

-----------------------------------------------------------------------------
(* Pop: compare against the producer's counter, copy, give the slot back.  *)

\* Mutant: the counters compared by order, not by equality.
NonEmptyByOrder == tail < head

NonEmpty == tail # head

PopBegin ==
  /\ ringCons = "idle"
  /\ NonEmpty
  /\ ringCons' = "copy"
  /\ UNCHANGED <<buffer, head, tail, ringProd, out, calls, got>>

CopyFirst ==
  /\ ringCons = "copy"
  /\ out' = [out EXCEPT !.a = buffer[SlotOf(tail)].a]
  /\ ringCons' = "half"
  /\ UNCHANGED <<buffer, head, tail, ringProd, calls, got>>

CopySecond ==
  /\ ringCons = "half"
  /\ out' = [out EXCEPT !.b = buffer[SlotOf(tail)].b]
  /\ ringCons' = "copied"
  /\ UNCHANGED <<buffer, head, tail, ringProd, calls, got>>

StoreTail ==
  /\ ringCons = "copied"
  /\ tail' = Advance(tail)
  /\ got' = out.a
  /\ ringCons' = "idle"
  /\ UNCHANGED <<buffer, head, ringProd, out, calls>>

-----------------------------------------------------------------------------
FinishPush == FillFirst \/ FillSecond \/ StoreHead

RingPop == PopBegin \/ CopyFirst \/ CopySecond \/ StoreTail

RingNext == PushFull \/ PushBegin \/ FinishPush \/ RingPop

RingSpec == RingInit /\ [][RingNext]_ringVars

(* The consumer drains its rings every frame or tick and a Push or a Pop   *)
(* once entered runs to its end; nobody has to start a Push.               *)
FairRingSpec == RingSpec /\ WF_ringVars(RingPop) /\ WF_ringVars(FinishPush)

-----------------------------------------------------------------------------
(* The producer never fills the slot the consumer is copying out of, in    *)
(* particular when the ring is full and both counters name the same slot,  *)
(* so that what Pop has copied is one item, not words of two.              *)
NoOverwrite ==
  /\ ringProd \in {"fill", "half"} /\ ringCons \in {"copy", "half"} => SlotOf(head) # SlotOf(tail)
  /\ ringCons = "copied" => out.a = out.b

(* The items between the counters, oldest first.                           *)
Contents ==
  [i \in 1 .. Distance(tail, head) |-> buffer[SlotOf((tail + i - 1) % Modulus)].a]

(* Every item pushed is popped in the end.                                 *)
EveryItemArrives ==
  \A n \in 1 .. MaxCalls : (\E i \in DOMAIN Contents : Contents[i] = n) ~> (got = n)

(* The ring implements the bounded queue: StoreHead is the push, StoreTail *)
(* the pop, a call that finds the ring full the drop.                      *)
Fifo == INSTANCE BoundedFifo WITH queue <- Contents

FifoSpec == Fifo!Spec
=============================================================================
