----------------------------- MODULE BoundedFifo -----------------------------
(***************************************************************************)
(* What the boundary's event, command and acknowledgement channels         *)
(* promise: a bounded first-in first-out queue.  A push into a full queue  *)
(* is dropped and reported; nothing else is ever lost, repeated or         *)
(* reordered.  The items are the numbers of the push calls.                *)
(***************************************************************************)
EXTENDS Naturals, Sequences

CONSTANT Capacity

VARIABLES
  queue,    \* the items pushed and not popped
  calls,    \* the push calls made
  got       \* the last item popped

vars == <<queue, calls, got>>

Init == queue = <<>> /\ calls = 0 /\ got = 0

Push ==
  /\ Len(queue) < Capacity
  /\ queue' = Append(queue, calls + 1)
  /\ calls' = calls + 1
  /\ UNCHANGED got

Drop ==
  /\ Len(queue) = Capacity
  /\ calls' = calls + 1
  /\ UNCHANGED <<queue, got>>

Pop ==
  /\ queue # <<>>
  /\ got' = Head(queue)
  /\ queue' = Tail(queue)
  /\ UNCHANGED calls

Next == Push \/ Drop \/ Pop

Spec == Init /\ [][Next]_vars
=============================================================================
