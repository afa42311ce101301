---------------------------- MODULE TripleBuffer ----------------------------
(***************************************************************************)
(* engine/boundary/include/next/boundary/triple_buffer.h: the wait-free    *)
(* frame channel between the simulation thread and the render thread.      *)
(* Three slots; the producer owns `write`, the consumer owns `read`, and   *)
(* the third one is exchanged through the atomic word `mid`.               *)
(*                                                                         *)
(* Atomic accesses are single steps.  A slot access is not atomic: a frame *)
(* is two words written one after the other, so a slot written while the   *)
(* consumer may look at it shows as a frame whose words differ.  Acquire   *)
(* is two steps, as in the code: a load of `mid` and a later exchange.     *)
(***************************************************************************)
EXTENDS Naturals

CONSTANT MaxFrame    \* bound: the frames the producer publishes

ASSUME MaxFrameIsNat == MaxFrame \in Nat

VARIABLES
  slot,     \* slot_: the two words of the frame in each slot
  mid,      \* mid_: slot index and fresh bit, the shared atomic word
  write,    \* write_: the producer's slot
  read,     \* read_: the consumer's slot
  prod,     \* where the producer is: "idle", "half" or "full" slot
  cons,     \* where the consumer is: "poll" or "claim"
  published \* the number of frames published so far

vars == <<slot, mid, write, read, prod, cons, published>>

Index == 0 .. 2

Frame == [a : 0 .. MaxFrame, b : 0 .. MaxFrame]

TypeOK ==
  /\ slot \in [Index -> Frame]
  /\ mid \in [idx : Index, fresh : BOOLEAN]
  /\ write \in Index
  /\ read \in Index
  /\ prod \in {"idle", "half", "full"}
  /\ cons \in {"poll", "claim"}
  /\ published \in 0 .. MaxFrame

Init ==
  /\ slot = [i \in Index |-> [a |-> 0, b |-> 0]]
  /\ mid = [idx |-> 0, fresh |-> FALSE]
  /\ write = 1
  /\ read = 2
  /\ prod = "idle"
  /\ cons = "poll"
  /\ published = 0

-----------------------------------------------------------------------------
(* The producer fills the slot Write() gives it, then calls Publish().     *)

BeginWrite ==
  /\ prod = "idle"
  /\ published < MaxFrame
  /\ slot' = [slot EXCEPT ![write].a = published + 1]
  /\ prod' = "half"
  /\ UNCHANGED <<mid, write, read, cons, published>>

EndWrite ==
  /\ prod = "half"
  /\ slot' = [slot EXCEPT ![write].b = published + 1]
  /\ prod' = "full"
  /\ UNCHANGED <<mid, write, read, cons, published>>

\* Mutant: the fresh bit is not set.
PublishStale ==
  /\ prod = "full"
  /\ mid' = [idx |-> write, fresh |-> FALSE]
  /\ write' = mid.idx
  /\ prod' = "idle"
  /\ published' = published + 1
  /\ UNCHANGED <<slot, read, cons>>

Publish ==
  /\ prod = "full"
  /\ mid' = [idx |-> write, fresh |-> TRUE]
  /\ write' = mid.idx
  /\ prod' = "idle"
  /\ published' = published + 1
  /\ UNCHANGED <<slot, read, cons>>

-----------------------------------------------------------------------------
(* The consumer: Acquire() loads `mid`, and exchanges it only if fresh.    *)

\* Mutant: the fresh bit is not looked at.
PollAlways ==
  /\ cons = "poll"
  /\ cons' = "claim"
  /\ UNCHANGED <<slot, mid, write, read, prod, published>>

Poll ==
  /\ cons = "poll"
  /\ mid.fresh
  /\ cons' = "claim"
  /\ UNCHANGED <<slot, mid, write, read, prod, published>>

\* Mutant: the consumer takes the slot without giving its own back.
ClaimByLoad ==
  /\ cons = "claim"
  /\ mid' = [mid EXCEPT !.fresh = FALSE]
  /\ read' = mid.idx
  /\ cons' = "poll"
  /\ UNCHANGED <<slot, write, prod, published>>

Claim ==
  /\ cons = "claim"
  /\ mid' = [idx |-> read, fresh |-> FALSE]
  /\ read' = mid.idx
  /\ cons' = "poll"
  /\ UNCHANGED <<slot, write, prod, published>>

-----------------------------------------------------------------------------
Next == BeginWrite \/ EndWrite \/ Publish \/ Poll \/ Claim

Spec == Init /\ [][Next]_vars

(* The render loop calls Acquire every frame, whatever the producer does;  *)
(* nothing is assumed of the producer.                                     *)
FairSpec == Spec /\ WF_vars(Poll) /\ WF_vars(Claim)

-----------------------------------------------------------------------------
(* The producer, the consumer and the shared word name three different     *)
(* slots at every instant, so neither side ever touches a slot the other   *)
(* one owns.                                                               *)
SlotsDisjoint ==
  /\ write # read
  /\ write # mid.idx
  /\ read # mid.idx

(* The frame behind the pointer Acquire returned is whole at every         *)
(* instant, not only when it is handed over: the render thread may read    *)
(* it at any time until its next Acquire.                                  *)
HeldFrameWhole == slot[read].a = slot[read].b

(* The slot the consumer holds changes only by its own next Acquire, never *)
(* under the pointer it holds.                                             *)
HeldFrameStable == [][read' = read => slot'[read] = slot[read]]_vars

(* A frame handed over is the newest published one at that instant, also   *)
(* when the producer published between the load and the exchange.          *)
ClaimIsNewest == [][Claim => slot'[read'].a = published]_vars

(* The frames the consumer holds never go back in time.                    *)
NeverBackward == [][slot'[read'].a >= slot[read].a]_vars

(* The last frame published is eventually the one the consumer holds, or a *)
(* newer one is published: no frame is stuck behind a cleared fresh bit.   *)
LastFrameArrives ==
  \A f \in 1 .. MaxFrame : published = f ~> (slot[read].a >= f)

(* The buffer implements the register.                                     *)
Register == INSTANCE LatestValue WITH
  latest <- published,
  fresh <- mid.fresh,
  seen <- slot[read].a

RegisterSpec == Register!Spec
=============================================================================
