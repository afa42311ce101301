----------------------------- MODULE LatestValue -----------------------------
(***************************************************************************)
(* What one frame channel of the boundary promises, whatever carries it: a *)
(* register that holds the newest published frame and a flag that says it  *)
(* has not been taken yet.  Publishing replaces the frame; taking hands    *)
(* the newest one over and never an older one.                             *)
(***************************************************************************)
EXTENDS Naturals

VARIABLES
  latest,   \* the newest frame published
  fresh,    \* no take since the last publish
  seen      \* the frame the consumer holds

vars == <<latest, fresh, seen>>

Init == latest = 0 /\ fresh = FALSE /\ seen = 0

Publish ==
  /\ latest' \in Nat
  /\ latest' > latest
  /\ fresh' = TRUE
  /\ UNCHANGED seen

Take ==
  /\ fresh
  /\ seen' = latest
  /\ fresh' = FALSE
  /\ UNCHANGED latest

Next == Publish \/ Take

Spec == Init /\ [][Next]_vars
=============================================================================
