----------------------------- MODULE EntityMap ------------------------------
(***************************************************************************)
(* What the entity world promises, without archetypes and rows: a map from *)
(* entity handles to their components.  An operation on one entity leaves  *)
(* every other entity as it is.                                            *)
(***************************************************************************)
CONSTANTS Handle, Type, Value

VARIABLES
  valid,       \* the handles that name a living entity
  components   \* by handle: the values of the components it has

vars == <<valid, components>>

Nothing == [x \in {} |-> x]

Init == valid = {} /\ components = Nothing

(* The map with one entry more, or another one, at h.                      *)
With(f, h, c) == [g \in DOMAIN f \cup {h} |-> IF g = h THEN c ELSE f[g]]

Without(f, h) == [g \in DOMAIN f \ {h} |-> f[g]]

Of(h) == IF h \in DOMAIN components THEN components[h] ELSE Nothing

(* A handle is new, or has come round again with what it left behind.     *)
Create(h) ==
  /\ h \notin valid
  /\ valid' = valid \cup {h}
  /\ components' = With(components, h, Of(h))

Destroy(h) ==
  /\ h \in valid
  /\ valid' = valid \ {h}
  /\ components' = Without(components, h)

Put(h, t, v) ==
  /\ components' = With(components, h, With(Of(h), t, v))
  /\ UNCHANGED valid

Drop(h, t) ==
  /\ h \in DOMAIN components
  /\ components' = With(components, h, Without(Of(h), t))
  /\ UNCHANGED valid

Next ==
  \E h \in Handle :
    \/ Create(h)
    \/ Destroy(h)
    \/ \E t \in Type : Drop(h, t) \/ \E v \in Value : Put(h, t, v)

Spec == Init /\ [][Next]_vars
=============================================================================
