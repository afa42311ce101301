---------------------------- MODULE PhysicsBodies ----------------------------
(* src/engine/physics and src/engine/gameplay: entities with a rigid body,   *)
(* the bodies of ReferencePhysicsWorld they are linked to, and the moves     *)
(* ActuationSystem makes.  Two axes of whole numbers, time steps and masses  *)
(* of one, moves along one axis; turning is left out.                        *)
EXTENDS Integers, Sequences, SequencesExt, FiniteSetsExt, Functions, TLC

CONSTANTS
  PhysicalEntity,
  BodyDescs,          \* [motion, shape, half, restitution]
  Pushes,             \* forces, as vectors
  StartPlaces,        \* positions of transforms
  Targets,            \* [target, speed]: MoveTargets
  Gravity,
  MaxPhysicsCalls     \* bound

ASSUME PhysicsAssumption == IsFiniteSet(PhysicalEntity) /\ MaxPhysicsCalls \in Nat

VARIABLES
  rigid,          \* [e |-> RigidBodyComponent]
  transform,      \* [e |-> position of TransformComponent]
  moveTarget,     \* [e |-> MoveTarget]
  gone,           \* entities that were destroyed
  bodies,         \* ReferencePhysicsWorld::bodies_
  nextBodyId,
  entityToBody,
  settled,        \* nothing happened since the last update
  orphans,        \* bodies that Reconcile forgot, and how often a component was replaced
  owed,           \* the velocity each body has to reach, unless it was set or touched
  physicsCalls

physicsVars == <<rigid, transform, moveTarget, gone, bodies, nextBodyId, entityToBody, settled, orphans, owed, physicsCalls>>

PhysicsInit ==
  /\ rigid = <<>> /\ transform = <<>> /\ moveTarget = <<>> /\ gone = {} /\ bodies = <<>> /\ nextBodyId = 1
  /\ entityToBody = <<>> /\ settled = TRUE /\ orphans = [bodies |-> {}, replaced |-> 0] /\ owed = <<>> /\ physicsCalls = 0

Axis == 1..2

Zero == <<0, 0>>

Plus(u, v) == <<u[1] + v[1], u[2] + v[2]>>

Minus(u, v) == <<u[1] - v[1], u[2] - v[2]>>

Size1(x) == IF x < 0 THEN -x ELSE x

Sign(x) == CASE x < 0 -> -1 [] x = 0 -> 0 [] OTHER -> 1

Dropped(f, keys) == Restrict(f, DOMAIN f \ keys)

Given(f, key, x) == [k \in DOMAIN f \cup {key} |-> IF k = key THEN x ELSE f[k]]

PhysicsCall == physicsCalls < MaxPhysicsCalls /\ physicsCalls' = physicsCalls + 1

-----------------------------------------------------------------------------
(* The world (external to physics): components come, are replaced and go.    *)
GiveBody ==
  \E e \in PhysicalEntity \ gone, desc \in BodyDescs :
    /\ PhysicsCall
    /\ rigid' = Given(rigid, e, [desc |-> desc, body |-> 0])
    /\ orphans' = [orphans EXCEPT !.replaced = @ + IF e \in DOMAIN entityToBody THEN 1 ELSE 0]
    /\ settled' = FALSE
    /\ UNCHANGED <<transform, moveTarget, gone, bodies, nextBodyId, entityToBody, owed>>

GiveTransform ==
  \E e \in PhysicalEntity \ gone, at \in StartPlaces :
    /\ PhysicsCall /\ transform' = Given(transform, e, at) /\ settled' = FALSE
    /\ UNCHANGED <<rigid, moveTarget, gone, bodies, nextBodyId, entityToBody, orphans, owed>>

GiveTarget ==
  \E e \in PhysicalEntity \ gone, t \in Targets :
    /\ PhysicsCall /\ moveTarget' = Given(moveTarget, e, [target |-> t.target, speed |-> t.speed, active |-> TRUE])
    /\ UNCHANGED <<rigid, transform, gone, bodies, nextBodyId, entityToBody, settled, orphans, owed>>

TakeBody ==
  \E e \in DOMAIN rigid :
    /\ PhysicsCall /\ rigid' = Dropped(rigid, {e}) /\ settled' = FALSE
    /\ UNCHANGED <<transform, moveTarget, gone, bodies, nextBodyId, entityToBody, orphans, owed>>

DestroyPhysical ==
  \E e \in DOMAIN rigid \cup DOMAIN transform :
    /\ PhysicsCall /\ gone' = gone \cup {e} /\ settled' = FALSE
    /\ rigid' = Dropped(rigid, {e}) /\ transform' = Dropped(transform, {e}) /\ moveTarget' = Dropped(moveTarget, {e})
    /\ UNCHANGED <<bodies, nextBodyId, entityToBody, orphans, owed>>

-----------------------------------------------------------------------------
(* ReferencePhysicsWorld.                                                    *)
IsValid(id) == id # 0 /\ id \in DOMAIN bodies

NewBody(desc, position) ==
  [motion |-> desc.motion, half |-> IF desc.shape = "Sphere" THEN <<desc.half[1], desc.half[1]>> ELSE desc.half,
   restitution |-> desc.restitution, position |-> position, velocity |-> Zero, force |-> Zero]

(* AddForce, as buoyancy and drag use it; a force acts in the next step.     *)
AddForce ==
  \E e \in DOMAIN rigid, f \in Pushes :
    LET id == rigid[e].body
    IN  /\ PhysicsCall /\ IsValid(id) /\ bodies[id].motion = "Dynamic"
        /\ bodies' = [bodies EXCEPT ![id] = [bodies[id] EXCEPT !.force = Plus(@, f)]]
        /\ owed' = [i \in DOMAIN owed |-> IF i = id THEN Plus(owed[i], f) ELSE owed[i]]
        /\ UNCHANGED <<rigid, transform, moveTarget, gone, nextBodyId, entityToBody, settled, orphans>>

AddImpulse ==
  \E e \in DOMAIN rigid, f \in Pushes :
    LET id == rigid[e].body
    IN  /\ PhysicsCall /\ IsValid(id) /\ bodies[id].motion = "Dynamic"
        /\ bodies' = [bodies EXCEPT ![id] = [bodies[id] EXCEPT !.velocity = Plus(@, f)]]
        /\ owed' = [i \in DOMAIN owed |-> IF i = id THEN Plus(owed[i], f) ELSE owed[i]]
        /\ UNCHANGED <<rigid, transform, moveTarget, gone, nextBodyId, entityToBody, settled, orphans>>

\* Mutant: the force stays for the steps to come.
IntegrateAgain(b) ==
  LET velocity == Plus(b.velocity, Plus(Gravity, b.force))
  IN  CASE b.motion = "Dynamic" -> [b EXCEPT !.velocity = velocity, !.position = Plus(@, velocity)]
        [] b.motion = "Kinematic" -> [b EXCEPT !.position = Plus(@, b.velocity)]
        [] OTHER -> b

Integrate(b) ==
  LET velocity == Plus(b.velocity, Plus(Gravity, b.force))
  IN  CASE b.motion = "Dynamic" -> [b EXCEPT !.velocity = velocity, !.position = Plus(@, velocity), !.force = Zero]
        [] b.motion = "Kinematic" -> [b EXCEPT !.position = Plus(@, b.velocity)]
        [] OTHER -> b

Penetration(d, s) == [i \in Axis |-> d.half[i] + s.half[i] - Size1(d.position[i] - s.position[i])]

Apart(d, s) == \E i \in Axis : Penetration(d, s)[i] <= 0

ResolveAgainstStatic(d, s) ==
  LET depth == Penetration(d, s)
      axis == IF depth[2] < depth[1] THEN 2 ELSE 1
      sign == IF d.position[axis] >= s.position[axis] THEN 1 ELSE -1
  IN  IF Apart(d, s) THEN d
      ELSE [d EXCEPT !.position[axis] = @ + sign * depth[axis],
                     !.velocity[axis] = IF @ * sign < 0 THEN -@ * d.restitution ELSE @]

InOrder(ids) == SetToSortSeq(ids, <)

ResolvedAgainst(b, statics) == FoldLeft(ResolveAgainstStatic, b, statics)

StepBodies(old) ==
  LET moved == [id \in DOMAIN old |-> Integrate(old[id])]
      statics == InOrder({id \in DOMAIN old : old[id].motion = "Static"})
      places == [i \in DOMAIN statics |-> moved[statics[i]]]
      end(id) == ResolvedAgainst(moved[id], places)
  IN  [id \in DOMAIN old |->
         IF moved[id].motion # "Dynamic" THEN moved[id]
         ELSE [moved[id] EXCEPT !.position = end(id).position, !.velocity = end(id).velocity]]

(* A ray along an axis, in the direction sign.  The nearest body that it     *)
(* meets, of two as near the one with the greater id; the slabs of the other *)
(* axis are only compared with.                                              *)
Raycast(origin, axis, sign, maxDistance) ==
  LET other == 3 - axis
      edge(b, side) == (b.position[axis] + side * sign * b.half[axis] - origin[axis]) * sign
      meets(b) == /\ b.position[other] - b.half[other] <= origin[other] /\ origin[other] <= b.position[other] + b.half[other]
                  /\ edge(b, 1) >= 0
      distance(b) == IF edge(b, -1) < 0 THEN 0 ELSE edge(b, -1)
      nearer(best, id) == IF ~meets(bodies[id]) \/ distance(bodies[id]) > best.distance THEN best
                          ELSE [body |-> id, distance |-> distance(bodies[id])]
  IN  FoldLeft(nearer, [body |-> 0, distance |-> maxDistance], InOrder(DOMAIN bodies))

-----------------------------------------------------------------------------
(* ActuationSystem::Update: a move ends at the target, of an entity with a   *)
(* rigid body by its velocity, and not before the body is there.             *)
Arrives(m, at) == \A i \in Axis : Size1(m.target[i] - at[i]) <= m.speed

Towards(m, at) == [i \in Axis |-> Sign(m.target[i] - at[i]) * m.speed]

DrivenBody(e) == rigid[e].body

Actuate ==
  LET active == {e \in DOMAIN moveTarget : moveTarget[e].active}
      byBody == {e \in active \cap DOMAIN rigid : IsValid(DrivenBody(e))}
      byHand == (active \ DOMAIN rigid) \cap DOMAIN transform
      at(e) == IF e \in byBody THEN bodies[DrivenBody(e)].position ELSE transform[e]
      arrived == {e \in byBody \cup byHand : Arrives(moveTarget[e], at(e))}
      drives(id) == {e \in byBody : DrivenBody(e) = id}
  IN  /\ PhysicsCall /\ active # {}
      /\ moveTarget' = [e \in DOMAIN moveTarget |-> IF e \in arrived THEN [moveTarget[e] EXCEPT !.active = FALSE] ELSE moveTarget[e]]
      /\ transform' = [e \in DOMAIN transform |->
                         IF e \notin byHand THEN transform[e]
                         ELSE IF e \in arrived THEN moveTarget[e].target ELSE Plus(transform[e], Towards(moveTarget[e], transform[e]))]
      /\ bodies' = [id \in DOMAIN bodies |->
                      IF drives(id) = {} THEN bodies[id]
                      ELSE LET e == CHOOSE e \in drives(id) : TRUE
                           IN  IF e \in arrived THEN [bodies[id] EXCEPT !.position = moveTarget[e].target, !.velocity = Zero]
                               ELSE [bodies[id] EXCEPT !.velocity = Towards(moveTarget[e], bodies[id].position)]]
      /\ owed' = Dropped(owed, {DrivenBody(e) : e \in byBody})
      /\ settled' = FALSE
      /\ UNCHANGED <<rigid, gone, nextBodyId, entityToBody, orphans>>

-----------------------------------------------------------------------------
(* PhysicsSystem::Update.  Reconcile creates bodies in the order in which    *)
(* the world yields the components, and destroys those of components gone.   *)
Reconciled(order) ==
  LET ids == nextBodyId .. nextBodyId + Len(order) - 1
      of(e) == nextBodyId + (CHOOSE i \in DOMAIN order : order[i] = e) - 1
      new == ToSet(order)
      spawn(e) == NewBody(rigid[e].desc, IF e \in DOMAIN transform THEN transform[e] ELSE Zero)
      map == [e \in DOMAIN entityToBody \cup new |-> IF e \in new THEN of(e) ELSE entityToBody[e]]
      dead == {map[e] : e \in DOMAIN map \ DOMAIN rigid}
  IN  [rigid |-> [e \in DOMAIN rigid |-> IF e \in new THEN [rigid[e] EXCEPT !.body = of(e)] ELSE rigid[e]],
       bodies |-> [id \in (DOMAIN bodies \cup ids) \ dead |->
                     IF id \in ids THEN spawn(order[id - nextBodyId + 1]) ELSE bodies[id]],
       map |-> Restrict(map, DOMAIN map \cap DOMAIN rigid),
       lost |-> {entityToBody[e] : e \in new \cap DOMAIN entityToBody} \cap DOMAIN bodies]

SyncTransforms(links, world) ==
  [e \in DOMAIN transform |->
     IF e \in DOMAIN links /\ links[e].body \in DOMAIN world THEN world[links[e].body].position ELSE transform[e]]

\* Mutant: a component that has been given an id is taken to have a body.
BodilessById == {e \in DOMAIN rigid : rigid[e].body = 0}

Bodiless == {e \in DOMAIN rigid : ~IsValid(rigid[e].body)}

UpdatePhysics ==
  \E order \in SetToSeqs(Bodiless) :
    LET done == Reconciled(order)
        world == StepBodies(done.bodies)
        free(id) == id \in DOMAIN owed \cup (DOMAIN done.bodies \ DOMAIN bodies) /\ world[id].velocity = Integrate(done.bodies[id]).velocity
        due(id) == IF id \in DOMAIN owed THEN owed[id] ELSE Zero
    IN  /\ PhysicsCall
        /\ rigid' = done.rigid /\ bodies' = world /\ entityToBody' = done.map /\ nextBodyId' = nextBodyId + Len(order)
        /\ transform' = SyncTransforms(done.rigid, world)
        /\ orphans' = [orphans EXCEPT !.bodies = @ \cup done.lost]
        /\ owed' = [id \in {i \in DOMAIN world : world[i].motion = "Dynamic" /\ free(i)} |-> Plus(due(id), Gravity)]
        /\ settled' = TRUE
        /\ UNCHANGED <<moveTarget, gone>>

ShutdownPhysics ==
  /\ PhysicsCall /\ entityToBody # <<>>
  /\ bodies' = Dropped(bodies, Range(entityToBody)) /\ entityToBody' = <<>>
  /\ owed' = Dropped(owed, Range(entityToBody)) /\ settled' = FALSE
  /\ UNCHANGED <<rigid, transform, moveTarget, gone, nextBodyId, orphans>>

PhysicsNext ==
  \/ GiveBody \/ GiveTransform \/ GiveTarget \/ TakeBody \/ DestroyPhysical
  \/ AddForce \/ AddImpulse \/ Actuate \/ UpdatePhysics \/ ShutdownPhysics

-----------------------------------------------------------------------------
(* The first body on the way of a ray, found point by point.                 *)
OnTheWay(origin, axis, sign, t) ==
  {id \in DOMAIN bodies : \A i \in Axis :
     Size1(origin[i] + (IF i = axis THEN sign * t ELSE 0) - bodies[id].position[i]) <= bodies[id].half[i]}

RayTrue(origin, axis, sign, reach) ==
  LET hits == {t \in 0..reach : OnTheWay(origin, axis, sign, t) # {}}
      first == OnTheWay(origin, axis, sign, Min(hits))
  IN  Raycast(origin, axis, sign, reach) = IF hits = {} THEN [body |-> 0, distance |-> reach] ELSE [body |-> Max(first), distance |-> Min(hits)]

(* After an update each rigid body has one body of its own that lives, its   *)
(* transform is where the body is, however components come and go between    *)
(* updates and bodies are destroyed and made again (PhysicsSystem:           *)
(* Reconcile, SyncTransforms and Shutdown).  No other body lives but those   *)
(* whose component was replaced by one without a body, one for each time at  *)
(* most: "When the component or entity goes away, the system destroys the    *)
(* body" (components.h:10) is not kept of a component that goes away by being*)
(* replaced, for Reconcile writes the new body over the old in entityToBody_.*)
BodiesLinked ==
  /\ settled =>
       /\ entityToBody = [e \in DOMAIN rigid |-> rigid[e].body]
       /\ \A e, f \in DOMAIN rigid : rigid[e].body = rigid[f].body => e = f
       /\ DOMAIN bodies = {rigid[e].body : e \in DOMAIN rigid} \cup orphans.bodies
       /\ \A e \in DOMAIN rigid \cap DOMAIN transform : transform[e] = bodies[rigid[e].body].position
  /\ Cardinality(orphans.bodies) <= orphans.replaced

(* A body that moves freely has the velocity that gravity, every force once  *)
(* and every impulse give it; after an update none is left in the static     *)
(* body that was resolved last; and a ray meets the nearest body             *)
(* (ReferencePhysicsWorld and ActuationSystem).                              *)
BodiesMove ==
  /\ settled =>
       /\ LET statics == {id \in DOMAIN bodies : bodies[id].motion = "Static"}
          IN  \A id \in DOMAIN bodies : bodies[id].motion = "Dynamic" /\ statics # {} => Apart(bodies[id], bodies[Max(statics)])
       /\ \A axis \in Axis, sign \in {-1, 1}, x, y \in {-3, 0, 2} : RayTrue(<<x, y>>, axis, sign, 6)
  /\ \A id \in DOMAIN owed : Plus(bodies[id].velocity, bodies[id].force) = owed[id]
=============================================================================
