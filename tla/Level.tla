-------------------------------- MODULE Level --------------------------------
(* src/engine/level: a level is built or written by hand, validated, loaded  *)
(* into an empty world, and its win conditions are evaluated while it is     *)
(* played.  Positions are on a line; a field that is not finite is           *)
(* NotFinite; the smallest component stands for a scale, a vector that is    *)
(* not finite anywhere for NotFinite.                                        *)
EXTENDS Integers, Sequences, SequencesExt, FiniteSetsExt, Functions, TLC

CONSTANTS
  MaxLevelEntities,    \* kMaxLevelEntities
  NotFinite,
  Ref,                 \* references the author writes, 0 is none
  PartChoices,         \* the [part, data] the builder's calls attach, in a sequence
  LevelObjectives,     \* [id, initialState]
  WinConditions,
  HandMade,            \* levels that were not made by the builder
  Places,              \* where what moves goes
  MaxBuildCalls, MaxLevelEvents    \* bounds

ASSUME LevelAssumption == {MaxLevelEntities, MaxBuildCalls, MaxLevelEvents} \subseteq Nat /\ Ref \subseteq Nat

VARIABLES
  draft,            \* LevelBuilder: def_ and last_
  builds,           \* calls of the builder
  report,           \* ValidationReport::errors
  loadedLevel,      \* LoadedLevel: entityByRef and agent, <<>> until a level is loaded
  spawned,          \* the entities of the world
  objectiveStates,  \* ObjectiveStore
  levelEvents

levelVars == <<draft, builds, report, loadedLevel, spawned, objectiveStates, levelEvents>>

EmptyLevel == [named |-> TRUE, known |-> TRUE, agent |-> 0, entities |-> <<>>, objectives |-> <<>>, winConditions |-> <<>>]

LevelInit ==
  /\ draft = [def |-> EmptyLevel, last |-> 0] /\ builds = 0
  /\ report = {} /\ loadedLevel = <<>> /\ spawned = <<>> /\ objectiveStates = <<>> /\ levelEvents = 0

-----------------------------------------------------------------------------
(* LevelValidator.  An entity is its reference and the data of its parts; an *)
(* error its code and the entity, 0 if none.                                 *)
Has(e, part) == part \in DOMAIN e.parts

Flaw(wrong, code, at) == IF wrong THEN {[code |-> code, at |-> at]} ELSE {}

NotAbove(x, bound) == x # NotFinite /\ x <= bound

RefToIndex(def, r) ==
  LET found == {i \in DOMAIN def.entities : def.entities[i].ref = r}
  IN  IF r = 0 \/ found = {} THEN 0 ELSE Min(found)

Resolves(def, r) == RefToIndex(def, r) # 0

ParentOf(e) == IF Has(e, "transform") THEN e.parts["transform"].parent ELSE 0

MetadataErrors(def) ==
  Flaw(~def.named, "EmptyLevelId", 0) \cup Flaw(~def.known, "UnknownSchemaVersion", 0)
    \cup Flaw(def.entities = <<>>, "NoEntities", 0) \cup Flaw(Len(def.entities) > MaxLevelEntities, "CapacityOverflow", 0)

RefErrors(def, i) ==
  LET r == def.entities[i].ref
  IN  Flaw(r = 0, "ReservedEntityRef", i) \cup Flaw(r > MaxLevelEntities, "EntityRefOutOfRange", i)
        \cup Flaw(RefToIndex(def, r) \notin {0, i}, "DuplicateEntityRef", i)

TransformErrors(def, i) ==
  LET e == def.entities[i]
      t == e.parts["transform"]
  IN  Flaw(~t.finite \/ t.scale = NotFinite \/ t.length = NotFinite, "NonFiniteTransform", i)
        \cup Flaw(NotAbove(t.scale, 0), "NonPositiveScale", i)
        \cup Flaw(t.length # NotFinite /\ t.length # 1, "DegenerateQuaternion", i)
        \cup Flaw(t.parent # 0 /\ t.parent = e.ref, "SelfParent", i)
        \cup Flaw(t.parent # 0 /\ t.parent # e.ref /\ ~Resolves(def, t.parent), "DanglingParentRef", i)

Movable(e) == IF Has(e, "body") THEN e.parts["body"].motion # 0 ELSE Has(e, "transform")

MoveErrors(e, i) ==
  LET speed == e.parts["move"].maxSpeed
  IN  Flaw(speed = NotFinite, "NonFiniteMove", i) \cup Flaw(NotAbove(speed, -1), "NegativeMoveSpeed", i)
        \cup Flaw(~Movable(e), "MoveTargetInert", i)

BodyErrors(b, i) ==
  Flaw(b.motion > 2, "InvalidBodyMotion", i) \cup Flaw(b.shape > 1, "InvalidBodyShape", i)
    \cup Flaw(NotFinite \in {b.radius, b.sides, b.mass, b.restitution}, "NonFiniteBodyField", i)
    \cup Flaw(NotAbove(b.radius, 0) \/ (b.shape = 1 /\ NotAbove(b.sides, 0)), "NonPositiveBodyExtent", i)
    \cup Flaw(b.restitution # NotFinite /\ b.restitution \notin 0..1, "BadRestitution", i)
    \cup Flaw(b.motion = 2 /\ NotAbove(b.mass, 0), "NonPositiveDynamicMass", i)

EntityErrors(def, i) ==
  LET e == def.entities[i]
  IN  Flaw(DOMAIN e.parts = {}, "EntityHasNoComponents", i)
        \cup (IF Has(e, "transform") THEN TransformErrors(def, i) ELSE {})
        \cup Flaw(Has(e, "render") /\ ~Has(e, "transform"), "RenderableMissingTransform", i)
        \cup (IF Has(e, "move") THEN MoveErrors(e, i) ELSE {})
        \cup (IF Has(e, "body") THEN BodyErrors(e.parts["body"], i) ELSE {})

(* The walk up from each entity: gray is the path of this walk, black what   *)
(* earlier walks went through.                                               *)
ParentIndex(def, i) ==
  LET e == def.entities[i]
  IN  IF ParentOf(e) # e.ref THEN RefToIndex(def, ParentOf(e)) ELSE 0

RECURSIVE WalkUp(_, _, _, _)
WalkUp(def, u, gray, black) ==
  CASE u \in gray -> [cycle |-> {u}, black |-> black \cup gray]
    [] u \in black \cup {0} -> [cycle |-> {}, black |-> black \cup gray]
    [] OTHER -> WalkUp(def, ParentIndex(def, u), gray \cup {u}, black)

\* Mutant: only the entity the walk began at turns black.
WalkFromStart(def, walked, s) ==
  LET walk == WalkUp(def, s, {}, walked.black)
  IN  IF s \in walked.black THEN walked ELSE [cycle |-> walked.cycle \cup walk.cycle, black |-> walked.black \cup {s}]

WalkFrom(def, walked, s) ==
  LET walk == WalkUp(def, s, {}, walked.black)
  IN  IF s \in walked.black THEN walked ELSE [cycle |-> walked.cycle \cup walk.cycle, black |-> walk.black]

CycleErrors(def) ==
  LET walked == FoldLeft(LAMBDA w, s : WalkFrom(def, w, s), [cycle |-> {}, black |-> {}], [s \in DOMAIN def.entities |-> s])
  IN  {[code |-> "ParentCycle", at |-> u] : u \in walked.cycle}

AgentErrors(def) ==
  CASE def.agent = 0 -> {}
    [] ~Resolves(def, def.agent) -> Flaw(TRUE, "AgentRefDangling", 0)
    [] OTHER -> LET i == RefToIndex(def, def.agent) IN Flaw(~Has(def.entities[i], "transform"), "AgentMissingTransform", i)

ObjectiveErrors(def) ==
  LET id(i) == def.objectives[i].id
  IN  Flaw(\E i, j \in DOMAIN def.objectives : i # j /\ id(i) = id(j), "DuplicateObjectiveId", 0)

ReachedErrors(def, c) ==
  (IF ~Resolves(def, c.entity) THEN Flaw(TRUE, "WinConditionEntityDangling", 0) ELSE
   LET i == RefToIndex(def, c.entity)
       e == def.entities[i]
       frozen == Has(e, "body") /\ ~e.parts["body"].sync /\ e.parts["body"].motion # 0
   IN  Flaw(~Has(e, "transform"), "WinConditionEntityMissingTransform", i)
         \cup Flaw(Has(e, "transform") /\ frozen, "WinConditionEntityTransformStale", i))
  \cup Flaw(c.point = NotFinite, "WinConditionNonFinitePoint", 0)
  \cup Flaw(c.radius = NotFinite \/ c.radius < 0, "WinConditionBadRadius", 0)

TagErrors(def, c) ==
  Flaw(c.tag > 63, "WinConditionTagOutOfRange", 0)
    \cup Flaw(c.tag <= 63 /\ \A i \in DOMAIN def.entities : Has(def.entities[i], "tag") => c.tag \notin def.entities[i].parts["tag"],
              "WinConditionTagNeverPresent", 0)

ConditionErrors(def, c) ==
  CASE c.kind \in {"ObjectiveAtLeast", "ObjectiveEquals"} ->
         Flaw(\A i \in DOMAIN def.objectives : def.objectives[i].id # c.objective, "WinConditionObjectiveDangling", 0)
    [] c.kind = "EntityReached" -> ReachedErrors(def, c)
    [] c.kind = "AllTaggedDestroyed" -> TagErrors(def, c)
    [] OTHER -> Flaw(TRUE, "InvalidWinKind", 0)

Validate(def) ==
  LET kinds == {"ObjectiveAtLeast", "ObjectiveEquals", "EntityReached", "AllTaggedDestroyed"}
  IN  MetadataErrors(def)
        \cup UNION {RefErrors(def, i) \cup EntityErrors(def, i) : i \in DOMAIN def.entities}
        \cup CycleErrors(def) \cup AgentErrors(def) \cup ObjectiveErrors(def)
        \cup UNION {ConditionErrors(def, c) : c \in Range(def.winConditions)}
        \cup Flaw(\A c \in Range(def.winConditions) : c.isFailure \/ c.kind \notin kinds, "NoWinCondition", 0)

-----------------------------------------------------------------------------
(* LevelBuilder.  A call on a reference that is not there changes nothing.   *)
NewTransform == [finite |-> TRUE, scale |-> 1, length |-> 1, parent |-> 0, at |-> 0]

Build(def) ==
  /\ builds < MaxBuildCalls /\ loadedLevel = <<>> /\ report = {}
  /\ builds' = builds + 1
  /\ draft' = [draft EXCEPT !.def = def]
  /\ UNCHANGED <<report, loadedLevel, spawned, objectiveStates, levelEvents>>

AddLevelEntity ==
  /\ builds < MaxBuildCalls /\ loadedLevel = <<>> /\ report = {}
  /\ builds' = builds + 1
  /\ LET r == Len(draft.def.entities) + 1
     IN draft' = [def |-> [draft.def EXCEPT !.entities = Append(@, [ref |-> r, parts |-> <<>>])], last |-> r]
  /\ UNCHANGED <<report, loadedLevel, spawned, objectiveStates, levelEvents>>

Target(target) == IF target # 0 THEN target ELSE draft.last

WithComponent(part, data, target) ==
  Build([draft.def EXCEPT !.entities =
           [i \in DOMAIN @ |-> IF @[i].ref = Target(target) THEN [@[i] EXCEPT !.parts = (part :> data) @@ @] ELSE @[i]]])

DataOf(part, target, default) ==
  LET found == {i \in DOMAIN draft.def.entities : draft.def.entities[i].ref = Target(target) /\ Has(draft.def.entities[i], part)}
  IN  IF found = {} THEN default ELSE draft.def.entities[Min(found)].parts[part]

WithPart ==
  \E i \in DOMAIN PartChoices, target \in Ref :
    LET part == PartChoices[i].part
        data == PartChoices[i].data
    IN  WithComponent(part, IF part = "tag" THEN DataOf(part, target, {}) \cup data ELSE data, target)

WithParent ==
  \E parent \in Ref \ {0}, target \in Ref :
    WithComponent("transform", [DataOf("transform", target, NewTransform) EXCEPT !.parent = parent], target)

SetAgent == \E agent \in Ref : Build([draft.def EXCEPT !.agent = agent])

AddObjective == \E o \in LevelObjectives : Build([draft.def EXCEPT !.objectives = Append(@, o)])

AddWinCondition == \E c \in WinConditions : Build([draft.def EXCEPT !.winConditions = Append(@, c)])

-----------------------------------------------------------------------------
(* LevelLoader::Load: nothing is done for a level with an error; entities    *)
(* are created in their order, parents and conditions name them by reference. *)
EntityFor(level, r) == IF r \in DOMAIN level.entityByRef THEN level.entityByRef[r] ELSE 0

Spawn(e, level) ==
  LET at == IF Has(e, "transform") THEN e.parts["transform"].at ELSE 0
  IN  [parts |-> DOMAIN e.parts, parent |-> EntityFor(level, ParentOf(e)), at |-> at, bodyAt |-> at,
       tags |-> IF Has(e, "tag") THEN e.parts["tag"] ELSE {},
       tracked |-> Has(e, "body") => e.parts["body"].sync, moves |-> Movable(e), alive |-> TRUE]

Load ==
  /\ loadedLevel = <<>> /\ report = {}
  /\ \E def \in {draft.def} \cup (IF builds = 0 THEN HandMade ELSE {}) :
       /\ draft' = [draft EXCEPT !.def = def]
       /\ report' = Validate(def)
       /\ IF report' # {} THEN UNCHANGED <<loadedLevel, spawned, objectiveStates>>
          ELSE LET refs == {def.entities[i].ref : i \in DOMAIN def.entities}
                   level == [entityByRef |-> [r \in 0..Max(refs) |-> RefToIndex(def, r)]]
               IN  /\ spawned' = [i \in DOMAIN def.entities |-> Spawn(def.entities[i], level)]
                   /\ loadedLevel' = level @@ [agent |-> EntityFor(level, def.agent)]
                   /\ objectiveStates' = FoldLeft(LAMBDA store, o : (o.id :> o.initialState) @@ store, <<>>, def.objectives)
  /\ UNCHANGED <<builds, levelEvents>>

-----------------------------------------------------------------------------
(* The game goes on (external): entities are destroyed and move, objectives  *)
(* advance.  PhysicsSystem copies a position to the transform if told to.    *)
Play ==
  /\ loadedLevel # <<>> /\ levelEvents < MaxLevelEvents /\ levelEvents' = levelEvents + 1
  /\ UNCHANGED <<draft, builds, report, loadedLevel>>

DestroySpawned ==
  \E i \in DOMAIN spawned : Play /\ spawned[i].alive /\ spawned' = [spawned EXCEPT ![i].alive = FALSE] /\ UNCHANGED objectiveStates

MoveSpawned ==
  \E i \in DOMAIN spawned, place \in Places :
    /\ Play /\ spawned[i].alive /\ spawned[i].moves
    /\ spawned' = [spawned EXCEPT ![i].bodyAt = place, ![i].at = IF spawned[i].tracked THEN place ELSE @]
    /\ UNCHANGED objectiveStates

AdvanceObjective ==
  \E id \in DOMAIN objectiveStates :
    Play /\ objectiveStates' = [objectiveStates EXCEPT ![id] = @ + 1] /\ UNCHANGED spawned

LevelNext ==
  \/ AddLevelEntity \/ WithPart \/ WithParent \/ SetAgent \/ AddObjective \/ AddWinCondition
  \/ Load \/ DestroySpawned \/ MoveSpawned \/ AdvanceObjective

-----------------------------------------------------------------------------
(* WinEvaluator.                                                             *)
Distance(x, y) == IF x > y THEN x - y ELSE y - x

EvaluateCondition(c) ==
  CASE c.kind = "ObjectiveAtLeast" -> c.objective \in DOMAIN objectiveStates /\ objectiveStates[c.objective] >= c.threshold
    [] c.kind = "ObjectiveEquals" -> c.objective \in DOMAIN objectiveStates /\ objectiveStates[c.objective] = c.threshold
    [] c.kind = "EntityReached" ->
         LET e == EntityFor(loadedLevel, c.entity)
         IN  e # 0 /\ spawned[e].alive /\ "transform" \in spawned[e].parts /\ Distance(spawned[e].at, c.point) <= c.radius
    [] c.kind = "AllTaggedDestroyed" -> \A i \in DOMAIN spawned : spawned[i].alive => c.tag \notin spawned[i].tags
    [] OTHER -> FALSE

(* The loop stops at the first failure that is met.                          *)
Outcome ==
  LET conditions == draft.def.winConditions
      after(sum, c) == CASE sum.lost \/ (c.isFailure /\ ~EvaluateCondition(c)) -> sum
                         [] c.isFailure -> [sum EXCEPT !.lost = TRUE]
                         [] OTHER -> [sum EXCEPT !.any = TRUE, !.all = @ /\ EvaluateCondition(c)]
      sum == FoldLeft(after, [lost |-> FALSE, any |-> FALSE, all |-> TRUE], conditions)
  IN  CASE sum.lost -> "Lost" [] sum.any /\ sum.all -> "Won" [] OTHER -> "InProgress"

-----------------------------------------------------------------------------
(* The entities above an entity, itself only if it is on a cycle.            *)
RECURSIVE Above(_, _)
Above(def, seen) ==
  LET up == seen \cup ({ParentIndex(def, i) : i \in seen} \ {0}) IN IF up = seen THEN seen ELSE Above(def, up)

CycleOf(def, i) ==
  LET from == {ParentIndex(def, i)} \ {0}
      around == IF from = {} THEN {} ELSE Above(def, from)
  IN  IF i \in around THEN around ELSE {}

(* Each cycle of parents is reported once, at an entity on it.  A level that *)
(* is accepted can be played: every parent is one of its entities, what it   *)
(* is to reach is watched where it really is, no tag counts as destroyed     *)
(* before something was, what has a target can move, and it is won or lost   *)
(* as its conditions, in any order, say.  Of a level that is refused nothing *)
(* is loaded.  (LevelValidator, LevelLoader and WinEvaluator)                *)
LevelSound ==
  LET def == draft.def
      on == {i \in DOMAIN def.entities : CycleOf(def, i) # {}}
      blamed == {e.at : e \in {f \in report : f.code = "ParentCycle"}}
      conditions == Range(def.winConditions)
  IN  /\ report # {} => spawned = <<>> /\ objectiveStates = <<>> /\ loadedLevel = <<>>
      /\ report # {} => blamed \subseteq on /\ \A i \in on : Cardinality(CycleOf(def, i) \cap blamed) = 1
      /\ loadedLevel # <<>> =>
           /\ on = {} /\ \A i \in DOMAIN spawned : ParentOf(def.entities[i]) # 0 => spawned[i].parent \in DOMAIN spawned
           /\ \A i \in DOMAIN spawned : "move" \in spawned[i].parts => spawned[i].moves
           /\ def.agent # 0 => loadedLevel.agent # 0 /\ "transform" \in spawned[loadedLevel.agent].parts
           /\ \A c \in conditions :
                /\ c.kind = "AllTaggedDestroyed" /\ EvaluateCondition(c) => \E i \in DOMAIN spawned : ~spawned[i].alive /\ c.tag \in spawned[i].tags
                /\ c.kind = "EntityReached" /\ spawned[EntityFor(loadedLevel, c.entity)].alive =>
                     (EvaluateCondition(c) <=> Distance(spawned[EntityFor(loadedLevel, c.entity)].bodyAt, c.point) <= c.radius)
           /\ Outcome = CASE \E c \in conditions : c.isFailure /\ EvaluateCondition(c) -> "Lost"
                           [] \A c \in conditions : c.isFailure \/ EvaluateCondition(c) -> "Won"
                           [] OTHER -> "InProgress"
=============================================================================
