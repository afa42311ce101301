---------------------------- MODULE EntityWorld -----------------------------
(***************************************************************************)
(* engine/runtime, World: generational entity handles, and one table per   *)
(* set of component types with a row per entity and a column per type, a   *)
(* row being removed by moving the last one into its place.                *)
(*                                                                         *)
(* One thread; every operation of World is one step, and a flush of a      *)
(* CommandBuffer is a sequence of them.  The handles a caller can pass are *)
(* those CreateEntity has returned, whether or not the entity still lives. *)
(***************************************************************************)
EXTENDS Naturals, Sequences, FiniteSets, SequencesExt

CONSTANTS
  Type,         \* the component types
  Value,        \* the values a component can have
  Default,      \* T(), the value of a component added without one
  VersionSize,  \* the number of values of the version field
  MaxIds,       \* bound: the entity indices drawn
  MaxIssued     \* bound: the handles issued

ASSUME WorldAssumption ==
  /\ Default \in Value
  /\ VersionSize \in Nat /\ VersionSize > 1
  /\ MaxIds \in Nat
  /\ MaxIssued \in Nat

VARIABLES
  version,   \* by index: the version of entityMetadata_, 0 before the first use
  alive,     \* the indices whose metadata says alive
  freeIDs,   \* freeIDs_
  nextID,    \* nextEntityID_
  entities,  \* entities_
  store,     \* archetypes_ (rows and columns) and entityLocation_
  issued     \* history: the handles CreateEntity has returned

book == <<version, alive, freeIDs, nextID, entities, issued>>
entityVars == <<book, store>>

Id == 1 .. MaxIds

Handle == [id : Id, version : 1 .. VersionSize - 1]

Signature == SUBSET Type

WorldInit ==
  /\ version = [i \in Id |-> 0]
  /\ alive = {}
  /\ freeIDs = << >>
  /\ nextID = 1
  /\ entities = {}
  /\ store = [rows |-> [sig \in Signature |-> << >>],
              column |-> [sig \in Signature |-> [t \in Type |-> << >>]],
              location |-> [h \in {} |-> [sig |-> {}, row |-> 0]]]
  /\ issued = {}

IsEntityValid(h) == h.id \in alive /\ version[h.id] = h.version

-----------------------------------------------------------------------------
(* The tables.                                                             *)
SwapPop(seq, row) ==
  [i \in 1 .. Len(seq) - 1 |-> IF i = row THEN seq[Len(seq)] ELSE seq[i]]

\* Mutant: the entity moved into the place keeps its old row.
RemoveRowUntold(s, sig, row) ==
  [rows |-> [s.rows EXCEPT ![sig] = SwapPop(@, row)],
   column |-> [s.column EXCEPT ![sig] =
                 [t \in Type |-> IF t \in sig THEN SwapPop(@[t], row) ELSE @[t]]],
   location |-> s.location]

(* Removes a row; the entity moved into its place is told its new row.     *)
RemoveRow(s, sig, row) ==
  LET last == Len(s.rows[sig]) IN
  [rows |-> [s.rows EXCEPT ![sig] = SwapPop(@, row)],
   column |-> [s.column EXCEPT ![sig] =
                 [t \in Type |-> IF t \in sig THEN SwapPop(@[t], row) ELSE @[t]]],
   location |-> IF row = last THEN s.location
                ELSE [s.location EXCEPT ![s.rows[sig][last]].row = row]]

\* Mutant: the row starts with defaults, whatever the entity had.
AppendDefaultRow(s, h, from, row, to) ==
  [s EXCEPT
     !.rows[to] = Append(@, h),
     !.column[to] = [t \in Type |-> IF t \in to THEN Append(@[t], Default) ELSE @[t]]]

(* A new last row: the values the entity has in row `row` of `from`, and    *)
(* the default for a type it did not have.                                 *)
AppendMigratedRow(s, h, from, row, to) ==
  [s EXCEPT
     !.rows[to] = Append(@, h),
     !.column[to] = [t \in Type |->
        IF t \in to
        THEN Append(@[t], IF t \in from THEN s.column[from][t][row] ELSE Default)
        ELSE @[t]]]

MigrateEntity(s, h, to) ==
  LET at == s.location[h]
      moved == RemoveRow(AppendMigratedRow(s, h, at.sig, at.row, to), at.sig, at.row)
  IN  [moved EXCEPT !.location[h] = [sig |-> to, row |-> Len(s.rows[to]) + 1]]

EnsureEntityTracked(s, h) ==
  IF h \in DOMAIN s.location THEN s
  ELSE [rows |-> [s.rows EXCEPT ![{}] = Append(@, h)],
        column |-> s.column,
        location |-> [g \in DOMAIN s.location \cup {h} |->
                        IF g = h THEN [sig |-> {}, row |-> Len(s.rows[{}]) + 1]
                        ELSE s.location[g]]]

Has(s, h, t) == t \in s.location[h].sig

SetValue(s, h, t, v) == [s EXCEPT !.column[s.location[h].sig][t][s.location[h].row] = v]

AddTo(s, h, t, v) ==
  LET tracked == EnsureEntityTracked(s, h)
      typed == IF Has(tracked, h, t) THEN tracked
               ELSE MigrateEntity(tracked, h, tracked.location[h].sig \cup {t})
  IN  SetValue(typed, h, t, v)

Untrack(s, h) ==
  LET at == s.location[h]
      removed == RemoveRow(s, at.sig, at.row)
  IN  [removed EXCEPT !.location = [g \in DOMAIN s.location \ {h} |-> @[g]]]

-----------------------------------------------------------------------------
(* The operations.                                                         *)
NewVersion(v) == IF (v + 1) % VersionSize = 0 THEN 1 ELSE (v + 1) % VersionSize

NewEntity ==
  IF freeIDs # << >>
  THEN [id |-> Head(freeIDs), version |-> NewVersion(version[Head(freeIDs)])]
  ELSE [id |-> nextID, version |-> 1]

CreateEntity ==
  /\ freeIDs # << >> \/ nextID \in Id
  /\ NewEntity \in issued \/ Cardinality(issued) < MaxIssued
  /\ IF freeIDs # << >>
     THEN freeIDs' = Tail(freeIDs) /\ UNCHANGED nextID
     ELSE nextID' = nextID + 1 /\ UNCHANGED freeIDs
  /\ version' = [version EXCEPT ![NewEntity.id] = NewEntity.version]
  /\ alive' = alive \cup {NewEntity.id}
  /\ entities' = entities \cup {NewEntity}
  /\ issued' = issued \cup {NewEntity}
  /\ store' = EnsureEntityTracked(store, NewEntity)

DestroyEntity(h) ==
  /\ IsEntityValid(h)
  /\ store' = IF h \in DOMAIN store.location THEN Untrack(store, h) ELSE store
  /\ alive' = alive \ {h.id}
  /\ freeIDs' = Append(freeIDs, h.id)
  /\ entities' = entities \ {h}
  /\ UNCHANGED <<version, nextID, issued>>

(* With the value of the call, or with Default.                            *)
AddComponent(h, t, v) ==
  /\ store' = AddTo(store, h, t, v)
  /\ UNCHANGED book

RemoveComponent(h, t) ==
  /\ h \in DOMAIN store.location /\ Has(store, h, t)
  /\ store' = MigrateEntity(store, h, store.location[h].sig \ {t})
  /\ UNCHANGED book

WorldNext ==
  \/ CreateEntity
  \/ \E h \in issued :
       \/ DestroyEntity(h)
       \/ \E t \in Type : RemoveComponent(h, t) \/ \E v \in Value : AddComponent(h, t, v)

WorldSpec == WorldInit /\ [][WorldNext]_entityVars

-----------------------------------------------------------------------------
WorldTypeOK ==
  /\ version \in [Id -> 0 .. VersionSize - 1]
  /\ alive \subseteq {i \in Id : i < nextID}
  /\ freeIDs \in Seq(Id)
  /\ nextID \in 1 .. MaxIds + 1
  /\ entities \subseteq issued
  /\ store.rows \in [Signature -> Seq(Handle)]
  /\ store.column \in [Signature -> [Type -> Seq(Value)]]
  /\ DOMAIN store.location \subseteq issued
  /\ issued \subseteq Handle

(* Every row is known to the entity in it and every entity is in its row,  *)
(* in a table that has a value for each of its types in that row: no       *)
(* sequence of migrations and removals leaves a stale row behind.          *)
RowsExact ==
  /\ \A h \in DOMAIN store.location :
       LET at == store.location[h] IN
         /\ at.sig \in Signature /\ at.row \in 1 .. Len(store.rows[at.sig])
         /\ store.rows[at.sig][at.row] = h
  /\ \A sig \in Signature :
       /\ \A row \in 1 .. Len(store.rows[sig]) :
            LET h == store.rows[sig][row] IN
              h \in DOMAIN store.location /\ store.location[h] = [sig |-> sig, row |-> row]
       /\ \A t \in Type :
            Len(store.column[sig][t]) = IF t \in sig THEN Len(store.rows[sig]) ELSE 0

Valid == {h \in issued : IsEntityValid(h)}

(* An index is alive or free, never both, and free once: no index is given *)
(* to two entities, and the entities counted are the valid ones.           *)
IndicesExact ==
  /\ entities = Valid
  /\ ToSet(freeIDs) = {i \in Id : i < nextID} \ alive
  /\ IsInjective(freeIDs)

(* What the rows and columns say of an entity.                             *)
Components ==
  [h \in DOMAIN store.location |->
     [t \in store.location[h].sig |->
        store.column[store.location[h].sig][t][store.location[h].row]]]

(* The tables implement the map.                                           *)
Map == INSTANCE EntityMap WITH valid <- Valid, components <- Components

MapSpec == Map!Spec
=============================================================================
