--------------------------- MODULE ResidentStore ----------------------------
(***************************************************************************)
(* engine/water_world and engine/vegetation_world: what the simulation     *)
(* knows of the cells that are resident.  Each store has a grid for        *)
(* spatial queries; WaterStore counts how many cells mention a body, which *)
(* may lie across several, VegetationStore keeps which plants were felled. *)
(* Their streaming systems compare the layers that the streaming manager   *)
(* has loaded with what the store has ingested.                            *)
(*                                                                         *)
(* The horizontal plane is abstracted to one axis with integer places; the *)
(* surface of a body of water to a height.                                 *)
(***************************************************************************)
EXTENDS Integers, Sequences, SequencesExt

CONSTANTS
  WaterCell,
  NoLayer, Malformed,
  WaterBlobs,      \* sequences of bodies [id, lo, hi, ocean, height]; id 0 is kInvalidWaterBody
  PlantBlobs,      \* sequences of plants [at, destructible]
  Axis,            \* the places asked about
  GridSize,        \* broadphaseCellSize_
  GridLimit,       \* where a bucket coordinate saturates
  MaxGridCells,    \* kMaxGridCellsPerBody
  MaxGeneration    \* bound: the layers loaded

ASSUME StoreAssumption ==
  /\ Malformed # NoLayer /\ GridSize \in Nat \ {0} /\ {GridLimit, MaxGridCells, MaxGeneration} \subseteq Nat
  /\ \A blob \in WaterBlobs : \A k \in DOMAIN blob :
       blob[k].id \in Nat /\ blob[k].lo \in Int /\ blob[k].hi \in Int /\ blob[k].ocean \in BOOLEAN
  /\ \A blob \in PlantBlobs : \A k \in DOMAIN blob : blob[k].at \in Int /\ blob[k].destructible \in BOOLEAN

VARIABLES
  layers,          \* the manager's layers by kind and cell: blob and generation
  layerGeneration, \* nextLayerGeneration_ of the manager
  water,           \* the WaterStore, and ingested_ of its system
  plants           \* the VegetationStore, and ingested_ of its system

storeVars == <<layers, layerGeneration, water, plants>>

(* A coordinate far away saturates before the conversion to an integer.    *)
BucketOf(place) ==
  LET g == place \div GridSize IN IF g < -GridLimit THEN -GridLimit ELSE IF g > GridLimit THEN GridLimit ELSE g

Buckets == -GridLimit .. GridLimit

NoEntries == [b \in Buckets |-> <<>>]

StoreInit ==
  /\ layers = [kind \in {"Water", "Vegetation"} |-> [c \in WaterCell |-> NoLayer]]
  /\ layerGeneration = 1
  /\ water = [bodies |-> <<>>, refs |-> <<>>, cells |-> <<>>, grid |-> NoEntries, global |-> {}, ingested |-> <<>>]
  /\ plants = [cells |-> <<>>, grid |-> NoEntries, removed |-> {}, ingested |-> <<>>]

Without(f, k) == [j \in DOMAIN f \ {k} |-> f[j]]

With(f, k, v) == [j \in DOMAIN f \cup {k} |-> IF j = k THEN v ELSE f[j]]

(* A layer is loaded, with whatever data, or goes; nobody is told.         *)
LayerChanges(kind, c) ==
  /\ \/ /\ layerGeneration <= MaxGeneration
        /\ \E blob \in {Malformed} \cup (IF kind = "Water" THEN WaterBlobs ELSE PlantBlobs) :
             layers' = [layers EXCEPT ![kind][c] = [blob |-> blob, generation |-> layerGeneration]]
        /\ layerGeneration' = layerGeneration + 1
     \/ /\ layers[kind][c] # NoLayer
        /\ layers' = [layers EXCEPT ![kind][c] = NoLayer]
        /\ UNCHANGED layerGeneration
  /\ UNCHANGED <<water, plants>>

-----------------------------------------------------------------------------
(* WaterStore w: a body too large for the grid is looked at by every query.*)
IsLargeBody(body) == body.ocean \/ body.hi < body.lo \/ body.hi - body.lo > (MaxGridCells - 1) * GridSize

BucketsOfBody(body) == BucketOf(body.lo) .. BucketOf(body.hi)

IndexBody(w, id) ==
  IF IsLargeBody(w.bodies[id]) THEN [w EXCEPT !.global = @ \cup {id}]
  ELSE [w EXCEPT !.grid = [b \in Buckets |-> IF b \in BucketsOfBody(w.bodies[id]) THEN Append(@[b], id) ELSE @[b]]]

DeindexBody(w, id) ==
  IF IsLargeBody(w.bodies[id]) THEN [w EXCEPT !.global = @ \ {id}]
  ELSE [w EXCEPT !.grid = [b \in Buckets |-> IF b \in BucketsOfBody(w.bodies[id])
                                             THEN SelectSeq(@[b], LAMBDA entry : entry # id) ELSE @[b]]]

Forget(w, id) ==
  IF id \notin DOMAIN w.refs THEN w
  ELSE IF w.refs[id] > 1 THEN [w EXCEPT !.refs[id] = @ - 1]
  ELSE [DeindexBody(w, id) EXCEPT !.bodies = Without(@, id), !.refs = Without(@, id)]

RemoveCellContribution(w, c) ==
  IF c \notin DOMAIN w.cells THEN w
  ELSE [FoldLeft(Forget, w, w.cells[c]) EXCEPT !.cells = Without(@, c)]

\* Mutant: a body that is known already is not counted again.
MentionOnce(w, body) ==
  IF body.id = 0 \/ body.id \in DOMAIN w.bodies THEN w
  ELSE [IndexBody([w EXCEPT !.bodies = With(@, body.id, body)], body.id) EXCEPT !.refs = With(@, body.id, 1)]

(* The first cell to bring a body says what it is.                         *)
Mention(w, body) ==
  LET first == body.id \notin DOMAIN w.bodies
      with == IF first THEN IndexBody([w EXCEPT !.bodies = With(@, body.id, body)], body.id) ELSE w
  IN  IF body.id = 0 THEN w
      ELSE [with EXCEPT !.refs = With(@, body.id, IF first THEN 1 ELSE w.refs[body.id] + 1)]

IdsOf(blob) == SelectSeq([k \in DOMAIN blob |-> blob[k].id], LAMBDA id : id # 0)

\* Mutant: what the cell said before goes when the new bodies are there.
MentionThenRemove(w, c, blob) ==
  [RemoveCellContribution(FoldLeft(Mention, w, blob), c) EXCEPT !.cells = With(@, c, IdsOf(blob))]

LoadWaterCell(w, c, blob) ==
  [FoldLeft(Mention, RemoveCellContribution(w, c), blob) EXCEPT !.cells = With(@, c, IdsOf(blob))]

Overlaps(body, lo, hi) == body.lo <= hi /\ body.hi >= lo

BodiesOverlapping(w, lo, hi) ==
  {id \in DOMAIN w.bodies \cap (w.global \cup UNION {ToSet(w.grid[b]) : b \in BucketOf(lo) .. BucketOf(hi)}) :
     Overlaps(w.bodies[id], lo, hi)}

(* The highest surface over a place; of equals, the lowest number.         *)
Topmost(w, ids) ==
  CHOOSE id \in ids : \A other \in ids \ {id} :
    w.bodies[id].height > w.bodies[other].height \/ (w.bodies[id].height = w.bodies[other].height /\ id < other)

BodiesAt(w, place) ==
  {id \in DOMAIN w.bodies \cap (w.global \cup ToSet(w.grid[BucketOf(place)])) : Overlaps(w.bodies[id], place, place)}

BodyAt(w, place) == LET ids == BodiesAt(w, place) IN IF ids = {} THEN 0 ELSE Topmost(w, ids)

-----------------------------------------------------------------------------
(* VegetationStore v; a plant is known by its cell and its place in it.    *)
KeysOf(v, c) == {<<c, k>> : k \in DOMAIN v.cells[c]}

UnloadPlantCell(v, c) ==
  LET keys == IF c \in DOMAIN v.cells THEN KeysOf(v, c) ELSE {}
  IN  [v EXCEPT !.cells = Without(@, c),
                !.grid = [b \in Buckets |-> SelectSeq(@[b], LAMBDA key : key \notin keys)],
                !.removed = {key \in @ : key[1] # c}]

LoadPlantCell(v, c, blob) ==
  LET base == IF c \in DOMAIN v.cells THEN UnloadPlantCell(v, c) ELSE v
      KeysIn(b) == SelectSeq([k \in DOMAIN blob |-> <<c, k>>], LAMBDA key : BucketOf(blob[key[2]].at) = b)
  IN  [base EXCEPT !.cells = With(@, c, blob), !.grid = [b \in Buckets |-> @[b] \o KeysIn(b)]]

Felled(v, key) ==
  IF key[1] \in DOMAIN v.cells /\ key[2] \in DOMAIN v.cells[key[1]] /\ v.cells[key[1]][key[2]].destructible
  THEN [v EXCEPT !.removed = @ \cup {key}] ELSE v

Fell(key) ==
  /\ plants' = Felled(plants, key)
  /\ UNCHANGED <<layers, layerGeneration, water>>

Populated(v) == {b \in Buckets : v.grid[b] # <<>>}

(* A window wider than the grid is populated is answered from the buckets  *)
(* populated, another bucket by bucket: the same buckets either way.       *)
GatherCandidates(v, lo, hi) ==
  LET span == BucketOf(hi) - BucketOf(lo) + 1
      dense == [k \in 1 .. span |-> v.grid[BucketOf(lo) + k - 1]]
      inside == SetToSeq({b \in Populated(v) : BucketOf(lo) <= b /\ b <= BucketOf(hi)})
  IN  IF hi < lo \/ Populated(v) = {} THEN <<>>
      ELSE IF span <= Cardinality(Populated(v)) THEN FlattenSeq(dense)
      ELSE FlattenSeq([k \in DOMAIN inside |-> v.grid[inside[k]]])

PlantLives(v, key) ==
  key \notin v.removed /\ key[1] \in DOMAIN v.cells /\ key[2] \in DOMAIN v.cells[key[1]]

QueryPlants(v, lo, hi) ==
  SelectSeq(GatherCandidates(v, lo, hi),
            LAMBDA key : PlantLives(v, key) /\ lo <= v.cells[key[1]][key[2]].at /\ v.cells[key[1]][key[2]].at <= hi)

AllLive(v) == {key \in UNION {KeysOf(v, c) : c \in DOMAIN v.cells} : key \notin v.removed}

LiveInstanceCount(v) == Cardinality(UNION {KeysOf(v, c) : c \in DOMAIN v.cells}) - Cardinality(v.removed)

-----------------------------------------------------------------------------
(* Sync of a streaming system: the layers are visited in any order; one    *)
(* that cannot be parsed leaves the store as it is and is tried again.     *)
Synced(store, kind, Load(_, _, _), Unload(_, _)) ==
  LET loaded == {c \in WaterCell : layers[kind][c] # NoLayer}
      Ingest(s, c) ==
        LET l == layers[kind][c] IN
        IF (c \in DOMAIN s.ingested /\ s.ingested[c] = l.generation) \/ l.blob = Malformed THEN s
        ELSE [Load(s, c, l.blob) EXCEPT !.ingested = With(@, c, l.generation)]
      Evict(s, c) == IF c \in loaded THEN s ELSE [Unload(s, c) EXCEPT !.ingested = Without(@, c)]
  IN  {FoldLeft(Evict, s, SetToSeq(DOMAIN s.ingested)) :
         s \in {FoldLeft(Ingest, store, order) : order \in SetToSeqs(loaded)}}

SyncWater ==
  /\ water' \in Synced(water, "Water", LoadWaterCell, RemoveCellContribution)
  /\ UNCHANGED <<layers, layerGeneration, plants>>

SyncPlants ==
  /\ plants' \in Synced(plants, "Vegetation", LoadPlantCell, UnloadPlantCell)
  /\ UNCHANGED <<layers, layerGeneration, water>>

(* The two stores know nothing of each other.                              *)
WaterNext == SyncWater \/ \E c \in WaterCell : LayerChanges("Water", c)

PlantNext ==
  \/ SyncPlants
  \/ \E c \in WaterCell : LayerChanges("Vegetation", c)
  \/ \E c \in WaterCell, k \in 1 .. 3 : Fell(<<c, k>>)

-----------------------------------------------------------------------------
SpansAsked == {<<lo, hi>> \in Axis \X Axis : lo <= hi}

(* Whatever was loaded, replaced and unloaded, and in which order, a query *)
(* finds exactly the bodies that a resident cell mentions, where the store *)
(* has them, and the plants of the resident cells that still stand, each   *)
(* once: the grid (IndexBody, DeindexBody, the reference counts,           *)
(* UnloadCell's removals) never keeps an entry too many, and never loses   *)
(* one.  Which cell's word the store has of a body is for ReloadReplaces.  *)
QueriesExact ==
  /\ DOMAIN water.bodies = UNION {ToSet(water.cells[c]) : c \in DOMAIN water.cells}
  /\ \A c \in DOMAIN water.ingested :
       (layers["Water"][c] # NoLayer /\ layers["Water"][c].generation = water.ingested[c]) =>
         water.cells[c] = IdsOf(layers["Water"][c].blob)
  /\ \A c \in DOMAIN plants.ingested :
       (layers["Vegetation"][c] # NoLayer /\ layers["Vegetation"][c].generation = plants.ingested[c]) =>
         plants.cells[c] = layers["Vegetation"][c].blob
  /\ \A place \in Axis :
       BodiesAt(water, place) = {id \in DOMAIN water.bodies : Overlaps(water.bodies[id], place, place)}
  /\ \A win \in SpansAsked :
       /\ BodiesOverlapping(water, win[1], win[2]) =
            {id \in DOMAIN water.bodies : Overlaps(water.bodies[id], win[1], win[2])}
       /\ IsInjective(QueryPlants(plants, win[1], win[2]))
       /\ ToSet(QueryPlants(plants, win[1], win[2])) =
            {key \in AllLive(plants) : plants.cells[key[1]][key[2]].at \in win[1] .. win[2]}
  /\ LiveInstanceCount(plants) = Cardinality(AllLive(plants))

(* A cell that is loaded or loaded again says what its bodies are, but for *)
(* those that another cell mentions before or after.  Of these the store   *)
(* keeps what the first cell said until the last of them is gone: "Re-     *)
(* loading a cell replaces its contribution" (water_store.h:39) is true of *)
(* what the cell mentions, not of what it says of a body it shares.        *)
ReloadReplaces ==
  [][\A c \in DOMAIN water'.ingested :
       LET blob == layers["Water"][c].blob
           Elsewhere(w) == UNION {ToSet(w.cells[d]) : d \in DOMAIN w.cells \ {c}}
       IN  ~(c \in DOMAIN water.ingested /\ water.ingested[c] = water'.ingested[c]) =>
             \A id \in ToSet(IdsOf(blob)) \ (Elsewhere(water) \cup Elsewhere(water')) :
               water'.bodies[id] = blob[SelectInSeq(blob, LAMBDA body : body.id = id)]]_water
=============================================================================
