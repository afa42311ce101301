------------------------------- MODULE CellCook -------------------------------
(***************************************************************************)
(* From an authored scene to the layers of a cell file: engine/water and   *)
(* engine/vegetation with their cooks, as next_assetc runs them.  A scene  *)
(* of water or a definition of plants comes from the lines of a text or    *)
(* from calls of a builder, is validated, cooked for one cell, packed and  *)
(* written to the cell's file, where the other layers may be already.      *)
(*                                                                         *)
(* Cells lie along one axis; bodies of water have an extent on it and a    *)
(* height, plants a place in the square of their cell.  A packed layer is  *)
(* a sequence of words, one for a field.  The density of a species is the  *)
(* number of plants along a side of a cell, the slope a number of degrees, *)
(* a set of flags or of mask bits the set of the bits' values.  Codecs and *)
(* checksums of the file are those of CookedFiles.                         *)
(***************************************************************************)
EXTENDS Integers, Sequences, FiniteSets, SequencesExt, FiniteSetsExt

CONSTANTS
  CookCell,            \* cells, by their coordinate
  SideLength,          \* cellSize
  NoNumber,            \* an infinity or no number
  MaxWaves, MaxCellBodies, MaxSceneBodies,      \* kMaxWavesPerBody, kMaxWaterBodiesPer...
  MaxCoord, MaxHeaviness, MaxAmplitude,         \* kMaxWaterCoord, kMaxWaterDensity, kMaxWaveAmplitude
  MaxSpecies, MaxDensity,                       \* kMaxVegetationSpecies, kMaxDensityPerSqMeter
  MaxCellPlants,                                \* kMaxVegetationCellInstances
  SampleAt(_, _),      \* the terrain: [height, slope, mask]
  WaterTexts,          \* sequences of lines, or of calls of a builder
  PlantTexts,
  MaxCooks             \* bound: files written

ASSUME CookAssumption ==
  /\ CookCell \subseteq Int /\ SideLength \in Nat \ {0} /\ MaxCooks \in Nat
  /\ {MaxWaves, MaxCellBodies, MaxSceneBodies, MaxCoord, MaxHeaviness, MaxAmplitude, MaxSpecies, MaxDensity,
      MaxCellPlants} \subseteq Nat

VARIABLES
  cellFiles,           \* the chunks of each cell's file, <<>> where there is none
  authored,            \* history: what was cooked last for each cell, and the layers kept of it
  cooks                \* bound: files written so far

cookVars == <<cellFiles, authored, cooks>>

Valid(v) == v # NoNumber

Named(faults) == {code \in DOMAIN faults : faults[code]}

Over(part, sets) == [f \in DOMAIN part |-> IF f \in DOMAIN sets THEN sets[f] ELSE part[f]]

SumOf(s) == FoldLeft(LAMBDA sum, n : sum + n, 0, s)

-----------------------------------------------------------------------------
(* Water.                                                                  *)
Ocean == 0

Flood == 3

WaterFlag == {1, 2, 4, 8, 16, 32}

WaterCurrent == 8

NewBody(id, type) ==
  [id |-> id, type |-> type, lo |-> -10, hi |-> 10, bottom |-> -10, top |-> 0, surface |-> 0, density |-> 10,
   flow |-> 0, drag |-> 2, rate |-> 0, crest |-> 0, waves |-> <<>>, visual |-> 0, flags |-> {1}]

EmptyScene == [ok |-> TRUE, id |-> "", bodies |-> <<>>]

(* At most MaxWaves of them, for a number of eight bits, share the budget  *)
(* of three quarters; a full steepness is 100.                             *)
GenerateOceanWaves(count) ==
  LET n == Min({count % 256, MaxWaves})
  IN  [k \in 1 .. n |-> [amplitude |-> k, wavelength |-> 1, direction |-> 1, speed |-> 1, steepness |-> 75 \div n]]

WaterKey == {"bounds", "surface", "density", "flow", "drag", "flood", "visual", "flags", "wave", "ocean"}

(* A line or a call that says something of a body.  The direction of a     *)
(* wave is made a unit, 1; that of no length, 0, becomes one too.          *)
BodyWith(body, line) ==
  CASE line.key = "flow" -> [Over(body, line.sets) EXCEPT !.flags = @ \cup {WaterCurrent}]
    [] line.key = "flags" -> [body EXCEPT !.flags = line.flags \cap WaterFlag]
    [] line.key = "set flag" -> [body EXCEPT !.flags = (@ \ {line.flag}) \cup (IF line.on THEN {line.flag} ELSE {})]
    [] line.key = "wave" -> [body EXCEPT !.waves = Append(@, [line.wave EXCEPT !.direction = IF Valid(@) THEN 1 ELSE @])]
    [] line.key = "ocean" -> [body EXCEPT !.waves = @ \o GenerateOceanWaves(line.count)]
    [] OTHER -> Over(body, line.sets)

(* A line is good when it has all it needs, of known types.  An id that is *)
(* missing leaves the one said before.                                     *)
WaterLine(scene, line) ==
  LET id == IF line.key = "scene" /\ line.good THEN line.id ELSE scene.id
      last == Len(scene.bodies)
      fits == CASE line.key = "scene" -> id # ""
                [] line.key = "body" -> line.good
                [] OTHER -> last > 0 /\ line.key \in WaterKey /\ line.good
  IN  IF ~scene.ok \/ ~fits THEN [scene EXCEPT !.ok = FALSE]
      ELSE CASE line.key = "scene" -> [scene EXCEPT !.id = id]
             [] line.key = "body" -> [scene EXCEPT !.bodies = Append(@, NewBody(line.id, line.type))]
             [] OTHER -> [scene EXCEPT !.bodies[last] = BodyWith(@, line)]

ParseWaterDefText(lines) == FoldLeft(WaterLine, EmptyScene, lines)

(* A setter before the first body makes one without an id.                 *)
WaterCall(scene, call) ==
  LET bodies == IF scene.bodies = <<>> THEN <<NewBody("", 1)>> ELSE scene.bodies
  IN  CASE call.key = "scene" -> [scene EXCEPT !.id = call.id]
        [] call.key = "body" -> [scene EXCEPT !.bodies = Append(@, NewBody(call.id, call.type))]
        [] OTHER -> [scene EXCEPT !.bodies = [bodies EXCEPT ![Len(bodies)] = BodyWith(@, call)]]

BuildWater(calls) == FoldLeft(WaterCall, EmptyScene, calls)

WaveFaults(w) ==
  Named([WaveAmplitudeBad |-> ~Valid(w.amplitude) \/ w.amplitude < 0 \/ w.amplitude > MaxAmplitude,
         WaveWavelengthBad |-> ~Valid(w.wavelength) \/ w.wavelength <= 0,
         WaveDirectionDegenerate |-> ~Valid(w.direction) \/ w.direction = 0,
         WaveSpeedBad |-> ~Valid(w.speed) \/ w.speed < 0,
         WaveSteepnessOutOfRange |-> w.steepness \notin 0 .. 100])

BodyFaults(b) ==
  LET bounded == \A v \in {b.lo, b.hi, b.bottom, b.top} : Valid(v)
      steep == SelectSeq([k \in DOMAIN b.waves |-> b.waves[k].steepness], LAMBDA s : s \in 0 .. 100)
  IN  UNION {WaveFaults(b.waves[k]) : k \in DOMAIN b.waves} \cup
      Named([BodyIdEmpty |-> b.id = "",
             BoundsNotFinite |-> ~bounded,
             BoundsInverted |-> bounded /\ (b.lo > b.hi \/ b.bottom > b.top),
             BoundsTooLarge |-> bounded /\ \E v \in {b.lo, b.hi, b.bottom, b.top} : v \notin -MaxCoord .. MaxCoord,
             SurfaceNotFinite |-> ~Valid(b.surface),
             SurfaceOutsideBounds |->
               Valid(b.surface) /\ b.type # Ocean /\ bounded /\ b.surface \notin b.bottom .. b.top,
             DensityOutOfRange |-> ~Valid(b.density) \/ b.density <= 0 \/ b.density > MaxHeaviness,
             FlowNotFinite |-> ~Valid(b.flow),
             DragNegative |-> ~Valid(b.drag) \/ b.drag < 0,
             FloodRateNegative |-> ~Valid(b.rate) \/ b.rate < 0,
             FloodMaxBelowSurface |-> b.type = Flood /\ Valid(b.surface) /\ Valid(b.crest) /\ b.crest < b.surface,
             TooManyWaves |-> Len(b.waves) > MaxWaves,
             TotalSteepnessExceedsOne |-> SumOf(steep) > 100])

(* WaterValidator::Validate.  The schema is always the current one here.   *)
WaterFaults(scene) ==
  LET ids == SelectSeq([k \in DOMAIN scene.bodies |-> scene.bodies[k].id], LAMBDA id : id # "")
  IN  UNION {BodyFaults(scene.bodies[k]) : k \in DOMAIN scene.bodies} \cup
      Named([SceneIdEmpty |-> scene.id = "",
             NoBodies |-> scene.bodies = <<>>,
             TooManyBodies |-> Len(scene.bodies) > MaxSceneBodies,
             BodyIdDuplicate |-> ~IsInjective(ids)])

WaterMagic == 77

(* The frozen sizes of the two headers; a record is as it was.             *)
HeaderV1 == 5

HeaderV2 == 6

BodyWords == 15 + MaxWaves

(* BakeBody: the record of a body has room for MaxWaves waves.             *)
BakeBody(b, id) ==
  LET n == Min({Len(b.waves), MaxWaves})
  IN  <<b.lo, b.hi, b.bottom, b.top, b.surface, b.density, b.flow, b.drag, b.rate, b.crest>> \o
      [k \in 1 .. MaxWaves |-> IF k <= n THEN b.waves[k].amplitude ELSE 0] \o
      <<id, b.visual, SumOf(SetToSeq(b.flags)), b.type, n>>

WaveCount(record) == record[BodyWords]

BodyId(record) == record[11 + MaxWaves]

(* The far edge of a cell belongs to it as well as to the next.            *)
ReachesCell(b, c) == b.lo <= (c + 1) * SideLength /\ b.hi >= c * SideLength

BodiesOfCell(scene, c) ==
  LET inCell == SelectSeq([k \in DOMAIN scene.bodies |-> k], LAMBDA k : ReachesCell(scene.bodies[k], c))
  IN  [n \in DOMAIN inCell |-> BakeBody(scene.bodies[inCell[n]], inCell[n])]

CooksWater(scene, c) == scene.ok /\ WaterFaults(scene) = {} /\ Len(BodiesOfCell(scene, c)) <= MaxCellBodies

PackWater(c, bodies) == <<WaterMagic, 2, HeaderV2, Len(bodies), c, BodyWords>> \o FlattenSeq(bodies)

PackCellLegacyV1(c, bodies) == <<WaterMagic, 1, HeaderV1, Len(bodies), c>> \o FlattenSeq(bodies)

NotRead == [ok |-> FALSE, cell |-> 0, items |-> <<>>]

(* Records of so many words after so many words of header.                 *)
RecordsAfter(words, header, size) ==
  [k \in 1 .. words[4] |-> SubSeq(words, header + (k - 1) * size + 1, header + k * size)]

UnpackCellV1(words) ==
  LET whole == /\ Len(words) >= HeaderV1
               /\ words[3] = HeaderV1
               /\ words[4] <= MaxCellBodies
               /\ Len(words) = HeaderV1 + words[4] * BodyWords
      records == RecordsAfter(words, HeaderV1, BodyWords)
  IN  IF whole /\ \A k \in DOMAIN records : WaveCount(records[k]) <= MaxWaves
      THEN [ok |-> TRUE, cell |-> words[5], items |-> records] ELSE NotRead

\* Mutant: the number of waves of a record is believed.
UnpackAnyWaves(words) ==
  IF /\ Len(words) >= HeaderV2 /\ words[3] = HeaderV2 /\ words[6] = BodyWords /\ words[4] <= MaxCellBodies
     /\ Len(words) = HeaderV2 + words[4] * BodyWords
  THEN [ok |-> TRUE, cell |-> words[5], items |-> RecordsAfter(words, HeaderV2, BodyWords)] ELSE NotRead

UnpackCellV2(words) ==
  LET whole == /\ Len(words) >= HeaderV2
               /\ words[3] = HeaderV2
               /\ words[6] = BodyWords
               /\ words[4] <= MaxCellBodies
               /\ Len(words) = HeaderV2 + words[4] * BodyWords
      records == RecordsAfter(words, HeaderV2, BodyWords)
  IN  IF whole /\ \A k \in DOMAIN records : WaveCount(records[k]) <= MaxWaves
      THEN [ok |-> TRUE, cell |-> words[5], items |-> records] ELSE NotRead

UnpackWater(words) ==
  IF Len(words) < 2 \/ words[1] # WaterMagic THEN NotRead
  ELSE CASE words[2] = 1 -> UnpackCellV1(words)
         [] words[2] = 2 -> UnpackCellV2(words)
         [] OTHER -> NotRead

-----------------------------------------------------------------------------
(* Vegetation.                                                             *)
PlantFlag == {1, 2, 4}

(* static_cast of the size plus one: dense, from 1.                        *)
NewSpecies(definition, visual) ==
  [id |-> Len(definition.species) + 1, visual |-> visual, density |-> 1, spacing |-> 1, minSlope |-> 0, maxSlope |-> 90,
   minAltitude |-> -100, maxAltitude |-> 100, minScale |-> 1, maxScale |-> 1, radius |-> 0, mask |-> {}, flags |-> {}]

EmptyDefinition == [ok |-> TRUE, id |-> "", seed |-> 0, cap |-> 99, species |-> <<>>]

PlantKey == {"density", "spacing", "slope", "altitude", "scale", "radius", "mask", "flags"}

SpeciesWith(species, line) ==
  CASE line.key = "flags" -> [species EXCEPT !.flags = line.flags \cap PlantFlag]
    [] line.key = "set flag" -> [species EXCEPT !.flags = (@ \ {line.flag}) \cup (IF line.on THEN {line.flag} ELSE {})]
    [] OTHER -> Over(species, line.sets)

PlantLine(definition, line) ==
  LET id == IF line.key = "id" /\ line.good THEN line.id ELSE definition.id
      last == Len(definition.species)
      fits == CASE line.key = "id" -> id # ""
                [] line.key \in {"seed", "cap", "species"} -> line.good
                [] OTHER -> last > 0 /\ line.key \in PlantKey /\ line.good
  IN  IF ~definition.ok \/ ~fits THEN [definition EXCEPT !.ok = FALSE]
      ELSE CASE line.key = "id" -> [definition EXCEPT !.id = id]
             [] line.key \in {"seed", "cap"} -> Over(definition, line.sets)
             [] line.key = "species" -> [definition EXCEPT !.species = Append(@, NewSpecies(definition, line.visual))]
             [] OTHER -> [definition EXCEPT !.species[last] = SpeciesWith(@, line)]

ParseVegetationDefText(lines) == FoldLeft(PlantLine, EmptyDefinition, lines)

PlantCall(definition, call) ==
  LET species == IF definition.species = <<>> THEN <<NewSpecies(definition, 0)>> ELSE definition.species
  IN  CASE call.key = "id" -> [definition EXCEPT !.id = call.id]
        [] call.key \in {"seed", "cap"} -> Over(definition, call.sets)
        [] call.key = "species" -> [definition EXCEPT !.species = Append(@, NewSpecies(definition, call.visual))]
        [] OTHER -> [definition EXCEPT !.species = [species EXCEPT ![Len(species)] = SpeciesWith(@, call)]]

BuildPlants(calls) == FoldLeft(PlantCall, EmptyDefinition, calls)

SpeciesFaults(s) ==
  LET slopes == Valid(s.minSlope) /\ Valid(s.maxSlope)
      altitudes == Valid(s.minAltitude) /\ Valid(s.maxAltitude)
      scales == Valid(s.minScale) /\ Valid(s.maxScale)
  IN  Named([ReservedSpeciesId |-> s.id = 0,
             ZeroVisualId |-> s.visual = 0,
             NonFiniteDensity |-> ~Valid(s.density),
             NonPositiveDensity |-> Valid(s.density) /\ s.density <= 0,
             DensityTooHigh |-> Valid(s.density) /\ s.density > MaxDensity,
             NonFiniteSpacing |-> ~Valid(s.spacing),
             NegativeSpacing |-> Valid(s.spacing) /\ s.spacing < 0,
             NonFiniteSlopeRange |-> ~slopes,
             SlopeOutOfRange |-> slopes /\ (s.minSlope < 0 \/ s.maxSlope > 90),
             InvertedSlopeRange |-> slopes /\ s.minSlope > s.maxSlope,
             NonFiniteAltitudeRange |-> ~altitudes,
             InvertedAltitudeRange |-> altitudes /\ s.minAltitude > s.maxAltitude,
             NonFiniteScaleRange |-> ~scales,
             NonPositiveScale |-> scales /\ s.minScale <= 0,
             InvertedScaleRange |-> scales /\ s.minScale > s.maxScale,
             NonFiniteLogicalRadius |-> ~Valid(s.radius),
             NegativeLogicalRadius |-> Valid(s.radius) /\ s.radius < 0])

(* VegetationValidator::Validate; the ids are dense here, so none is twice.*)
PlantFaults(definition) ==
  UNION {SpeciesFaults(definition.species[k]) : k \in DOMAIN definition.species} \cup
  Named([EmptyVegetationId |-> definition.id = "",
         NoSpecies |-> definition.species = <<>>,
         TooManySpecies |-> Len(definition.species) > MaxSpecies,
         NonPositiveMaxInstancesPerCell |-> definition.cap = 0])

CooksPlants(definition) == definition.ok /\ PlantFaults(definition) = {}

(* The nodes along a side: what the density asks for, or as many as the    *)
(* spacing allows, rounded.                                                *)
GridDim(s) ==
  IF s.spacing * s.density <= SideLength THEN s.density
  ELSE IF s.spacing > SideLength THEN 1
  ELSE (2 * SideLength + s.spacing) \div (2 * s.spacing)

Nodes(n) == [k \in 1 .. n * n |-> [i |-> (k - 1) \div n, j |-> (k - 1) % n]]

(* NodeSeed and DetRng: a fixed function, one like any other.              *)
Jitter(definition, c, s, node, axis) ==
  definition.seed + 5 * c + 3 * s.id + 7 * node.i + 4 * node.j + axis * (node.i + 2 * node.j + 1)

(* The place of a node in its tile, and the terrain there.                 *)
Candidate(definition, c, s, node) ==
  LET tile == SideLength \div GridDim(s)
      x == c * SideLength + node.i * tile + (Jitter(definition, c, s, node, 0) % tile)
      z == node.j * tile + (Jitter(definition, c, s, node, 1) % tile)
  IN  [x |-> x, z |-> z, ground |-> SampleAt(x, z)]

(* A normal of no length, here a slope of -1, is taken for flat ground.    *)
Admits(s, at) ==
  LET slope == IF at.ground.slope = -1 THEN 0 ELSE at.ground.slope
  IN  /\ at.ground.height \in s.minAltitude .. s.maxAltitude
      /\ slope \in s.minSlope .. s.maxSlope
      /\ s.mask = {} \/ s.mask \cap at.ground.mask # {}

Apart(a, b) == (a.x - b.x) * (a.x - b.x) + (a.z - b.z) * (a.z - b.z)

(* The plants of the species in the nine buckets around the place.         *)
TooClose(out, s, at) ==
  s.spacing > 0 /\
  \E k \in DOMAIN out :
    /\ out[k].species = s.id
    /\ (out[k].x \div s.spacing) - (at.x \div s.spacing) \in -1 .. 1
    /\ (out[k].z \div s.spacing) - (at.z \div s.spacing) \in -1 .. 1
    /\ Apart(out[k], at) < s.spacing * s.spacing

PlantAt(s, at, ordinal) ==
  [x |-> at.x, height |-> at.ground.height, z |-> at.z, radius |-> s.radius, visual |-> s.visual,
   ordinal |-> ordinal, species |-> s.id, flags |-> SumOf(SetToSeq(s.flags))]

\* Mutant: the cap is looked at after the plant was added.
PlacedThenCapped(definition, c, s, acc, node) ==
  LET at == Candidate(definition, c, s, node)
  IN  IF acc.capped \/ ~Admits(s, at) \/ TooClose(acc.out, s, at) THEN acc
      ELSE [out |-> Append(acc.out, PlantAt(s, at, Len(acc.out))), capped |-> Len(acc.out) >= definition.cap]

(* One node of the loop; reaching the cap ends it for all species.         *)
Placed(definition, c, s, acc, node) ==
  LET at == Candidate(definition, c, s, node)
  IN  IF acc.capped \/ ~Admits(s, at) \/ TooClose(acc.out, s, at) THEN acc
      ELSE IF Len(acc.out) >= definition.cap THEN [acc EXCEPT !.capped = TRUE]
      ELSE [acc EXCEPT !.out = Append(@, PlantAt(s, at, Len(@)))]

ScatterCell(definition, c) ==
  FoldLeft(LAMBDA acc, s : FoldLeft(LAMBDA part, node : Placed(definition, c, s, part, node), acc, Nodes(GridDim(s))),
           [out |-> <<>>, capped |-> FALSE], definition.species).out

PlantMagic == 86

PlantWords == 8

PackPlants(c, plants) ==
  <<PlantMagic, 1, HeaderV1, Len(plants), c>> \o
  FlattenSeq([k \in DOMAIN plants |->
                <<plants[k].x, plants[k].height, plants[k].z, plants[k].radius, plants[k].visual, plants[k].ordinal,
                  plants[k].species, plants[k].flags>>])

PlantOf(r) ==
  [x |-> r[1], height |-> r[2], z |-> r[3], radius |-> r[4], visual |-> r[5], ordinal |-> r[6], species |-> r[7], flags |-> r[8]]

UnpackPlants(words) ==
  IF /\ Len(words) >= HeaderV1
     /\ words[1] = PlantMagic /\ words[2] = 1 /\ words[3] = HeaderV1
     /\ words[4] <= MaxCellPlants
     /\ Len(words) = HeaderV1 + words[4] * PlantWords
  THEN LET records == RecordsAfter(words, HeaderV1, PlantWords)
       IN  [ok |-> TRUE, cell |-> words[5], items |-> [k \in DOMAIN records |-> PlantOf(records[k])]]
  ELSE NotRead

-----------------------------------------------------------------------------
(* The file of a cell: chunks [layer, data], or something else at the path.*)
Chunk(layer, data) == [layer |-> layer, data |-> data]

OtherFile == <<Chunk("no layers", <<>>)>>

Layered(chunks) == chunks # <<>> /\ chunks # OtherFile

NoScene == [EmptyScene EXCEPT !.ok = FALSE]

NoPlants == [EmptyDefinition EXCEPT !.ok = FALSE]

Unwritten == [water |-> NoScene, plants |-> NoPlants, kept |-> {}]

CookInit ==
  /\ cellFiles = [c \in CookCell |-> <<>>]
  /\ authored = [c \in CookCell |-> Unwritten]
  /\ cooks = 0

(* A file is opened with truncation: what cannot be written whole is lost, *)
(* and what was there before as well.                                      *)
Write(c, chunks, made) ==
  /\ cooks' = cooks + 1
  /\ \/ cellFiles' = [cellFiles EXCEPT ![c] = chunks] /\ authored' = [authored EXCEPT ![c] = made]
     \/ cellFiles' = [cellFiles EXCEPT ![c] = OtherFile] /\ authored' = [authored EXCEPT ![c] = [made EXCEPT !.kept = {}]]

\* Mutant: the cell is written as plants are.
Unmerged(chunks, new) == <<new>>

(* WriteWaterCellFileMerged: the other layers of a layered cell stay.      *)
Merged(chunks, new) ==
  IF Layered(chunks) THEN Append(SelectSeq(chunks, LAMBDA chunk : chunk.layer # new.layer), new) ELSE <<new>>

WaterScenes == {ParseWaterDefText(text) : text \in WaterTexts} \cup {BuildWater(text) : text \in WaterTexts}

PlantDefinitions ==
  {ParseVegetationDefText(text) : text \in PlantTexts} \cup {BuildPlants(text) : text \in PlantTexts}

(* next_assetc water: a scene that is refused leaves the file alone.       *)
CookWaterCell(c) ==
  /\ cooks < MaxCooks
  /\ \E scene \in WaterScenes :
       /\ CooksWater(scene, c)
       /\ Write(c, Merged(cellFiles[c], Chunk("water", PackWater(c, BodiesOfCell(scene, c)))),
                [authored[c] EXCEPT !.water = scene, !.kept = @ \cup {"water"}])

(* next_assetc vegetation: its file has nothing but the plants.            *)
CookVegetationCell(c) ==
  /\ cooks < MaxCooks
  /\ \E definition \in PlantDefinitions :
       /\ CooksPlants(definition)
       /\ Write(c, <<Chunk("vegetation", PackPlants(c, ScatterCell(definition, c)))>>,
                [authored[c] EXCEPT !.plants = definition, !.kept = {"vegetation"}])

(* A file of an earlier version of the cook, with a layer of another kind. *)
CookedBefore(c) ==
  /\ cooks < MaxCooks
  /\ \E scene \in WaterScenes :
       /\ CooksWater(scene, c)
       /\ Write(c, <<Chunk("water", PackCellLegacyV1(c, BodiesOfCell(scene, c))), Chunk("mesh", <<1>>)>>,
                [authored[c] EXCEPT !.water = scene, !.kept = {"water", "mesh"}])

CookNext == \E c \in CookCell : CookWaterCell(c) \/ CookVegetationCell(c) \/ CookedBefore(c)

-----------------------------------------------------------------------------
LayerOf(c, layer) ==
  LET at == SelectInSeq(cellFiles[c], LAMBDA chunk : chunk.layer = layer)
  IN  IF at = 0 THEN <<>> ELSE cellFiles[c][at].data

(* What a reader finds of the water of a cell is what the last scene       *)
(* cooked for it has there, whatever version of the format it is in and    *)
(* however much water was cooked since: every body that reaches the cell,  *)
(* in the order of the scene, under its number there, with all of its waves*)
(* (CookWaterCell, UnpackCell).  It is lost when the file is written anew, *)
(* as the vegetation cook does, and when a write fails.  A body that begins*)
(* at the far edge reaches the cell, which water_cook.h:28 leaves out:     *)
(* "[cellX*cellSize, (cellX+1)*cellSize)".                                 *)
WaterHeld(c) ==
  LET scene == authored[c].water
      read == UnpackWater(LayerOf(c, "water"))
      ids == [k \in DOMAIN read.items |-> BodyId(read.items[k])]
      end == (c + 1) * SideLength
      within == {k \in DOMAIN scene.bodies : scene.bodies[k].lo < end /\ scene.bodies[k].hi >= c * SideLength}
      beginning == {k \in DOMAIN scene.bodies : scene.bodies[k].lo = end /\ scene.bodies[k].hi >= end}
  IN  /\ read.ok = ("water" \in authored[c].kept)
      /\ read.ok => read.cell = c /\ ToSet(ids) = within \cup beginning
      /\ \A m, n \in DOMAIN ids : m < n => ids[m] < ids[n]
      /\ \A k \in DOMAIN ids :
           LET b == scene.bodies[ids[k]]
               r == read.items[k]
           IN  /\ <<r[1], r[2], r[5]>> = <<b.lo, b.hi, b.surface>>
               /\ WaveCount(r) = Len(b.waves)
               /\ \A w \in DOMAIN b.waves : r[10 + w] = b.waves[w].amplitude

(* A plant stands where its species may, no closer to another of the       *)
(* species than its spacing; the number in the cell is its place among     *)
(* them; and a node is left empty only where the ground or a plant of the  *)
(* species forbids it, or because the cell is full (ScatterCell).          *)
PlantsHeld(c) ==
  LET definition == authored[c].plants
      read == UnpackPlants(LayerOf(c, "vegetation"))
      plants == read.items
      Species(k) == definition.species[plants[k].species]
  IN  "vegetation" \in authored[c].kept =>
      /\ read.ok = (Len(ScatterCell(definition, c)) <= MaxCellPlants)
      /\ Len(plants) <= definition.cap
      /\ \A k \in DOMAIN plants :
           /\ plants[k].ordinal = k - 1
           /\ plants[k].x \in c * SideLength .. (c + 1) * SideLength - 1 /\ plants[k].z \in 0 .. SideLength - 1
           /\ Admits(Species(k), [ground |-> SampleAt(plants[k].x, plants[k].z)])
           /\ plants[k].visual = Species(k).visual
           /\ \A m \in DOMAIN plants \ {k} :
                plants[m].species = plants[k].species => Apart(plants[m], plants[k]) >= Species(k).spacing * Species(k).spacing
      /\ read.ok /\ Len(plants) < definition.cap =>
           \A s \in ToSet(definition.species) : \A node \in ToSet(Nodes(GridDim(s))) :
             LET at == Candidate(definition, c, s, node)
             IN  Admits(s, at) =>
                   \E k \in DOMAIN plants : plants[k].species = s.id /\
                     (Apart(plants[k], at) = 0 \/ Apart(plants[k], at) < s.spacing * s.spacing)

(* A layer with an end missing, a word too much, or a word of a header or  *)
(* a number of waves that is another.                                      *)
Worn(words) ==
  {SubSeq(words, 1, n) : n \in 0 .. Len(words)} \cup {Append(words, 0)} \cup
  {[words EXCEPT ![n] = v] : n \in (1 .. Len(words)) \cap ((1 .. HeaderV2) \cup
                                   {words[3] + k * BodyWords : k \in 1 .. words[4]}),
                             v \in {0, 1, 2, HeaderV1, MaxWaves + 1}}

(* Whatever became of the packed water, it is refused or its records are   *)
(* those that follow the header, none with more waves than there is room   *)
(* for.                                                                    *)
WornIsSafe(c) ==
  LET packed == LayerOf(c, "water")
  IN  packed # <<>> => \A words \in Worn(packed) :
        LET read == UnpackWater(words)
        IN  read.ok =>
              /\ FlattenSeq(read.items) = SubSeq(words, packed[3] + 1, Len(words))
              /\ \A k \in DOMAIN read.items : WaveCount(read.items[k]) <= MaxWaves

(* Cooking water leaves the layers of other tools where they are.          *)
MeshHeld(c) == ("mesh" \in authored[c].kept) = (LayerOf(c, "mesh") # <<>>)

CellsCooked == \A c \in CookCell : WaterHeld(c) /\ PlantsHeld(c) /\ MeshHeld(c) /\ WornIsSafe(c)
=============================================================================
