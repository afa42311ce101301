------------------------------ MODULE MCParts --------------------------------
(* Parts that share no state and are driven one by one: a behaviour is one   *)
(* of them, `part` says which, and the state of the others stands still.     *)
(* InProcessTransport (transport.h) has a triple buffer for snapshots and    *)
(* rings for events, commands and acknowledgements.  Counters of three bits  *)
(* and a ring asked for three slots, which gets four, wrap after eight items,*)
(* with the ring empty, part full, full.                                     *)
EXTENDS TripleBuffer, SpscRing, ResidentStore, ScriptSystem, CellCook, TLC

CONSTANTS c1, c2, e1, e2, path

VARIABLE part

-----------------------------------------------------------------------------
Body(id, lo, hi, ocean, height) == [id |-> id, lo |-> lo, hi |-> hi, ocean |-> ocean, height |-> height]

(* A body in two cells, one that says something else in another, one named *)
(* twice, one without a number, an ocean, one too large, one far away.     *)
Waters ==
  {<<Body(1, 0, 3, FALSE, 1), Body(0, 0, 1, FALSE, 1), Body(2, 4, 9, FALSE, 2), Body(1, 0, 3, FALSE, 1)>>,
   <<Body(1, 2, 2, FALSE, 3), Body(3, -1, 0, TRUE, 1), Body(4, 99, 101, FALSE, 1)>>, <<Body(2, 1, 1, FALSE, 1)>>, <<>>}

Plant(at, destructible) == [at |-> at, destructible |-> destructible]

Plants == {<<Plant(0, TRUE), Plant(3, FALSE), Plant(1, TRUE)>>, <<Plant(9, TRUE)>>}

PlacesAsked == {-3, 0, 1, 2, 4, 9, 100}

Scripted ==
  {[enabled |-> TRUE, autoStart |-> TRUE, updateInterval |-> 0],
   [enabled |-> FALSE, autoStart |-> FALSE, updateInterval |-> 2]}

-----------------------------------------------------------------------------
(* Ground that rises and falls, with a spot that has no normal.            *)
GroundAt(x, z) ==
  [height |-> (x + z) % 7, slope |-> IF (x + 2 * z) % 11 = 0 THEN -1 ELSE 10 * ((x * z) % 5),
   mask |-> IF x % 3 = 0 THEN {1} ELSE {1, 2}]

Says(key, sets) == [key |-> key, good |-> TRUE, sets |-> sets]

Titled(key, id) == [key |-> key, good |-> id # "", id |-> id]

OfBody(id, type) == [key |-> "body", good |-> TRUE, id |-> id, type |-> type]

Across(lo, hi) == Says("bounds", [lo |-> lo, hi |-> hi, bottom |-> -9, top |-> 9])

Wave(direction, steepness) ==
  [key |-> "wave", good |-> TRUE,
   wave |-> [amplitude |-> 3, wavelength |-> 1, direction |-> direction, speed |-> 0, steepness |-> steepness]]

Swell(count) == [key |-> "ocean", good |-> TRUE, count |-> count]

Harbour == <<Titled("scene", "bay"), OfBody("sea", 0), Across(-50, 50), Says("surface", [surface |-> 20]), Swell(260)>>

Streams ==
  <<Titled("scene", "bay"), OfBody("river", 2), Across(2, 12), Says("flow", [flow |-> 3]), Wave(0, 60), Wave(1, 40),
    OfBody("pool", 1), Across(1, 2), Titled("scene", ""), [key |-> "flags", good |-> TRUE, flags |-> {1, 2, 99}],
    OfBody("flood", 3), Across(3, 30), Says("flood", [rate |-> 1, crest |-> 2])>>

(* One line more, which the text or the validator refuses, or not.         *)
LinesMore ==
  {<<Says("density", [density |-> 0])>>, <<Says("drag", [drag |-> -1])>>, <<Says("surface", [surface |-> NoNumber])>>,
   <<OfBody("sea", 1)>>, <<OfBody("", 4)>>, <<Swell(2)>>, <<Wave(1, 20)>>, <<Wave(NoNumber, 0)>>, <<Across(9, 8)>>,
   <<Across(-101, 0)>>, <<Says("surface", [surface |-> 20]), OfBody("flood", 3), Says("flood", [rate |-> 1, crest |-> -1])>>,
   <<Across(NoNumber, 8)>>, <<Says("flow", [flow |-> NoNumber])>>, <<Says("flood", [rate |-> -1, crest |-> 0])>>,
   <<[Wave(1, 0) EXCEPT !.wave.amplitude = 10]>>, <<[Wave(1, 0) EXCEPT !.wave.wavelength = 0]>>, <<Wave(1, 101)>>,
   <<[Wave(1, 0) EXCEPT !.wave.speed = -1]>>, <<OfBody("a", 4), OfBody("b", 4), OfBody("c", 4)>>,
   <<[key |-> "set flag", good |-> TRUE, flag |-> 4, on |-> TRUE]>>, <<[Swell(1) EXCEPT !.good = FALSE]>>}

SceneTexts ==
  {Harbour, Streams, SubSeq(Streams, 1, 10), Tail(Harbour), <<Titled("scene", "dry")>>, <<Titled("scene", "bay"), Swell(1)>>} \cup
  {Harbour \o more : more \in LinesMore} \cup {<<Titled("scene", "bay"), OfBody("lake", 4)>> \o more : more \in LinesMore}

OfSpecies(visual) == [key |-> "species", good |-> TRUE, visual |-> visual]

Meadow == <<Titled("id", "meadow"), Says("seed", [seed |-> 4]), OfSpecies(7), Says("density", [density |-> 4])>>

Wood ==
  <<Titled("id", "wood"), OfSpecies(1), Says("density", [density |-> 4]), Says("spacing", [spacing |-> 5]),
    Says("slope", [minSlope |-> 0, maxSlope |-> 30]), OfSpecies(2), Says("density", [density |-> 3]),
    Says("spacing", [spacing |-> 8]), Says("altitude", [minAltitude |-> 1, maxAltitude |-> 5]), OfSpecies(3),
    Says("spacing", [spacing |-> 13]), Says("mask", [mask |-> {2}]), [key |-> "flags", good |-> TRUE, flags |-> {1, 2}]>>

FloraTexts ==
  {Meadow, Wood, <<Titled("id", ""), OfSpecies(1)>>, <<Titled("id", "none")>>, <<Titled("id", "wood"), Says("density", [density |-> 1])>>,
   Append(Wood, [key |-> "set flag", good |-> TRUE, flag |-> 1, on |-> FALSE])} \cup
  {<<Says("cap", [cap |-> n])>> \o text : n \in {0, 1, 5}, text \in {Meadow, Wood}} \cup
  {Append(Meadow, Says("spacing", [spacing |-> n])) : n \in {-1, 0, 3, 4, NoNumber}} \cup
  {Append(Meadow, Says("density", [density |-> n])) : n \in {0, 6, 7, NoNumber}} \cup
  {Append(Meadow, Says("slope", [minSlope |-> n[1], maxSlope |-> n[2]])) : n \in {<<-1, 9>>, <<10, 91>>, <<3, 2>>}} \cup
  {Append(Meadow, Says("scale", [minScale |-> n[1], maxScale |-> n[2]])) : n \in {<<0, 1>>, <<2, 1>>, <<1, NoNumber>>}} \cup
  {Meadow \o more : more \in {<<Says("slope", [minSlope |-> NoNumber])>>, <<Says("altitude", [maxAltitude |-> NoNumber])>>,
     <<Says("altitude", [minAltitude |-> 101])>>, <<Says("radius", [radius |-> -1])>>, <<Says("radius", [radius |-> NoNumber])>>,
     <<OfSpecies(1), OfSpecies(2), OfSpecies(3)>>}}

-----------------------------------------------------------------------------
Part == {"snapshots", "events", "water", "plants", "scripts", "cook"}

PartsInit == part \in Part /\ Init /\ RingInit /\ StoreInit /\ ScriptInit /\ CookInit

partVars == <<part, vars, ringVars, storeVars, scriptVars, cookVars>>

Snapshots(step) == part = "snapshots" /\ step /\ UNCHANGED <<part, ringVars, storeVars, scriptVars, cookVars>>

Events(step) == part = "events" /\ step /\ UNCHANGED <<part, vars, storeVars, scriptVars, cookVars>>

PartsNext ==
  \/ Snapshots(Next)
  \/ Events(RingNext)
  \/ part = "water" /\ WaterNext /\ UNCHANGED <<part, vars, ringVars, scriptVars, cookVars>>
  \/ part = "plants" /\ PlantNext /\ UNCHANGED <<part, vars, ringVars, scriptVars, cookVars>>
  \/ part = "scripts" /\ ScriptNext /\ UNCHANGED <<part, vars, ringVars, storeVars, cookVars>>
  \/ part = "cook" /\ CookNext /\ UNCHANGED <<part, vars, ringVars, storeVars, scriptVars>>

PartsSpec ==
  /\ PartsInit /\ [][PartsNext]_partVars
  /\ WF_vars(Snapshots(Poll \/ Claim))
  /\ WF_ringVars(Events(RingPop))
  /\ WF_ringVars(Events(FinishPush))

-----------------------------------------------------------------------------
(* A query of either store finds what the resident cells hold, and a cell  *)
(* that is loaded again says anew what is its own (QueriesExact,           *)
(* ReloadReplaces).  What is cooked into the files of cells is what the    *)
(* author said (CellsCooked).  The stores are looked at where one moves.   *)
StoresExact ==
  /\ [](part \in {"water", "plants"} => QueriesExact)
  /\ ReloadReplaces
  /\ [](part = "cook" => CellsCooked)
=============================================================================
