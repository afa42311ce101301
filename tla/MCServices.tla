----------------------------- MODULE MCServices ------------------------------
(* Components that share no state and are driven one by one: a behaviour is  *)
(* one of them, `unit` says which, and the state of the others stands still. *)
EXTENDS AssetManager, RefVm, TaskExecutor, MemoryPool, CookedFiles, BundleIndex,
        MemoryBudget, InterestManager, LodSystem, Serialization, Msgpack,
        NvimSurface, Level, PhysicsBodies, WasmGuest, TLC

CONSTANTS
  pkg1, pkg2, name, a, b, s1, s2, ev,
  Units   \* the components a run is about

VARIABLE unit

BothHaveIt == [pkg \in Package |-> Name]

SomeWindows ==
  {[off |-> 0, len |-> 0], [off |-> 5, len |-> 2], [off |-> 15, len |-> 2], [off |-> 1, len |-> 5]}

Takes == [id \in CallId |-> IF id \in {"GetTick", "GetTimeSeconds", "Self", "Stop"} THEN 0 ELSE 2]

Returns == [id \in CallId |-> 2]

Always == [logic |-> "All", holds |-> <<>>]

Never == [logic |-> "One", holds |-> <<TRUE, TRUE>>]

Met == [logic |-> "Any", holds |-> <<FALSE, TRUE>>]

Quest ==
  [first |-> s1, order |-> <<s1, s2>>, optional |-> {}, starts |-> [s \in Step |-> Always],
   completes |-> [s \in Step |-> Met], fails |-> [s \in Step |-> Always],
   alternatives |-> [s \in Step |-> IF s = s1 THEN <<s2>> ELSE <<s1>>],
   accepted |-> Always, achieved |-> Met, failed |-> Never,
   auto |-> FALSE, replannable |-> TRUE, events |-> {ev}, next |-> <<b>>, before |-> {}]

Quests ==
  (a :> {Quest, [Quest EXCEPT !.completes[s2] = Never, !.fails[s1] = Met], [Quest EXCEPT !.starts[s1] = Never]}) @@
  (b :> {[Quest EXCEPT !.auto = TRUE, !.next = <<>>, !.before = {a}, !.order = <<s1>>, !.failed = Always,
                       !.completes[s1] = Never]})

One == <<Datum(1)>>

Asset(who, type, refs, payload, sum, words) ==
  <<[kind |-> "asset", valid |-> TRUE, type |-> type, name |-> who, dataSize |-> words, checksum |-> sum],
    [kind |-> "more", refs |-> refs]>> \o payload

AssetFiles ==
  {Asset("a", "Mesh", <<>>, <<Datum(1), Datum(2)>>, Crc(<<Datum(1), Datum(2)>>), 2),
   Asset("b", "Mesh", <<>>, <<Datum(2)>>, Crc(<<Datum(2)>>), 1),
   Asset("b", "Material", <<"a", "other">>, <<Datum(1), Datum(0)>>, NoChecksum, 2),
   Asset("a", "Texture", <<>>, <<Datum(0)>>, Crc(<<Datum(0)>>), 1),
   Asset("a", "Texture", <<>>, One, Crc(<<Datum(2)>>), 1),
   Asset("c", "Texture", <<>>, One, NoChecksum, 2), Asset("c", "Other", <<>>, One, NoChecksum, 1)}

CellFiles ==
  {<<[layer |-> "mesh", data |-> <<Datum(1), Datum(2)>>], [layer |-> "plants", data |-> One]>>,
   <<[layer |-> "plants", data |-> <<>>], [layer |-> "mesh", data |-> One],
     [layer |-> "mesh", data |-> <<Datum(2), Datum(1)>>]>>, <<>>}

CellFile(cell, ext, size, plain) == [cell |-> cell, ext |-> ext, size |-> size, plain |-> plain]

Folders ==
  {{CellFile("near", "npkg", 3, TRUE), CellFile("near", "ncell", 1, FALSE), CellFile("far", "other", 5, TRUE)},
   {CellFile("far", "preferred", 5, TRUE), CellFile("far", "ncell", 9, TRUE)}, {}}

BundleFolders ==
  {{CellFile("near", "ncell", 1, TRUE), CellFile("near", "npkg", 2, TRUE), CellFile("near", "npkg", 4, FALSE),
    CellFile("far", "npkg", 8, TRUE)},
   {CellFile("near", "preferred", 16, TRUE), CellFile("near", "ncell", 32, TRUE)},
   {CellFile("far", "npkg", 64, TRUE), CellFile("far", "npkg", 128, FALSE)},
   {CellFile("far", "other", 5, TRUE)}}

Bytes == <<2, 1>>

LevelsOfDetail == {<<[distance |-> 1, triangles |-> 9], [distance |-> 3, triangles |-> 4]>>}

SomeScalars ==
  {Scalar("bool", 1, <<>>), Scalar("int32", 12, <<>>), Scalar("int64", 17, <<>>), Scalar("double", NotANumber, <<>>),
   Scalar("string", 0, <<"quote", "letter">>), Scalar("string", 0, <<"control">>), Scalar("string", 0, <<"foreign">>),
   Scalar("string", 0, <<>>)}

Plain(kind, n, s) == MsgValue(kind, n, s, <<>>)

Array(items) == MsgValue("array", 0, <<>>, items)

MessagesSent ==
  {MsgInt(n) : n \in {5, -32, 200, -33, 256, -129, 65535, -32769, 70000}} \cup
  {Plain("nil", 0, <<>>), Plain("bool", 1, <<>>), Plain("float", 0, <<1, 2, 3, 4, 5, 6, 7, 8>>),
   Text([i \in 1..32 |-> 97]), Text(<<97>>), Plain("binary", 0, <<1, 193>>),
   Array(<<MsgInt(2), Text(<<98>>), Array([i \in 1..16 |-> MsgInt(i)])>>),
   MsgValue("map", 0, <<>>, <<Text(<<98>>), MsgInt(200), Text(<<99>>), Array(<<>>)>>),
   Plain("extension", -1, <<1, 2, 3>>), Plain("extension", 1, <<1, 2>>)}

Encoded(octets, v) == [bytes |-> octets, v |-> v]

OtherEncodings ==
  {Encoded(<<193>>, Plain("unsupported", 0, <<>>)),
   Encoded(<<207, 0, 0, 0, 0, 0, 0, 1, 1>>, MsgInt(257)),
   Encoded(<<211, 255, 255, 255, 255, 255, 255, 255, 254>>, MsgInt(-2)),
   Encoded(<<202, 1, 1, 1, 1>>, Plain("float", 0, <<1, 1, 1, 1>>)),
   Encoded(<<221, 0, 0, 0, 1, 192>>, Array(<<Plain("nil", 0, <<>>)>>)),
   Encoded(<<222, 0, 1, 161, 98, 1>>, MsgValue("map", 0, <<>>, <<Text(<<98>>), MsgInt(1)>>)),
   Encoded(<<218, 0, 1, 98>>, Text(<<98>>))}

TextRun(text, repeat) == [text |-> text, highlight |-> 1, repeat |-> repeat]

Line(row, column, cells) == [name |-> "grid_line", row |-> row, column |-> column, cells |-> cells]

ScrollBy(top, bottom, right, rows) ==
  [name |-> "grid_scroll", top |-> top, bottom |-> bottom, left |-> 0, right |-> right, rows |-> rows, columns |-> 0]

RedrawEvents ==
  {[name |-> "grid_resize", width |-> 2, height |-> 2], [name |-> "grid_resize", width |-> 2, height |-> 3],
   [name |-> "grid_clear"], [name |-> "ignored"], [name |-> "grid_cursor_goto", row |-> 1, column |-> 9],
   Line(0, 0, <<TextRun("a", 1), TextRun("", 0), TextRun("b", 1)>>), Line(1, 1, <<TextRun("b", 3)>>), Line(2, 0, <<TextRun("c", 2)>>),
   Line(9, 0, <<TextRun("c", 2)>>), Line(1, -1, <<TextRun("c", 2)>>), ScrollBy(0, 3, 2, 1), ScrollBy(0, 3, 2, -1),
   ScrollBy(0, 9, 2, 2), ScrollBy(-1, 2, 2, 1), ScrollBy(1, 3, 2, -1), ScrollBy(0, 3, 1, 1), ScrollBy(0, -1, 2, 0),
   ScrollBy(-2, 0, 2, 1)}

Upright(parent, at) == [finite |-> TRUE, scale |-> 1, length |-> 1, parent |-> parent, at |-> at]

Solid(motion, sync) == [motion |-> motion, shape |-> 0, radius |-> 1, sides |-> 0, mass |-> 1, restitution |-> 0, sync |-> sync]

PartsToAttach ==
  <<[part |-> "transform", data |-> Upright(0, 1)], [part |-> "body", data |-> Solid(1, FALSE)], [part |-> "tag", data |-> {1}]>>

Objective(id) == [id |-> id, initialState |-> 0]

Condition(kind, isFailure) ==
  [kind |-> kind, isFailure |-> isFailure, objective |-> 1, threshold |-> 1, entity |-> 1, point |-> 2, radius |-> 1, tag |-> 1]

SomeConditions == {Condition("ObjectiveAtLeast", FALSE), Condition("EntityReached", FALSE), Condition("AllTaggedDestroyed", TRUE)}

Thing(ref, parts) == [ref |-> ref, parts |-> parts]

Town ==
  [EmptyLevel EXCEPT !.agent = 1, !.objectives = <<Objective(1)>>,
     !.winConditions = <<Condition("ObjectiveEquals", FALSE), Condition("EntityReached", FALSE), Condition("AllTaggedDestroyed", TRUE)>>,
     !.entities = <<Thing(1, "transform" :> Upright(0, 0) @@ "body" :> Solid(1, TRUE) @@ "move" :> [maxSpeed |-> 1]),
                    Thing(2, "transform" :> Upright(1, 3) @@ "render" :> {} @@ "tag" :> {1, 2}),
                    Thing(4, "transform" :> Upright(0, 0) @@ "tag" :> {1})>>]

Bent(part, data) == [Town EXCEPT !.entities[1].parts = (part :> data) @@ @]

Families ==
  {[Town EXCEPT !.entities[1].parts["transform"].parent = f[1], !.entities[2].parts["transform"].parent = f[2],
                !.entities[3].parts["transform"].parent = f[3]] : f \in [1..3 -> {0, 1, 2, 3, 4}]}

OddBodies ==
  {[Solid(m, s) EXCEPT !.radius = n, !.mass = n, !.restitution = r, !.shape = f] :
     m \in 0..3, s \in BOOLEAN, n \in {0, 1, 99}, r \in {0, 2}, f \in 0..2}

OddConditions ==
  {[Condition("EntityReached", f) EXCEPT !.entity = e, !.point = x, !.radius = n] :
     f \in BOOLEAN, e \in {1, 2, 3}, x \in {2, 99}, n \in {-1, 1, 99}} \cup
  {[Condition("AllTaggedDestroyed", TRUE) EXCEPT !.tag = n] : n \in {2, 3, 64}} \cup
  {[Condition("ObjectiveAtLeast", TRUE) EXCEPT !.objective = n] : n \in {1, 2}} \cup {Condition("other", FALSE)}

Levels ==
  Families \cup {Bent("body", b0) : b0 \in OddBodies} \cup {[Town EXCEPT !.winConditions[2] = c] : c \in OddConditions} \cup
  {Bent("transform", [Upright(0, 0) EXCEPT !.finite = FALSE, !.scale = 0, !.length = 2]),
   Bent("transform", [Upright(0, 0) EXCEPT !.scale = 99, !.length = 99])} \cup
  {Bent("move", [maxSpeed |-> n]) : n \in {-1, 99}} \cup
  {[Town EXCEPT !.entities[2].ref = n] : n \in {0, 1, 9}} \cup {[Town EXCEPT !.agent = n] : n \in {3, 4}} \cup
  {[Town EXCEPT !.entities[i].parts = [part \in DOMAIN @ \ {"transform"} |-> @[part]]] : i \in 1..3} \cup
  {[Town EXCEPT !.named = FALSE], [Town EXCEPT !.known = FALSE], [Town EXCEPT !.objectives = <<Objective(1), Objective(1)>>],
   [Town EXCEPT !.entities = @ \o @]}

Desc(motion, shape, half, restitution) == [motion |-> motion, shape |-> shape, half |-> half, restitution |-> restitution]

SomeBodies == {Desc("Static", "Box", <<3, 1>>, 0), Desc("Dynamic", "Sphere", <<1, 9>>, 1), Desc("Kinematic", "Box", <<1, 2>>, 0)}

SomePushes == {<<1, 2>>}

SomePlaces == {<<0, 2>>, <<1, 0>>}

SomeTargets == {[target |-> <<3, 0>>, speed |-> 2]}

Down == <<0, -1>>

ObjectivesToAdd == {Objective(1)}

WasmModule(imports, texts) ==
  [header |-> "wasm 1", cut |-> FALSE, order |-> <<1, 2, 3, 5, 6, 7, 10>>, types |-> 1, imports |-> imports,
   functions |-> [i \in DOMAIN texts |-> 0], globals |-> <<"stack">>, pages |-> 1, bodies |-> texts, elements |-> {},
   exports |-> <<[name |-> "run", kind |-> "func", index |-> Len(SelectSeq(imports, LAMBDA k : k = "func"))]>>]

WasmBody(instrs) == [locals |-> <<1, 2, 127>>, instrs |-> instrs]

LoopingBody ==
  WasmBody(<< <<\h03, 64>>, <<\h41, 129, 3>>, <<\h04, 64>>, <<\h0C, 1>>, <<\h05>>, <<\h28, 2, 0>>, <<\h0B>>, <<\h1A>>,
              <<\h0D, 0>>, <<\h0B>>, <<\h0B>> >>)

CallingBody(f) ==
  WasmBody(<< <<\h20, 0>>, <<\h02, 64>>, <<\h0E, 1, 0, 1>>, <<\h0B>>, <<\h10, f>>, <<\h10, f>>, <<\h0B>> >>)

OddBody ==
  WasmBody(<< <<\hFC, 10, 65, 0>>, <<\hFC, 3>>, <<\hFC, 8, 200, 1, 0>>, <<\hFC, 12, 1, 0>>, <<\h44, 0, 0, 0, 0, 0, 0, 0, 0>>,
              <<\h43, 65, 1, 16, 1>>, <<\h1C, 1, 127>>, <<\h40, 0>>, <<\h6D>>, <<\h00>>, <<\h0F>>, <<\h0B>> >>)

GrowingBody ==
  WasmBody(<< <<\h03, 64>>, <<\h40, 0>>, <<\h0D, 0>>, <<\h0B>>, <<\hFC, 11, 0>>, <<\hD0, 112>>, <<\h11, 0, 0>>, <<\h0B>> >>)

(* Stores to the global and calls the function that metering appends.       *)
SteeringBody ==
  WasmBody(<< <<\h24, 1>>, <<\h20, 0>>, <<\h10, 2>>, <<\h11, 0, 0>>, <<\h0B>> >>)

Wild(instr) == WasmModule(<<"func">>, <<WasmBody(<<instr, <<\h0B>> >>)>>)

Calls == WasmModule(<<"table", "func", "global", "mem">>, <<CallingBody(0), LoopingBody>>)

WasmImages ==
  <<WasmModule(<<"func">>, <<LoopingBody>>), Calls, WasmModule(<<"global", "global">>, <<CallingBody(1), CallingBody(0)>>),
    WasmModule(<<>>, <<OddBody>>), WasmModule(<<>>, <<GrowingBody>>),
    [WasmModule(<<"func">>, <<SteeringBody>>) EXCEPT !.elements = {0, 2}],
    Wild(<<\hFD, 0>>), Wild(<<\hFC, 18>>), Wild(<<\h0E, 9, 0>>), Wild(<<\hFC, 8, 200>>),
    [Wild(<<\h0B>>) EXCEPT !.bodies[1].locals = <<2, 1>>], [Calls EXCEPT !.bodies = Tail(@)],
    [Calls EXCEPT !.header = "short"], [Calls EXCEPT !.cut = TRUE], [Calls EXCEPT !.order = <<1, 3, 10>>],
    [Calls EXCEPT !.imports = <<"func", "tag">>], [Calls EXCEPT !.pages = 9], [Calls EXCEPT !.exports = <<>>]>>

GuestPolicy(fuel, memory, slots, depth, hostCalls) ==
  [fuel |-> fuel, memory |-> memory, slots |-> slots, depth |-> depth, hostCalls |-> hostCalls]

SomePolicies == {GuestPolicy(11, 3, 64, 3, 1), GuestPolicy(0, 100, 64, 0, 0), GuestPolicy(3, 2, 2000, 9, 9)}

SomeOperands == {-1, 0, 4}

SomeHostWindows ==
  {[off |-> 0, len |-> 0], [off |-> 1, len |-> 1], [off |-> 1, len |-> 2], [off |-> 2, len |-> 1], [off |-> 65535, len |-> 2]}

ServicesInit ==
  /\ unit \in Units /\ AssetInit /\ VmInit /\ TaskInit /\ PoolInit /\ CookedInit /\ BundleInit
  /\ BudgetInit /\ InterestInit /\ LodInit /\ SerialInit /\ MessageInit /\ GridInit /\ SurfaceInit
  /\ LevelInit /\ PhysicsInit /\ WasmInit

rules == <<budgetVars, interestVars, lodVars>>

terminal == <<messageVars, gridVars, surfaceVars>>

scenes == <<levelVars, physicsVars, wasmVars>>

vars == <<unit, assetVars, gameVars, vmVars, taskVars, poolVars, cookedVars, bundleVars, rules, serialVars, terminal, scenes>>

(* The step of one group of components; the rest stand still.               *)
Services(step) == step /\ UNCHANGED <<bundleVars, rules, serialVars, terminal, scenes>>

Streams(step) ==
  step /\ UNCHANGED <<assetVars, gameVars, vmVars, taskVars, poolVars, cookedVars, scenes>>

Scenes(step) ==
  step /\ UNCHANGED <<assetVars, gameVars, vmVars, taskVars, poolVars, cookedVars, bundleVars, rules, serialVars, terminal>>

ServicesNext ==
  /\ unit' = unit
  /\ \/ unit = "assets" /\ Services(AssetNext /\ UNCHANGED <<gameVars, vmVars, taskVars, poolVars, cookedVars>>)
     \/ unit = "guest" /\ Services(VmNext /\ UNCHANGED <<assetVars, taskVars, poolVars, cookedVars>>)
     \/ unit = "tasks" /\ Services(TaskNext /\ UNCHANGED <<assetVars, gameVars, vmVars, poolVars, cookedVars>>)
     \/ unit = "pool" /\ Services(PoolNext /\ UNCHANGED <<assetVars, gameVars, vmVars, taskVars, cookedVars>>)
     \/ unit = "files" /\ Services(CookedNext /\ UNCHANGED <<assetVars, gameVars, vmVars, taskVars, poolVars>>)
     \/ unit = "bundles" /\ Streams(BundleNext /\ UNCHANGED <<rules, serialVars, terminal>>)
     \/ unit = "budget" /\ Streams(BudgetNext /\ UNCHANGED <<bundleVars, interestVars, lodVars, serialVars, terminal>>)
     \/ unit = "interest" /\ Streams(InterestNext /\ UNCHANGED <<bundleVars, budgetVars, lodVars, serialVars, terminal>>)
     \/ unit = "detail" /\ Streams(LodNext /\ UNCHANGED <<bundleVars, budgetVars, interestVars, serialVars, terminal>>)
     \/ unit = "objects" /\ Streams(SerialNext /\ UNCHANGED <<bundleVars, rules, terminal>>)
     \/ unit = "messages" /\ Streams(MessageNext /\ UNCHANGED <<bundleVars, rules, serialVars, gridVars, surfaceVars>>)
     \/ unit = "grid" /\ Streams(DispatchRedraw /\ UNCHANGED <<bundleVars, rules, serialVars, messageVars, surfaceVars>>)
     \/ unit = "terminal" /\ Streams(SurfaceNext /\ UNCHANGED <<bundleVars, rules, serialVars, messageVars, gridVars>>)
     \/ unit = "level" /\ Scenes(LevelNext /\ UNCHANGED <<physicsVars, wasmVars>>)
     \/ unit = "bodies" /\ Scenes(PhysicsNext /\ UNCHANGED <<levelVars, wasmVars>>)
     \/ unit = "wasm" /\ Scenes(WasmNext /\ UNCHANGED <<levelVars, physicsVars>>)

ServicesSpec == ServicesInit /\ [][ServicesNext]_vars

-----------------------------------------------------------------------------
(* What is written into a file or a stream of any kind is read from it:    *)
(* the files of a cell, cooked assets and packages, serialized objects and *)
(* the messages of an editor (StreamingManager, AssetCompiler, Serializer  *)
(* and MsgpackCodec); and what is made of what was read is what it says:   *)
(* the rows of the grid, the levels that load, the bodies that a component *)
(* has and how they move, and the metered modules, which do no work that   *)
(* they do not pay for (NvimGrid, LevelLoader, PhysicsSystem, WasmMeter).  *)
PartsFaithful ==
  /\ unit = "bundles" => CellsServed
  /\ unit = "files" => ReadsWhatWasPacked
  /\ unit = "objects" => SavedIsRead
  /\ unit = "messages" => MessagesWhole
  /\ unit = "grid" => PictureShown
  /\ unit = "level" => LevelSound
  /\ unit = "bodies" => BodiesLinked /\ BodiesMove
  /\ unit = "wasm" => MeterSound
=============================================================================
