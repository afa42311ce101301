------------------------------ MODULE LodSystem ------------------------------
(***************************************************************************)
(* engine/world, LODSystem: levels of detail of objects, the clusters that *)
(* stand for a cell seen from far away, impostors, and the quality scale.  *)
(* Distances and frame times are integers, the scale is in percent.        *)
(***************************************************************************)
EXTENDS Integers, FiniteSets, SequencesExt, FiniteSetsExt, Functions

CONSTANTS
  LodCell, LodObject,
  ObjectLevels,        \* what objects register: sequences of [distance, triangles]
  HlodLevelCount,      \* min(maxLODLevels, 4)
  BillboardSlots,      \* kBillboardSlots: 8
  FrameTimes,          \* possible ones
  TargetFrameTime, FrameSamples,    \* targetFrameTime, maxFrameTimeSamples_
  MinQuality, MaxQuality,
  MaxLodCalls          \* bound

DetailLevel == [distance : Nat, triangles : Nat]

ASSUME LodAssumption ==
  /\ IsFiniteSet(LodObject) /\ ObjectLevels \subseteq Seq(DetailLevel)
  /\ HlodLevelCount \in 0..4 /\ BillboardSlots \in Nat /\ FrameSamples \in Nat /\ MaxLodCalls \in Nat
  /\ MinQuality \in Nat \ {0} /\ MaxQuality \in Nat /\ 100 \in MinQuality..MaxQuality

VARIABLES
  lodRuns,         \* initialized_
  objectLODs, hlodClusters, cellToHLOD, impostors, nextHLODClusterId, nextResourceHandle,
  qualityScale, recentFrameTimes, lodCalls

lodVars == <<lodRuns, objectLODs, hlodClusters, cellToHLOD, impostors, nextHLODClusterId, nextResourceHandle,
             qualityScale, recentFrameTimes, lodCalls>>

LodInit ==
  /\ lodRuns = FALSE /\ objectLODs = [o \in LodObject |-> <<>>] /\ hlodClusters = <<>> /\ cellToHLOD = [c \in LodCell |-> 0]
  /\ impostors = [o \in LodObject |-> <<>>] /\ nextHLODClusterId = 1 /\ nextResourceHandle = 1
  /\ qualityScale = 100 /\ recentFrameTimes = <<>> /\ lodCalls = 0

LodCall == lodCalls < MaxLodCalls /\ lodCalls' = lodCalls + 1

quality == <<qualityScale, recentFrameTimes, lodRuns>>

InitializeLod ==
  /\ ~lodRuns /\ lodRuns' = TRUE /\ qualityScale' = 100
  /\ UNCHANGED <<objectLODs, hlodClusters, cellToHLOD, impostors, nextHLODClusterId, nextResourceHandle,
                 recentFrameTimes, lodCalls>>

(* UnregisterLODLevels is the empty sequence.                              *)
RegisterLODLevels ==
  /\ LodCall
  /\ \E o \in LodObject, levels \in ObjectLevels \cup {<<>>} : objectLODs' = [objectLODs EXCEPT ![o] = levels]
  /\ UNCHANGED <<hlodClusters, cellToHLOD, impostors, nextHLODClusterId, nextResourceHandle, quality>>

(* The triangles of the first levels, one by one: their number is the sum. *)
FirstTriangles(objects) ==
  UNION {{o} \X (1 .. objectLODs[o][1].triangles) : o \in {x \in objects : objectLODs[x] # <<>>}}

Triangles(objects) == Cardinality(FirstTriangles(objects))

\* What a shift by one less than the number of the level divides by.
Halvings == <<1, 2, 4, 8>>

(* Each level has half the triangles of the one before, and no mesh yet.   *)
BuildHLODCluster(objects) ==
  [i \in 1 .. HlodLevelCount |-> [triangles |-> Triangles(objects) \div Halvings[i], meshHandle |-> 0]]

GenerateHLODMesh(cluster) ==
  [cluster EXCEPT !.mesh = nextResourceHandle,
                  !.levels = [i \in 1 .. HlodLevelCount |-> [@[i] EXCEPT !.meshHandle = nextResourceHandle + i]]]

HasCluster(cell) == cellToHLOD[cell] \in DOMAIN hlodClusters

(* A cluster that is there is built again, without meshes for its levels.  *)
CreateHLODCluster(cell, objects) ==
  IF HasCluster(cell)
  THEN /\ hlodClusters' = [hlodClusters EXCEPT ![cellToHLOD[cell]] =
                              [@ EXCEPT !.objects = objects, !.levels = BuildHLODCluster(objects)]]
       /\ UNCHANGED <<cellToHLOD, nextHLODClusterId, nextResourceHandle>>
  ELSE LET made == GenerateHLODMesh([cell |-> cell, objects |-> objects, mesh |-> 0, levels |-> BuildHLODCluster(objects)])
       IN  /\ hlodClusters' = [k \in DOMAIN hlodClusters \cup {nextHLODClusterId} |->
                                 IF k = nextHLODClusterId THEN made ELSE hlodClusters[k]]
           /\ cellToHLOD' = [cellToHLOD EXCEPT ![cell] = nextHLODClusterId]
           /\ nextHLODClusterId' = nextHLODClusterId + 1
           /\ nextResourceHandle' = nextResourceHandle + 1 + HlodLevelCount

CreateCluster ==
  /\ LodCall /\ \E cell \in LodCell, objects \in SUBSET LodObject : CreateHLODCluster(cell, objects)
  /\ UNCHANGED <<objectLODs, impostors, quality>>

(* The cell keeps the number.                                              *)
DestroyHLODCluster ==
  /\ LodCall
  /\ \E k \in DOMAIN hlodClusters : hlodClusters' = Restrict(hlodClusters, DOMAIN hlodClusters \ {k})
  /\ UNCHANGED <<objectLODs, cellToHLOD, impostors, nextHLODClusterId, nextResourceHandle, quality>>

GetHLODMesh(cell) == cellToHLOD[cell]

(* CreateImpostor and GenerateImpostorTextures.                            *)
CreateImpostor ==
  /\ LodCall
  /\ \E o \in LodObject :
       impostors' = [impostors EXCEPT ![o] = [i \in 1 .. BillboardSlots |-> nextResourceHandle + i - 1]]
  /\ nextResourceHandle' = nextResourceHandle + BillboardSlots
  /\ UNCHANGED <<objectLODs, hlodClusters, cellToHLOD, nextHLODClusterId, quality>>

DestroyImpostor ==
  /\ LodCall /\ \E o \in LodObject : impostors' = [impostors EXCEPT ![o] = <<>>]
  /\ UNCHANGED <<objectLODs, hlodClusters, cellToHLOD, nextHLODClusterId, nextResourceHandle, quality>>

SumOf(times) == FoldSeq(+, 0, times)

ShouldReduceQuality(times) == Len(times) >= FrameSamples /\ 10 * SumOf(times) > 12 * TargetFrameTime * Len(times)

ShouldIncreaseQuality(times) == Len(times) >= FrameSamples /\ 10 * SumOf(times) < 8 * TargetFrameTime * Len(times)

UpdateAutoLOD ==
  /\ LodCall
  /\ \E t \in FrameTimes :
       LET pushed == Append(recentFrameTimes, t)
           times == IF Len(pushed) > FrameSamples THEN Tail(pushed) ELSE pushed
       IN  /\ recentFrameTimes' = times
           /\ qualityScale' = IF ShouldReduceQuality(times) THEN Max({qualityScale - 1, MinQuality})
                              ELSE IF ShouldIncreaseQuality(times) THEN Min({qualityScale + 1, MaxQuality})
                              ELSE qualityScale
  /\ UNCHANGED <<lodRuns, objectLODs, hlodClusters, cellToHLOD, impostors, nextHLODClusterId, nextResourceHandle>>

SetQualityScale ==
  /\ LodCall
  /\ \E scale \in MinQuality - 1 .. MaxQuality + 1 :
       qualityScale' = IF scale < MinQuality THEN MinQuality ELSE IF scale > MaxQuality THEN MaxQuality ELSE scale
  /\ UNCHANGED <<lodRuns, objectLODs, hlodClusters, cellToHLOD, impostors, nextHLODClusterId, nextResourceHandle,
                 recentFrameTimes>>

(* Numbers go on where they were.                                          *)
ShutdownLod ==
  /\ LodCall /\ lodRuns /\ lodRuns' = FALSE
  /\ objectLODs' = [o \in LodObject |-> <<>>] /\ hlodClusters' = <<>> /\ cellToHLOD' = [c \in LodCell |-> 0]
  /\ impostors' = [o \in LodObject |-> <<>>] /\ recentFrameTimes' = <<>>
  /\ UNCHANGED <<nextHLODClusterId, nextResourceHandle, qualityScale>>

(* The distance over the scale against each level's.                       *)
SelectLODLevel(levels, distance, scale) ==
  LET fits == {i \in DOMAIN levels : distance * 100 <= levels[i].distance * scale}
  IN  IF fits = {} THEN Len(levels) ELSE Min(fits)

LodNext ==
  \/ RegisterLODLevels \/ CreateCluster \/ DestroyHLODCluster \/ CreateImpostor \/ DestroyImpostor
  \/ UpdateAutoLOD \/ SetQualityScale \/ InitializeLod \/ ShutdownLod

-----------------------------------------------------------------------------
HandlesOf(cluster) == {cluster.mesh} \cup {cluster.levels[i].meshHandle : i \in DOMAIN cluster.levels}

(* A cell has one cluster at most, and its number finds it; no two of the  *)
(* clusters and impostors alive share a handle of a mesh or texture,       *)
(* through rebuilding, destruction and restarts; levels of a cluster never *)
(* grow with the distance; and further away, or at the quality now set or  *)
(* a lower one, an object never gets a finer level                         *)
(* (CreateHLODCluster, GenerateHLODMesh, SelectLODLevel).                  *)
DetailKept ==
  /\ \A k \in DOMAIN hlodClusters :
       LET cluster == hlodClusters[k] IN
       /\ GetHLODMesh(cluster.cell) = k
       /\ \A i \in 2 .. Len(cluster.levels) : cluster.levels[i].triangles <= cluster.levels[i - 1].triangles
       /\ \A j \in DOMAIN hlodClusters \ {k} : HandlesOf(cluster) \cap HandlesOf(hlodClusters[j]) \subseteq {0}
       /\ \A o \in LodObject : ToSet(impostors[o]) \cap HandlesOf(cluster) = {}
  /\ \A o, other \in LodObject : o # other => ToSet(impostors[o]) \cap ToSet(impostors[other]) = {}
  /\ qualityScale \in MinQuality .. MaxQuality
  /\ \A levels \in ObjectLevels, near \in 0 .. 3 :
       /\ SelectLODLevel(levels, near, qualityScale) <= SelectLODLevel(levels, near + 1, qualityScale)
       /\ SelectLODLevel(levels, near, qualityScale) <= SelectLODLevel(levels, near, MinQuality)
=============================================================================
