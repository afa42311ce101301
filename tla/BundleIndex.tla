---------------------------- MODULE BundleIndex -------------------------------
(***************************************************************************)
(* engine/world, StreamingManager: where the file of a cell is.  The data  *)
(* directory is indexed once; bundles of cell files are loaded and unloaded*)
(* over it, may hold the same cells, and the newest of them counts.        *)
(*                                                                         *)
(* A file is the cell its name says, its kind of extension and its size;   *)
(* its name may go on after the cell's ("detail"), or not ("plain").       *)
(***************************************************************************)
EXTENDS Integers, FiniteSets, SequencesExt, FiniteSetsExt

CONSTANTS
  BundledCell,
  Directories,      \* what data directories hold: sets of files
  BundlePaths,      \* what the paths of bundles lead to: sets of files
  MaxBundles,       \* bound: bundles ever loaded
  MaxConfigs,       \* bound: calls of Initialize and SetConfig
  NoPath

ASSUME BundleAssumption == MaxBundles \in Nat /\ MaxConfigs \in Nat

VARIABLES
  directory,        \* what the data directory holds; {} also before Initialize
  configs,          \* Initialize and SetConfig so far
  indexed,          \* availableCellPaths_: by cell, a file or NoPath
  managerRuns,      \* initialized_
  assetBundles,     \* by bundle id: the files of its cells, its size and what it was made of
  nextBundleId,
  cellToBundle, bundleCellPathOwners, bundleCellPaths,   \* by cell
  bundleAvailableCells,
  requested         \* by cell: the last of LoadCell and UnloadCell that bundles asked for

bundleVars == <<directory, configs, indexed, managerRuns, assetBundles, nextBundleId, cellToBundle, bundleCellPathOwners,
                bundleCellPaths, bundleAvailableCells, requested>>

NoRank == 9

CellFileExtensionRank(file) ==
  CASE file.ext = "preferred" -> 0 [] file.ext = "ncell" -> 1 [] file.ext = "npkg" -> 2 [] OTHER -> NoRank

(* Files are found in any order; the first of the best rank counts.        *)
Better(found, file) ==
  IF \/ CellFileExtensionRank(file) = NoRank
     \/ found[file.cell] # NoPath /\ CellFileExtensionRank(file) >= CellFileExtensionRank(found[file.cell])
  THEN found ELSE [found EXCEPT ![file.cell] = file]

Nowhere == [c \in BundledCell |-> NoPath]

Discovered(walk) == FoldLeft(Better, Nowhere, walk)

CellsOf(paths) == {c \in BundledCell : paths[c] # NoPath}

(* recordBundleCell keeps the sum while files take the place of others.    *)
TotalSize(walk) ==
  FoldLeft(LAMBDA sum, k :
             LET before == Discovered(SubSeq(walk, 1, k - 1)) after == Discovered(SubSeq(walk, 1, k))
             IN  IF before = after THEN sum
                 ELSE sum + walk[k].size - (IF before[walk[k].cell] = NoPath THEN 0 ELSE before[walk[k].cell].size),
           0, [k \in DOMAIN walk |-> k])

BundleInit ==
  /\ managerRuns = FALSE /\ directory = {} /\ configs = 0 /\ nextBundleId = 1
  /\ indexed = Nowhere /\ bundleCellPaths = Nowhere /\ assetBundles = <<>>
  /\ cellToBundle = [c \in BundledCell |-> 0] /\ bundleCellPathOwners = [c \in BundledCell |-> 0]
  /\ bundleAvailableCells = {} /\ requested = [c \in BundledCell |-> "nothing"]

ScanAvailableCells == \E walk \in SetToSeqs(directory') : indexed' = Discovered(walk)

(* Initialize and SetConfig; bundles stay as they are.                     *)
InitializeOrSetConfig ==
  /\ configs < MaxConfigs /\ configs' = configs + 1
  /\ directory' \in Directories /\ ScanAvailableCells /\ managerRuns' = TRUE
  /\ UNCHANGED <<assetBundles, nextBundleId, cellToBundle, bundleCellPathOwners, bundleCellPaths,
                 bundleAvailableCells, requested>>

(* UnloadAll is among it; ids of bundles go on.                            *)
ShutdownManager ==
  /\ managerRuns /\ managerRuns' = FALSE
  /\ directory' = {} /\ indexed' = Nowhere /\ bundleCellPaths' = Nowhere /\ assetBundles' = <<>>
  /\ cellToBundle' = [c \in BundledCell |-> 0] /\ bundleCellPathOwners' = [c \in BundledCell |-> 0]
  /\ bundleAvailableCells' = {} /\ requested' = [c \in BundledCell |-> "nothing"]
  /\ UNCHANGED <<configs, nextBundleId>>

LoadAssetBundle ==
  /\ managerRuns /\ nextBundleId <= MaxBundles
  /\ \E content \in BundlePaths : \E walk \in SetToSeqs(content) :
       LET paths == Discovered(walk)
           cells == CellsOf(paths)
           new == nextBundleId
           bundle == [paths |-> paths, totalSize |-> TotalSize(walk), content |-> content]
       IN  /\ assetBundles' = [b \in DOMAIN assetBundles \cup {new} |-> IF b = new THEN bundle ELSE assetBundles[b]]
           /\ cellToBundle' = [c \in BundledCell |-> IF c \in cells THEN new ELSE cellToBundle[c]]
           /\ bundleCellPathOwners' = [c \in BundledCell |-> IF c \in cells THEN new ELSE bundleCellPathOwners[c]]
           /\ bundleCellPaths' = [c \in BundledCell |-> IF c \in cells THEN paths[c] ELSE bundleCellPaths[c]]
           /\ bundleAvailableCells' = bundleAvailableCells \cup cells
           /\ requested' = [c \in BundledCell |-> IF c \in cells THEN "load" ELSE requested[c]]
  /\ nextBundleId' = nextBundleId + 1
  /\ UNCHANGED <<directory, configs, indexed, managerRuns>>

OthersWith(id, cell) == {b \in DOMAIN assetBundles \ {id} : assetBundles[b].paths[cell] # NoPath}

\* Mutant: the first other bundle found takes a cell over, be it older than the rest.
OldestReplacement(id, cell) == IF OthersWith(id, cell) = {} THEN 0 ELSE Min(OthersWith(id, cell))

FindReplacementBundle(id, cell) == IF OthersWith(id, cell) = {} THEN 0 ELSE Max(OthersWith(id, cell))

UnloadAssetBundle(id) ==
  /\ id \in DOMAIN assetBundles
  /\ LET cells == CellsOf(assetBundles[id].paths)
         next(c) == FindReplacementBundle(id, c)
         path(c) == IF next(c) = 0 THEN NoPath ELSE assetBundles[next(c)].paths[c]
         owned == {c \in cells : bundleCellPathOwners[c] \in {id} \cup (IF next(c) # 0 THEN {0} ELSE {})}
     IN  /\ cellToBundle' = [c \in BundledCell |-> IF c \in cells /\ cellToBundle[c] = id THEN next(c)
                                                   ELSE cellToBundle[c]]
         /\ bundleCellPathOwners' = [c \in BundledCell |-> IF c \in owned THEN next(c) ELSE bundleCellPathOwners[c]]
         /\ bundleCellPaths' = [c \in BundledCell |-> IF c \in owned THEN path(c) ELSE bundleCellPaths[c]]
         /\ bundleAvailableCells' = (bundleAvailableCells \ owned) \cup {c \in owned : path(c) # NoPath}
         /\ requested' = [c \in BundledCell |-> IF c \in cells /\ next(c) = 0 THEN "unload" ELSE requested[c]]
  /\ assetBundles' = [b \in DOMAIN assetBundles \ {id} |-> assetBundles[b]]
  /\ UNCHANGED <<directory, configs, indexed, managerRuns, nextBundleId>>

(* What is not indexed is looked for by its plain name, and may not exist. *)
ResolveCellFilePath(cell) ==
  LET plain == {f \in directory : f.cell = cell /\ f.plain /\ CellFileExtensionRank(f) # NoRank}
  IN  IF plain = {} THEN NoPath
      ELSE CHOOSE f \in plain : \A g \in plain : CellFileExtensionRank(f) <= CellFileExtensionRank(g)

GetCellFilePath(cell) ==
  IF bundleCellPaths[cell] # NoPath THEN bundleCellPaths[cell]
  ELSE IF indexed[cell] # NoPath THEN indexed[cell] ELSE ResolveCellFilePath(cell)

(* The cells GetCellsInRange may name, when placeholders are not allowed.  *)
Requestable ==
  LET available == CellsOf(indexed) \cup bundleAvailableCells
  IN  IF available = {} THEN BundledCell ELSE available

BundleNext ==
  \/ InitializeOrSetConfig \/ ShutdownManager \/ LoadAssetBundle
  \/ \E id \in DOMAIN assetBundles : UnloadAssetBundle(id)

-----------------------------------------------------------------------------
HoldersOf(cell) == {b \in DOMAIN assetBundles : assetBundles[b].paths[cell] # NoPath}

(* Whatever order bundles came and went in, a cell is the newest bundle's  *)
(* of those that hold it: its number, its path and its owner are all of    *)
(* that bundle, the cell is there to be requested, and was last asked to   *)
(* be loaded; and nothing is left of a cell that no bundle holds           *)
(* (LoadAssetBundle and UnloadAssetBundle).                                *)
NewestServes ==
  \A cell \in BundledCell :
    IF HoldersOf(cell) # {}
    THEN LET newest == Max(HoldersOf(cell)) IN
         /\ cellToBundle[cell] = newest /\ bundleCellPathOwners[cell] = newest
         /\ bundleCellPaths[cell] = assetBundles[newest].paths[cell]
         /\ cell \in bundleAvailableCells /\ requested[cell] = "load"
    ELSE /\ cellToBundle[cell] = 0 /\ bundleCellPathOwners[cell] = 0 /\ bundleCellPaths[cell] = NoPath
         /\ cell \notin bundleAvailableCells /\ requested[cell] # "load"

BestOf(files, cell) ==
  {f \in files : /\ f.cell = cell /\ CellFileExtensionRank(f) # NoRank
                 /\ \A g \in files : g.cell = cell => CellFileExtensionRank(f) <= CellFileExtensionRank(g)}

(* A cell is served from the best of its files in the newest bundle that   *)
(* has one, else from the best in the data directory, whatever order they  *)
(* are found in, and is requested only if there is one (ScanAvailableCells,*)
(* SetConfig and GetCellFilePath).  A bundle counts the bytes of the files *)
(* it serves.                                                              *)
CellsServed ==
  /\ \A cell \in BundledCell :
       LET holding == {b \in DOMAIN assetBundles : BestOf(assetBundles[b].content, cell) # {}}
           best == BestOf(IF holding = {} THEN directory ELSE assetBundles[Max(holding)].content, cell)
       IN  /\ IF best = {} THEN GetCellFilePath(cell) = NoPath ELSE GetCellFilePath(cell) \in best
           /\ holding # {} => cell \in Requestable
           /\ cell \in Requestable => CellsOf(indexed) \cup bundleAvailableCells = {} \/ GetCellFilePath(cell) # NoPath
  /\ \A b \in DOMAIN assetBundles :
       LET bundle == assetBundles[b] IN
       bundle.totalSize = FoldSet(LAMBDA c, sum : sum + bundle.paths[c].size, 0, CellsOf(bundle.paths))
=============================================================================
