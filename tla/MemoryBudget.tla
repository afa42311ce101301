---------------------------- MODULE MemoryBudget -----------------------------
(***************************************************************************)
(* engine/world, EvictionPolicy and how StreamingManager keeps its memory  *)
(* budget: what is loaded and unloaded each frame as the camera moves.     *)
(* CellStreaming has the jobs behind a load and an unload; here a load is  *)
(* wanted and then there, an unload is queued, under way and then done.    *)
(*                                                                         *)
(* A distance is the band it lies in: within protectedRadius, within       *)
(* loadRadius, within unloadRadius, or beyond.                             *)
(*                                                                         *)
(* At the end, the rules of the world: the budget's, with those of the     *)
(* other parts that StreamingManager owns and drives.                      *)
(***************************************************************************)
EXTENDS Integers, FiniteSets, SequencesExt, FiniteSetsExt, BundleIndex, InterestManager, LodSystem

CONSTANTS
  HeldCell,
  CellBytes,        \* by cell: what it takes when loaded
  MemoryLimit,      \* memoryBudgetMB, in bytes
  EvictionPercent,  \* evictionThreshold, a fraction of the budget
  UnloadSlots,      \* maxConcurrentUnloads
  MaxFrames,        \* bound: frames
  MaxPins           \* bound: calls of SetCellPriority

ASSUME BudgetAssumption ==
  /\ IsFiniteSet(HeldCell) /\ CellBytes \in [HeldCell -> Nat] /\ MemoryLimit \in Nat
  /\ EvictionPercent \in 1..100 /\ UnloadSlots \in Nat \ {0} /\ {MaxFrames, MaxPins} \subseteq Nat

VARIABLES
  currentFrame, band,        \* the frame, and by cell where it lies
  loadedCells, wantedCells,  \* Loaded; requested and on their way
  unloadRequests, unloadsUnderWay,   \* unloadQueue_, activeUnloadOperations_
  accessInfo,                \* lastAccessFrame by cell; 0 is none
  priorities, pins,
  since,                     \* the frame a cell was loaded in
  batch,                     \* what EnforceMemoryBudget last chose, and kept
  queuedAs                   \* history: what a cell that is to go was when it was queued

budgetVars == <<currentFrame, band, loadedCells, wantedCells, unloadRequests, unloadsUnderWay,
                accessInfo, priorities, pins, since, batch, queuedAs>>

Band == {"protected", "load", "keep", "beyond"}

HighPriority == 5

(* The bytes of the cells, one by one: their number is the sum.            *)
BytesHeld(cells) == UNION {{c} \X (1 .. CellBytes[c]) : c \in cells}

GetMemoryUsage(cells) == Cardinality(BytesHeld(cells))

CheckMemoryBudget(cells) == GetMemoryUsage(cells) * 100 < EvictionPercent * MemoryLimit

BudgetInit ==
  /\ currentFrame = 0 /\ band = [c \in HeldCell |-> "load"]
  /\ loadedCells = {} /\ wantedCells = {} /\ unloadRequests = <<>> /\ unloadsUnderWay = {}
  /\ accessInfo = [c \in HeldCell |-> 0] /\ priorities = [c \in HeldCell |-> 1] /\ pins = 0
  /\ since = [c \in HeldCell |-> 0] /\ batch = [out |-> {}, kept |-> {}]
  /\ queuedAs = [c \in HeldCell |-> "none"]

SetCellPriority ==
  /\ pins < MaxPins /\ pins' = pins + 1
  /\ \E c \in HeldCell : priorities' = [priorities EXCEPT ![c] = HighPriority + 1]
  /\ batch' = [out |-> {}, kept |-> {}]
  /\ UNCHANGED <<currentFrame, band, loadedCells, wantedCells, unloadRequests, unloadsUnderWay, accessInfo,
                 since, queuedAs>>

\* Mutant: only what is near is protected.
ProtectedIfNear(c) == band'[c] = "protected"

IsCellProtected(c) == band'[c] = "protected" \/ priorities'[c] > HighPriority

RecordAccess(cells) ==
  accessInfo' = [c \in HeldCell |-> IF c \in cells THEN currentFrame' ELSE accessInfo[c]]

(* The least score first, least recently used; of two as low, either.      *)
LeastUsedFirst(cells) ==
  {order \in SetToSeqs(cells) : \A i, j \in DOMAIN order : i < j => accessInfo'[order[i]] <= accessInfo'[order[j]]}

SelectEvictionCandidates(cells) ==
  LET free == {c \in cells : ~IsCellProtected(c)} IN
  {chosen \in SUBSET free :
     /\ Cardinality(chosen) = Min({UnloadSlots, Cardinality(free)})
     /\ \A c \in chosen, d \in free \ chosen : accessInfo'[c] <= accessInfo'[d]}

PlaceIn(queue, c) == CHOOSE i \in DOMAIN queue : queue[i] = c

(* ProcessUnloadQueue: the first in the queue, as many as slots are free.  *)
Started(queue, busy) ==
  LET open == ToSet(queue) \ busy IN
  {first \in SUBSET open :
     /\ Cardinality(first) = Min({UnloadSlots - Cardinality(busy), Cardinality(open)})
     /\ \A c \in first, d \in open \ first : PlaceIn(queue, c) < PlaceIn(queue, d)}

Without(queue, cells) ==
  {rest \in SetToSeqs(ToSet(queue) \ cells) :
     \A i, j \in DOMAIN rest : i < j => PlaceIn(queue, rest[i]) < PlaceIn(queue, rest[j])}

(* EnforceMemoryBudget: the whole batch goes, whatever frees enough.       *)
EnforceMemoryBudget(cells, queue, busy) ==
  IF CheckMemoryBudget(cells) \/ GetMemoryUsage(cells) <= MemoryLimit
  THEN loadedCells' = cells /\ unloadRequests' = queue /\ unloadsUnderWay' = busy /\ batch' = [out |-> {}, kept |-> {}]
  ELSE \E candidates \in SelectEvictionCandidates(cells) : \E more \in LeastUsedFirst(candidates \ ToSet(queue)) :
         \E started \in Started(queue \o more, busy) :
           /\ unloadRequests' \in Without(queue \o more, started)
           /\ loadedCells' = cells \ started /\ unloadsUnderWay' = busy \cup started
           /\ batch' = [out |-> candidates, kept |-> cells \ candidates]

(* UpdateStreaming asks for cells that are near, while there is room.      *)
Asked(cells) ==
  IF CheckMemoryBudget(cells) THEN {c \in HeldCell \ (cells \cup wantedCells) : band'[c] \in {"protected", "load"}} ELSE {}

Beyond(cells) == {c \in cells : band'[c] = "beyond"}

(* What waits to be unloaded, or is on its way.                            *)
Leaving == ToSet(unloadRequests) \cup unloadsUnderWay

(* What a cell is, now that it is queued.                                  *)
Standing(c) ==
  IF band'[c] = "beyond" THEN "beyond"
  ELSE IF band'[c] = "protected" \/ priorities'[c] > HighPriority THEN "protected" ELSE "free"

(* One Update: the camera has moved (as a bound, the band of one cell has  *)
(* changed), loads and unloads have finished, then UpdateStreaming asks    *)
(* for more, and the queue and the budget are served.                      *)
BudgetFrame ==
  /\ currentFrame < MaxFrames /\ currentFrame' = currentFrame + 1
  /\ \E c \in HeldCell, to \in Band : band' = [band EXCEPT ![c] = to]
  /\ \E arrived \in SUBSET (wantedCells \ unloadsUnderWay), busy \in SUBSET unloadsUnderWay :
       LET cells == loadedCells \cup arrived IN
       /\ RecordAccess(arrived)
       /\ since' = [c \in HeldCell |-> IF c \in arrived THEN currentFrame' ELSE since[c]]
       /\ priorities' = [c \in HeldCell |-> IF c \in Asked(cells) THEN 1 ELSE priorities[c]]
       /\ wantedCells' = (wantedCells \ arrived) \cup Asked(cells)
       /\ \E more \in SetToSeqs(Beyond(cells) \ ToSet(unloadRequests)) :
            LET queue == unloadRequests \o more IN
            \E started \in Started(queue, busy) : \E rest \in Without(queue, started) :
              EnforceMemoryBudget(cells \ started, rest, busy \cup started)
  /\ queuedAs' = [c \in HeldCell |->
       IF c \notin Leaving' THEN "none" ELSE IF c \in Leaving THEN queuedAs[c] ELSE Standing(c)]
  /\ UNCHANGED pins

BudgetNext == SetCellPriority \/ BudgetFrame

-----------------------------------------------------------------------------
(* Whatever waits to be unloaded or is on its way was beyond the unload    *)
(* radius when it was queued, or neither beside the camera nor pinned      *)
(* (SelectEvictionCandidates, UpdateStreaming).  What it is by the time    *)
(* its turn comes is another matter: see NeverEvictNear.                   *)
QueuedWhenDue == \A c \in Leaving : queuedAs[c] # "protected"

(* What is chosen to go was, when it was chosen, loaded no later than what *)
(* could have been chosen instead.                                         *)
OldestChosen ==
  \A c \in batch.out, d \in batch.kept : band[d] # "protected" /\ priorities[d] <= HighPriority => since[c] <= since[d]

(* While there is too much, all that may go is going, or every slot for    *)
(* unloads is taken (EnforceMemoryBudget).                                 *)
ExcessGoes ==
  GetMemoryUsage(loadedCells) > MemoryLimit =>
    \/ Cardinality(unloadsUnderWay) >= UnloadSlots
    \/ \A c \in loadedCells : band[c] = "protected" \/ priorities[c] > HighPriority

BudgetKept == QueuedWhenDue /\ OldestChosen /\ ExcessGoes

(* A cell that was chosen to go, and had to wait for a slot, is neither    *)
(* within protectedRadius nor of high priority when its unload starts:     *)
(* "Never evict high-priority cells", "Never evict within this radius of   *)
(* camera".  The code does not keep this: ProcessUnloadQueue starts what   *)
(* is queued without asking IsCellProtected again.                         *)
NeverEvictNear ==
  [][\A c \in unloadsUnderWay' \ unloadsUnderWay : queuedAs[c] = "free" => Standing(c) # "protected"]_budgetVars

-----------------------------------------------------------------------------
(* The parts that StreamingManager owns beside the cells; none reads       *)
(* another's state.                                                        *)
ruleVars == <<bundleVars, budgetVars, interestVars, lodVars>>

WorldInit == BundleInit /\ BudgetInit /\ InterestInit /\ LodInit

WorldNext ==
  \/ BundleNext /\ UNCHANGED <<budgetVars, interestVars, lodVars>>
  \/ BudgetNext /\ UNCHANGED <<bundleVars, interestVars, lodVars>>
  \/ InterestNext /\ UNCHANGED <<bundleVars, budgetVars, lodVars>>
  \/ LodNext /\ UNCHANGED <<bundleVars, budgetVars, interestVars>>

(* The rules of the world: which bundle serves a cell, what is evicted to  *)
(* keep the memory budget, the points the world is streamed around, and    *)
(* the clusters and impostors that stand for what is far away              *)
(* (LoadAssetBundle, EvictionPolicy, InterestManager and LODSystem).       *)
WorldRulesKept == NewestServes /\ BudgetKept /\ PointsKept /\ DetailKept
=============================================================================
