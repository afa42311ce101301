---------------------------- MODULE AssetManager ----------------------------
(***************************************************************************)
(* engine/runtime/asset, AssetManager: packages and assets with reference  *)
(* counts, asked for by any thread.  mutex_ guards the maps; files are     *)
(* read without it, so that a load is several critical sections, and what  *)
(* one of them saw may have changed in the next.                           *)
(*                                                                         *)
(* An asset is asked for by its key <<package, name>> or by its name       *)
(* alone.  A payload is abstracted to whether it can be read and is valid. *)
(***************************************************************************)
EXTENDS Naturals, FiniteSets, Sequences

CONSTANTS
  Package, Name,
  Contents,      \* by package: the names of its assets
  Loader,        \* the threads that call LoadPackage and LoadAssetSync
  MaxAssetCalls  \* bound: the calls made

Key == Package \X Name

Request == Key \cup Name

ASSUME AssetAssumption ==
  /\ Contents \in [Package -> SUBSET Name]
  /\ Key \cap Name = {}
  /\ MaxAssetCalls \in Nat

VARIABLES
  packages,     \* loadedPackages_: by package, refCount, 0 if absent
  assets,       \* loadedAssets_: by key, refCount_, 0 if absent
  loader,       \* where each thread is in LoadPackage or LoadAssetSync
  tasks,        \* the load tasks queued at the job system
  pendingLoads, \* pendingLoads_
  answers,      \* completedLoads_: the requests answered, without the handles
  assetCalls,   \* bound: the calls so far
  holds,        \* history: by package, the loads not given back
  handles       \* history: by key, the handles not given back, asked for by key and by name

assetVars == <<packages, assets, loader, tasks, pendingLoads, answers, assetCalls, holds, handles>>

IdleLoader == [at |-> "idle", async |-> FALSE]

LoaderState ==
  {IdleLoader}
    \cup [at : {"package"}, package : Package, async : {FALSE}]
    \cup [at : {"find", "answer"}, asked : Request, async : BOOLEAN]
    \cup [at : {"read"}, asked : Request, key : Key, async : BOOLEAN]

AssetTypeOK ==
  /\ packages \in [Package -> Nat] /\ holds \in [Package -> Nat]
  /\ assets \in [Key -> Nat]
  /\ handles \in [Key -> [byKey : Nat, byName : Nat]]
  /\ loader \in [Loader -> LoaderState]
  /\ tasks \in Seq(Request) /\ answers \in Seq(Request)
  /\ pendingLoads \in Nat
  /\ assetCalls \in 0 .. MaxAssetCalls

AssetInit ==
  /\ packages = [p \in Package |-> 0] /\ holds = [p \in Package |-> 0]
  /\ assets = [k \in Key |-> 0]
  /\ handles = [k \in Key |-> [byKey |-> 0, byName |-> 0]]
  /\ loader = [t \in Loader |-> IdleLoader]
  /\ tasks = << >> /\ answers = << >>
  /\ pendingLoads = 0 /\ assetCalls = 0

AssetCall == assetCalls < MaxAssetCalls /\ assetCalls' = assetCalls + 1

LoadedAssets == {k \in Key : assets[k] > 0}

-----------------------------------------------------------------------------
(* LoadPackage: only counts if the package is there, before or after the   *)
(* file was read.                                                          *)
TakePackage(p) ==
  /\ packages' = [packages EXCEPT ![p] = @ + 1]
  /\ holds' = [holds EXCEPT ![p] = @ + 1]

LoadPackage(t, p) ==
  /\ loader[t].at = "idle" /\ AssetCall
  /\ IF packages[p] > 0
     THEN TakePackage(p) /\ UNCHANGED loader
     ELSE /\ loader' = [loader EXCEPT ![t] = [at |-> "package", package |-> p, async |-> FALSE]]
          /\ UNCHANGED <<packages, holds>>
  /\ UNCHANGED <<assets, tasks, pendingLoads, answers, handles>>

PackageRead(t) ==
  /\ loader[t].at = "package"
  /\ loader' = [loader EXCEPT ![t] = IdleLoader]
  /\ TakePackage(loader[t].package) \/ UNCHANGED <<packages, holds>>
  /\ UNCHANGED <<assets, tasks, pendingLoads, answers, assetCalls, handles>>

(* By whoever loaded it.  With the last reference the package goes, and    *)
(* with it its assets that nobody references, of which there are none:     *)
(* they went with their own last reference.                                *)
UnloadPackage(p) ==
  /\ holds[p] > 0 /\ AssetCall
  /\ holds' = [holds EXCEPT ![p] = @ - 1]
  /\ packages' = [packages EXCEPT ![p] = IF @ > 0 THEN @ - 1 ELSE 0]
  /\ UNCHANGED <<assets, loader, tasks, pendingLoads, answers, handles>>

-----------------------------------------------------------------------------
(* LoadAssetSync.  A name alone must be unique: first among the assets     *)
(* that are loaded, then among the packages.                               *)
Named(keys, asked) ==
  IF asked \in Key THEN keys \cap {asked}
  ELSE LET found == {k \in keys : k[2] = asked} IN IF Cardinality(found) = 1 THEN found ELSE {}

(* A reference for the caller, or for the callback that gets the answer.   *)
TakeAsset(k, asked) ==
  /\ assets' = [assets EXCEPT ![k] = @ + 1]
  /\ handles' = IF asked \in Key THEN [handles EXCEPT ![k].byKey = @ + 1]
                ELSE [handles EXCEPT ![k].byName = @ + 1]

After(asked, async) == IF async THEN [at |-> "answer", asked |-> asked, async |-> TRUE] ELSE IdleLoader

LookUpLoaded(t, asked, async) ==
  \/ \E k \in Named(LoadedAssets, asked) :
       /\ TakeAsset(k, asked)
       /\ loader' = [loader EXCEPT ![t] = After(asked, async)]
  \/ /\ Named(LoadedAssets, asked) = {}
     /\ loader' = [loader EXCEPT ![t] = [at |-> "find", asked |-> asked, async |-> async]]
     /\ UNCHANGED <<assets, handles>>

LoadAssetSync(t, asked) ==
  /\ loader[t].at = "idle" /\ AssetCall
  /\ LookUpLoaded(t, asked, FALSE)
  /\ UNCHANGED <<packages, tasks, pendingLoads, answers, holds>>

(* The container is kept while it is read, whatever becomes of the package.*)
FindPackage(t) ==
  LET asked == loader[t].asked
      found == Named({k \in Key : packages[k[1]] > 0 /\ k[2] \in Contents[k[1]]}, asked)
  IN  /\ loader[t].at = "find"
      /\ loader' = [loader EXCEPT ![t] =
           IF found = {} THEN After(asked, @.async)
           ELSE [at |-> "read", asked |-> asked, key |-> CHOOSE k \in found : TRUE, async |-> @.async]]
      /\ UNCHANGED <<packages, assets, tasks, pendingLoads, answers, assetCalls, holds, handles>>

\* Mutant: the asset is entered without looking whether it has come meanwhile.
StoreAssetAnyway(t) ==
  /\ loader[t].at = "read"
  /\ LET k == loader[t].key IN
       /\ assets' = [assets EXCEPT ![k] = 1]
       /\ handles' = IF loader[t].asked \in Key THEN [handles EXCEPT ![k].byKey = @ + 1]
                     ELSE [handles EXCEPT ![k].byName = @ + 1]
  /\ loader' = [loader EXCEPT ![t] = After(@.asked, @.async)]
  /\ UNCHANGED <<packages, tasks, pendingLoads, answers, assetCalls, holds>>

(* An asset that came meanwhile only gets a reference.  The data may be    *)
(* unreadable or not valid for its type.                                   *)
StoreAsset(t) ==
  /\ loader[t].at = "read"
  /\ TakeAsset(loader[t].key, loader[t].asked) \/ UNCHANGED <<assets, handles>>
  /\ loader' = [loader EXCEPT ![t] = After(@.asked, @.async)]
  /\ UNCHANGED <<packages, tasks, pendingLoads, answers, assetCalls, holds>>

-----------------------------------------------------------------------------
(* LoadAssetAsync: a task of the job system, and a callback for the frame. *)
LoadAssetAsync(asked) ==
  /\ AssetCall
  /\ pendingLoads' = pendingLoads + 1
  /\ tasks' = Append(tasks, asked)
  /\ UNCHANGED <<packages, assets, loader, answers, holds, handles>>

StartTask(t) ==
  /\ loader[t].at = "idle" /\ tasks # << >>
  /\ tasks' = Tail(tasks)
  /\ LookUpLoaded(t, Head(tasks), TRUE)
  /\ UNCHANGED <<packages, pendingLoads, answers, assetCalls, holds>>

PushAnswer(t) ==
  /\ loader[t].at = "answer"
  /\ pendingLoads' = pendingLoads - 1
  /\ answers' = Append(answers, loader[t].asked)
  /\ loader' = [loader EXCEPT ![t] = IdleLoader]
  /\ UNCHANGED <<packages, assets, tasks, assetCalls, holds, handles>>

(* PumpAsyncCallbacks hands over the first answers, as many as asked for.  *)
PumpAsyncCallbacks ==
  /\ \E n \in 1 .. Len(answers) : answers' = SubSeq(answers, n + 1, Len(answers))
  /\ UNCHANGED <<packages, assets, loader, tasks, pendingLoads, assetCalls, holds, handles>>

-----------------------------------------------------------------------------
AddRef(k) ==
  /\ handles[k].byKey + handles[k].byName > 0 /\ assets[k] > 0 /\ AssetCall
  /\ TakeAsset(k, k)
  /\ UNCHANGED <<packages, loader, tasks, pendingLoads, answers, holds>>

(* UnloadAsset(handle) and Release: the handle's id is that of its key, in *)
(* this life of the asset and in later ones.                               *)
UnloadHandle(k) ==
  /\ AssetCall
  /\ \E asked \in {"byKey", "byName"} :
       handles[k][asked] > 0 /\ handles' = [handles EXCEPT ![k][asked] = @ - 1]
  /\ assets' = [assets EXCEPT ![k] = IF @ > 0 THEN @ - 1 ELSE 0]
  /\ UNCHANGED <<packages, loader, tasks, pendingLoads, answers, holds>>

(* UnloadAsset(name), by one who loaded an asset under that name.  The     *)
(* call does nothing if the name has become ambiguous.                     *)
UnloadName(k) ==
  /\ handles[k].byName > 0 /\ AssetCall
  /\ \/ \E found \in Named(LoadedAssets, k[2]) :
          /\ assets' = [assets EXCEPT ![found] = @ - 1]
          /\ handles' = [handles EXCEPT ![k].byName = @ - 1]
     \/ /\ Named(LoadedAssets, k[2]) = {}
        /\ UNCHANGED <<assets, handles>>
  /\ UNCHANGED <<packages, loader, tasks, pendingLoads, answers, holds>>

(* Shutdown voids what was handed out.  Loads under way go on.             *)
Shutdown ==
  /\ AssetCall
  /\ answers' = << >>
  /\ packages' = [p \in Package |-> 0] /\ holds' = packages'
  /\ assets' = [k \in Key |-> 0]
  /\ handles' = [k \in Key |-> [byKey |-> 0, byName |-> 0]]
  /\ UNCHANGED <<loader, tasks, pendingLoads>>

-----------------------------------------------------------------------------
AssetNext ==
  \/ \E t \in Loader : \/ \E p \in Package : LoadPackage(t, p)
                       \/ \E r \in Request : LoadAssetSync(t, r)
                       \/ PackageRead(t) \/ FindPackage(t) \/ StoreAsset(t)
                       \/ StartTask(t) \/ PushAnswer(t)
  \/ \E p \in Package : UnloadPackage(p)
  \/ \E r \in Request : LoadAssetAsync(r)
  \/ \E k \in Key : AddRef(k) \/ UnloadHandle(k) \/ UnloadName(k)
  \/ PumpAsyncCallbacks \/ Shutdown

AssetSpec == AssetInit /\ [][AssetNext]_assetVars

-----------------------------------------------------------------------------
(* The references counted are those handed out: however loads of one asset *)
(* or package overlap, and whatever a name came to mean, no one's handle   *)
(* is unloaded by another and nothing stays loaded that all have released. *)
HandlesCounted ==
  /\ \A k \in Key : assets[k] = handles[k].byKey + handles[k].byName
  /\ \A p \in Package : packages[p] = holds[p]
=============================================================================
