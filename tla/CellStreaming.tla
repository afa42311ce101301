--------------------------- MODULE CellStreaming ----------------------------
(***************************************************************************)
(* engine/world, StreamingManager and WorldPartition: the cells of the     *)
(* world are loaded and unloaded around the camera.  One frame thread      *)
(* walks through the phases of Update; between frames the game calls       *)
(* LoadCell, UnloadCell and the like.  Job workers load and release        *)
(* packages, IO workers read and decompress raw cells and layers; both     *)
(* answer later, through completions and callbacks.                        *)
(*                                                                         *)
(* Priorities are scores in floating point: any order of the load queue.   *)
(* Bytes are abstracted: a cell counts 1 against the upload budget, and    *)
(* memory pressure is an event of the environment.  A cell has one layer   *)
(* besides its mesh.                                                       *)
(***************************************************************************)
EXTENDS Naturals, FiniteSets, Sequences, SequencesExt

CONSTANTS
  Cell,
  Kinds,            \* of cell file: "package", "raw", "packed" (compressed), "missing"
  Layered,          \* the cells with a file of layers
  Request,          \* bound: the jobs and read requests alive at once, for loads
  MaxLoads,         \* maxConcurrentLoads
  MaxUnloads,       \* maxConcurrentUnloads
  MaxStarts,        \* maxLoadStartsPerFrame
  UploadBudget,     \* maxUploadBytesPerFrame
  MaxEvents,        \* bound: calls, camera moves, evictions and failures
  None, Done

ASSUME CellAssumption ==
  /\ Kinds \subseteq {"package", "raw", "packed", "missing"}
  /\ Layered \subseteq Cell
  /\ {None, Done} \cap Request = {} /\ None # Done
  /\ {MaxLoads, MaxUnloads, MaxStarts, UploadBudget} \subseteq Nat \ {0}
  /\ MaxEvents \in Nat

VARIABLES
  kind,        \* by cell: what its file is
  placeholders, \* config_.allowPlaceholderCellLoad
  zone,        \* by cell: within the load radius, beyond the unload radius, or between
  events,      \* bound: the events so far
  phase,       \* of the frame thread
  draining,    \* it is in UnloadAll
  uploaded, starts, \* uploadBytesThisFrame, loadStartsThisFrame
  state,       \* cells_: by cell, CellData::state, or absent
  loadQueue,   \* loadQueue_: a set, since its order is any
  unloadQueue, \* unloadQueue_
  active,      \* activeLoadOperations_: None, the request or job waited for, or Done
  unload,      \* activeUnloadOperations_: by cell, the stage of the job and its package
  request,     \* the load jobs and the requests at asyncIO_
  completions, \* completions_
  mapped,      \* cellToPackageName_
  refs,        \* by cell: the references AssetManager counts for its package
  entry,       \* by cell: layers[layer]
  layerOp,     \* activeLayerLoadOperations_: by cell, with the flag abandoned
  layerRead    \* the read requests of layers at asyncIO_

files == <<kind, placeholders>>
frame == <<phase, draining, uploaded, starts>>
queues == <<loadQueue, unloadQueue>>
packages == <<mapped, refs>>
layers == <<entry, layerOp, layerRead>>
vars == <<files, zone, events, frame, state, queues, active, unload, request, completions,
          packages, layers>>

CellState == {"absent", "Unloaded", "Loading", "Decompressing", "Loaded", "Unloading", "Error"}

Free == [cell |-> None, stage |-> "free", live |-> FALSE, unpack |-> FALSE, ok |-> FALSE]

NoUnload == [stage |-> "none", package |-> FALSE]

TypeOK ==
  /\ kind \in [Cell -> Kinds] /\ placeholders \in BOOLEAN
  /\ zone \in [Cell -> {"near", "mid", "far"}]
  /\ events \in 0 .. MaxEvents
  /\ phase \in {"calls", "callbacks", "commit", "streaming", "loads", "unloads"}
  /\ draining \in BOOLEAN
  /\ uploaded \in 0 .. UploadBudget /\ starts \in 0 .. MaxStarts
  /\ state \in [Cell -> CellState]
  /\ loadQueue \subseteq Cell
  /\ unloadQueue \in Seq(Cell) /\ IsInjective(unloadQueue)
  /\ active \in [Cell -> Request \cup {None, Done}]
  /\ unload \in [Cell -> [stage : {"none", "queued", "running", "done"}, package : BOOLEAN]]
  /\ request \in [Request -> [cell : Cell \cup {None}, live : BOOLEAN, unpack : BOOLEAN, ok : BOOLEAN,
                              stage : {"free", "queued", "running", "answered"}]]
  /\ completions \in Seq([cell : Cell, what : {"load", "fail", "unload"}])
  /\ mapped \subseteq Cell
  /\ refs \in [Cell -> Nat]
  /\ entry \in [Cell -> {"absent", "Loading", "Loaded", "placeholder"}]
  /\ layerOp \in [Cell -> {"none", "wanted", "abandoned"}]
  /\ layerRead \in [Cell -> {"none", "queued", "running", "answered"}]

Init ==
  /\ kind \in [Cell -> Kinds] /\ placeholders \in BOOLEAN
  /\ zone \in [Cell -> {"near", "mid"}]
  /\ events = 0
  /\ phase = "calls" /\ draining = FALSE /\ uploaded = 0 /\ starts = 0
  /\ state = [c \in Cell |-> "absent"]
  /\ loadQueue = {} /\ unloadQueue = << >>
  /\ active = [c \in Cell |-> None]
  /\ unload = [c \in Cell |-> NoUnload]
  /\ request = [r \in Request |-> Free]
  /\ completions = << >>
  /\ mapped = {} /\ refs = [c \in Cell |-> 0]
  /\ entry = [c \in Cell |-> "absent"]
  /\ layerOp = [c \in Cell |-> "none"]
  /\ layerRead = [c \in Cell |-> "none"]

Event == events < MaxEvents /\ events' = events + 1

(* A failure is an event, its absence is not.                              *)
Fails(fault) == IF fault THEN Event ELSE UNCHANGED events

Loaded == {c \in Cell : state[c] = "Loaded"}

QueueUnload(cells) == unloadQueue' = unloadQueue \o SetToSeq(cells \ ToSet(unloadQueue))

GoTo(p) == phase' = p /\ UNCHANGED <<draining, uploaded, starts>>

-----------------------------------------------------------------------------
(* The calls of the game, between frames.                                  *)
CameraMoves ==
  /\ phase = "calls" /\ Event
  /\ \E c \in Cell, z \in {"near", "mid", "far"} :
       z # zone[c] /\ zone' = [zone EXCEPT ![c] = z]
  /\ UNCHANGED <<files, frame, state, queues, active, unload, request, completions, packages, layers>>

LoadCell(c) ==
  /\ phase = "calls" /\ Event
  /\ loadQueue' = loadQueue \cup {c}
  /\ UNCHANGED <<files, zone, frame, state, unloadQueue, active, unload, request, completions,
                 packages, layers>>

UnloadCell(c) ==
  /\ phase = "calls" /\ Event
  /\ QueueUnload({c})
  /\ UNCHANGED <<files, zone, frame, state, loadQueue, active, unload, request, completions,
                 packages, layers>>

ReloadCell(c) ==
  /\ phase = "calls" /\ Event
  /\ QueueUnload({c})
  /\ loadQueue' = loadQueue \cup {c}
  /\ UNCHANGED <<files, zone, frame, state, active, unload, request, completions, packages, layers>>

(* Nothing, for a layer that is loaded or still in flight.                 *)
LoadCellLayer(c) ==
  /\ phase = "calls" /\ Event
  /\ \/ /\ state[c] = "absent"
        /\ loadQueue' = loadQueue \cup {c}
        /\ UNCHANGED layers
     \/ /\ state[c] # "absent" /\ c \in Layered
        /\ entry[c] # "Loaded" /\ layerOp[c] = "none"
        /\ entry' = [entry EXCEPT ![c] = "Loading"]
        /\ layerOp' = [layerOp EXCEPT ![c] = "wanted"]
        /\ layerRead' = [layerRead EXCEPT ![c] = "queued"]
        /\ UNCHANGED loadQueue
     \/ /\ state[c] # "absent" /\ c \notin Layered /\ placeholders
        /\ entry' = [entry EXCEPT ![c] = "placeholder"]
        /\ UNCHANGED <<loadQueue, layerOp, layerRead>>
  /\ UNCHANGED <<files, zone, frame, state, unloadQueue, active, unload, request, completions, packages>>

Abandon(c) == [layerOp EXCEPT ![c] = IF @ = "none" THEN "none" ELSE "abandoned"]

\* Mutant: the operation and its buffer go at once, as the design first had it.
UnloadCellLayerAtOnce(c) ==
  /\ phase = "calls" /\ Event
  /\ layerOp' = [layerOp EXCEPT ![c] = "none"]
  /\ entry' = [entry EXCEPT ![c] = "absent"]
  /\ UNCHANGED <<files, zone, frame, state, queues, active, unload, request, completions, packages,
                 layerRead>>

UnloadCellLayer(c) ==
  /\ phase = "calls" /\ Event
  /\ layerOp' = Abandon(c)
  /\ entry' = [entry EXCEPT ![c] = "absent"]
  /\ UNCHANGED <<files, zone, frame, state, queues, active, unload, request, completions, packages,
                 layerRead>>

BeginFrame ==
  /\ phase = "calls"
  /\ phase' = "callbacks" /\ uploaded' = 0 /\ starts' = 0
  /\ UNCHANGED <<files, zone, events, draining, state, queues, active, unload, request, completions,
                 packages, layers>>

(* UnloadAll queues the loaded cells and those being loaded, and repeats   *)
(* the unload and commit passes until none is left.                        *)
UnloadAll ==
  /\ phase = "calls" /\ Event
  /\ QueueUnload(Loaded \cup {c \in Cell : active[c] # None})
  /\ phase' = "unloads" /\ draining' = TRUE
  /\ UNCHANGED <<files, zone, uploaded, starts, state, loadQueue, active, unload, request,
                 completions, packages, layers>>

-----------------------------------------------------------------------------
(* asyncIO_->Update: the callbacks of the requests answered.               *)
Complete(c, what) == Append(completions, [cell |-> c, what |-> what])

(* The callback of a raw cell's read or decompression looks for the load   *)
(* by its cell.  A packed cell goes on to its decompression.               *)
CellCallback(r) ==
  LET c == request[r].cell
      tracked == active[c] # None
  IN  /\ phase = "callbacks" /\ request[r].stage = "answered"
      /\ \/ /\ request[r].ok /\ tracked
            /\ kind[c] = "packed" /\ ~request[r].unpack
            /\ request' = [request EXCEPT ![r] = [@ EXCEPT !.stage = "queued", !.unpack = TRUE]]
            /\ active' = [active EXCEPT ![c] = r]
            /\ state' = [state EXCEPT ![c] = "Decompressing"]
            /\ UNCHANGED <<events, completions>>
         \/ \E fault \in BOOLEAN :
              /\ fault => request[r].ok /\ tracked
              /\ Fails(fault)
              /\ fault \/ ~request[r].ok \/ ~tracked \/ kind[c] = "raw" \/ request[r].unpack
              /\ completions' = Complete(c, IF request[r].ok /\ tracked /\ ~fault THEN "load" ELSE "fail")
              /\ request' = [request EXCEPT ![r] = Free]
              /\ active' = [active EXCEPT ![c] = IF @ = r THEN Done ELSE @]
              /\ UNCHANGED state
      /\ UNCHANGED <<files, zone, frame, queues, unload, packages, layers>>

(* FinishLayerLoad: the result of a read nobody wants, that failed or      *)
(* whose entry has gone is dropped.                                        *)
FinishLayerLoad(c) ==
  /\ phase = "callbacks" /\ layerRead[c] = "answered"
  /\ layerOp' = [layerOp EXCEPT ![c] = "none"]
  /\ layerRead' = [layerRead EXCEPT ![c] = "none"]
  /\ \E fault \in BOOLEAN :
       /\ Fails(fault)
       /\ entry' = [entry EXCEPT ![c] =
            IF @ # "Loading" THEN @
            ELSE IF layerOp[c] = "abandoned" \/ fault THEN "absent" ELSE "Loaded"]
  /\ UNCHANGED <<files, zone, frame, state, queues, active, unload, request, completions, packages>>

CallbacksEnd ==
  /\ phase = "callbacks"
  /\ \A r \in Request : request[r].stage # "answered"
  /\ \A c \in Cell : layerRead[c] # "answered"
  /\ GoTo("commit")
  /\ UNCHANGED <<files, zone, events, state, queues, active, unload, request, completions, packages,
                 layers>>

-----------------------------------------------------------------------------
(* ProcessCellOpCompletions, one completion after the other.               *)
Deferred == completions # << >> /\ Head(completions).what = "load" /\ uploaded = UploadBudget

Committing(what) ==
  /\ phase = "commit" /\ completions # << >> /\ ~Deferred
  /\ Head(completions).what = what
  /\ completions' = Tail(completions)
  /\ UNCHANGED <<files, zone, phase, draining, starts, queues, request>>

(* ReleaseCellLayers, and the cell is unloaded.                            *)
Release(c) ==
  /\ entry' = [entry EXCEPT ![c] = "absent"]
  /\ state' = [state EXCEPT ![c] = "Unloaded"]
  /\ UNCHANGED <<layerOp, layerRead>>

CommitFailure ==
  /\ Committing("fail")
  /\ LET c == Head(completions).cell
     IN  /\ active' = [active EXCEPT ![c] = None]
         /\ state' = [state EXCEPT ![c] = "Error"]
  /\ UNCHANGED <<events, uploaded, unload, packages, layers>>

(* A load that comes after its cell was unloaded gives its package back.   *)
CommitUnwanted ==
  /\ Committing("load")
  /\ LET c == Head(completions).cell
     IN  /\ state[c] \in {"Unloading", "Unloaded"}
         /\ active' = [active EXCEPT ![c] = None]
         /\ refs' = [refs EXCEPT ![c] = IF kind[c] = "package" /\ @ > 0 THEN @ - 1 ELSE @]
         /\ Release(c)
  /\ UNCHANGED <<events, uploaded, unload, mapped>>

(* The pool may have no room for a raw cell.                               *)
CommitLoad ==
  /\ Committing("load")
  /\ LET c == Head(completions).cell
     IN  /\ state[c] \notin {"Unloading", "Unloaded"}
         /\ active' = [active EXCEPT ![c] = None]
         /\ mapped' = IF kind[c] = "package" THEN mapped \cup {c} ELSE mapped \ {c}
         /\ \E fault \in BOOLEAN :
              /\ fault => kind[c] # "package"
              /\ Fails(fault)
              /\ state' = [state EXCEPT ![c] = IF fault THEN "Error" ELSE "Loaded"]
              /\ uploaded' = IF fault THEN uploaded ELSE uploaded + 1
  /\ UNCHANGED <<unload, refs, layers>>

CommitUnload ==
  /\ Committing("unload")
  /\ LET c == Head(completions).cell
     IN  /\ unload' = [unload EXCEPT ![c] = NoUnload]
         /\ mapped' = mapped \ {c}
         /\ Release(c)
  /\ UNCHANGED <<events, uploaded, active, refs>>

(* None is left, or the rest waits for the next frame's budget, which does *)
(* not come within UnloadAll.  UnloadAll gives up after 500 passes: any    *)
(* number of them, and at the latest when nothing more can be committed.   *)
CommitEnds ==
  /\ phase = "commit" /\ (completions = << >> \/ Deferred)
  /\ IF draining
     THEN LET over == /\ unloadQueue = << >>
                      /\ \A c \in Cell : unload[c] = NoUnload /\ active[c] = None
          IN  /\ phase' \in IF over \/ Deferred THEN {"calls"} ELSE {"calls", "unloads"}
              /\ draining' = (phase' = "unloads")
              /\ UNCHANGED <<uploaded, starts>>
     ELSE GoTo("streaming")
  /\ UNCHANGED <<files, zone, events, state, queues, active, unload, request, completions, packages,
                 layers>>

-----------------------------------------------------------------------------
(* UpdateStreaming: request the near cells, give up the far ones; over the *)
(* memory threshold no load is requested, and none is started.             *)
InProgress == {"Loaded", "Loading", "Decompressing"}

(* GetCellsInRange: cells without a file only as placeholders, or when no  *)
(* cell at all has one.                                                    *)
InRange ==
  {c \in Cell : /\ zone[c] = "near"
                /\ kind[c] # "missing" \/ placeholders \/ \A d \in Cell : kind[d] = "missing"}

UpdateStreaming ==
  /\ phase = "streaming"
  /\ \E pressure \in BOOLEAN :
       /\ Fails(pressure)
       /\ loadQueue' = IF pressure THEN loadQueue
                       ELSE loadQueue \cup {c \in InRange : state[c] \notin InProgress}
       /\ GoTo(IF pressure THEN "unloads" ELSE "loads")
  /\ QueueUnload({c \in Loaded : zone[c] = "far"})
  /\ UNCHANGED <<files, zone, state, active, unload, request, completions, packages, layers>>

(* ProcessLoadQueue and ProcessCellLoad.                                   *)
InFlight == {c \in Cell : active[c] # None}

MayStart == {c \in loadQueue : active[c] = None}

LoadsOpen ==
  /\ Cardinality(InFlight) < MaxLoads /\ starts < MaxStarts /\ MayStart # {}

FreeRequests == {r \in Request : request[r].stage = "free"}

(* The file is missing, empty, too large, or the request is refused.       *)
StartFails(c) ==
  \/ kind[c] = "missing" /\ ~placeholders /\ UNCHANGED events
  \/ kind[c] # "missing" /\ Event

ProcessCellLoad(c) ==
  /\ phase = "loads" /\ LoadsOpen /\ c \in MayStart
  /\ loadQueue' = loadQueue \ {c}
  /\ starts' = starts + 1
  /\ \/ /\ kind[c] = "missing" /\ placeholders
        /\ state' = [state EXCEPT ![c] = "Loaded"]
        /\ UNCHANGED <<events, active, request>>
     \/ /\ StartFails(c)
        /\ state' = [state EXCEPT ![c] = "Error"]
        /\ UNCHANGED <<active, request>>
     \/ /\ kind[c] # "missing" /\ FreeRequests # {}
        /\ LET r == CHOOSE r \in FreeRequests : TRUE
           IN  /\ request' = [request EXCEPT ![r] = [Free EXCEPT !.cell = c, !.stage = "queued", !.live = TRUE]]
               /\ active' = [active EXCEPT ![c] = r]
        /\ state' = [state EXCEPT ![c] = "Loading"]
        /\ UNCHANGED events
  /\ UNCHANGED <<files, zone, phase, draining, uploaded, unloadQueue, unload, completions, packages, layers>>

LoadsEnd ==
  /\ phase = "loads" /\ ~LoadsOpen
  /\ GoTo("unloads")
  /\ UNCHANGED <<files, zone, events, state, queues, active, unload, request, completions, packages, layers>>

-----------------------------------------------------------------------------
(* ProcessUnloadQueue and ProcessCellUnload: the load in flight is         *)
(* cancelled as far as that goes, and forgotten.                           *)
FirstUnload == SelectInSeq(unloadQueue, LAMBDA c : unload[c] = NoUnload)

UnloadsOpen ==
  /\ Cardinality({c \in Cell : unload[c] # NoUnload}) < MaxUnloads /\ FirstUnload # 0

(* A queued job or request never runs, an answer is dropped; a read in     *)
(* progress goes on without a callback, a running job to its completion.   *)
Cancelled(r) ==
  IF kind[request[r].cell] # "package" /\ request[r].stage = "running"
  THEN [request[r] EXCEPT !.live = FALSE]
  ELSE IF request[r].stage = "running" THEN request[r] ELSE Free

\* Mutant: for a cell that is not loaded the load is cancelled and that is all.
ProcessUnloadOfLoaded ==
  /\ phase = "unloads" /\ UnloadsOpen
  /\ LET c == unloadQueue[FirstUnload]
     IN  /\ unloadQueue' = SelectSeq(unloadQueue, LAMBDA d : d # c)
         /\ active' = [active EXCEPT ![c] = None]
         /\ request' = [r \in Request |-> IF active[c] = r THEN Cancelled(r) ELSE request[r]]
         /\ layerOp' = Abandon(c)
         /\ IF state[c] = "Loaded"
            THEN /\ state' = [state EXCEPT ![c] = "Unloading"]
                 /\ unload' = [unload EXCEPT ![c] = [stage |-> "queued", package |-> c \in mapped]]
            ELSE UNCHANGED <<state, unload>>
  /\ UNCHANGED <<files, zone, events, frame, loadQueue, completions, packages, entry, layerRead>>

ProcessCellUnload ==
  /\ phase = "unloads" /\ UnloadsOpen
  /\ LET c == unloadQueue[FirstUnload]
     IN  /\ unloadQueue' = SelectSeq(unloadQueue, LAMBDA d : d # c)
         /\ \/ /\ state[c] = "absent"
               /\ UNCHANGED <<state, active, unload, request, layerOp>>
            \/ /\ state[c] # "absent"
               /\ active' = [active EXCEPT ![c] = None]
               /\ request' = [r \in Request |-> IF active[c] = r THEN Cancelled(r) ELSE request[r]]
               /\ layerOp' = Abandon(c)
               /\ state' = [state EXCEPT ![c] = IF @ = "Loaded" THEN "Unloading" ELSE @]
               /\ unload' = [unload EXCEPT ![c] = [stage |-> "queued", package |-> c \in mapped]]
  /\ UNCHANGED <<files, zone, events, frame, loadQueue, completions, packages, entry, layerRead>>

UnloadsEnd ==
  /\ phase = "unloads" /\ ~UnloadsOpen
  /\ GoTo(IF draining THEN "commit" ELSE "calls")
  /\ UNCHANGED <<files, zone, events, state, queues, active, unload, request, completions, packages, layers>>

(* EnforceMemoryBudget, at the end of the frame: the cells the policy      *)
(* chooses are unloaded at once.                                           *)
Evict ==
  /\ phase = "calls" /\ Event
  /\ \E cells \in SUBSET Loaded \ {{}} : QueueUnload(cells)
  /\ GoTo("unloads")
  /\ UNCHANGED <<files, zone, state, loadQueue, active, unload, request, completions, packages, layers>>

-----------------------------------------------------------------------------
(* The workers.  Load jobs have priority High, unload jobs Normal.         *)
Take(r) ==
  /\ request[r].stage = "queued"
  /\ request' = [request EXCEPT ![r].stage = "running"]
  /\ UNCHANGED <<files, zone, events, frame, state, queues, active, unload, completions, packages, layers>>

(* LoadPackage succeeds or not, and its job is done.                       *)
LoadPackage(r) ==
  LET c == request[r].cell
  IN  /\ request[r].stage = "running" /\ kind[c] = "package"
      /\ \E fault \in BOOLEAN :
           /\ Fails(fault)
           /\ refs' = [refs EXCEPT ![c] = IF fault THEN @ ELSE @ + 1]
           /\ completions' = Complete(c, IF fault THEN "fail" ELSE "load")
      /\ request' = [request EXCEPT ![r] = Free]
      /\ active' = [active EXCEPT ![c] = IF @ = r THEN Done ELSE @]
      /\ UNCHANGED <<files, zone, frame, state, queues, unload, mapped, layers>>

(* The read or decompression ends; a cancelled one has no callback.        *)
Answer(r) ==
  /\ request[r].stage = "running" /\ kind[request[r].cell] # "package"
  /\ \E fault \in BOOLEAN :
       /\ fault => request[r].live
       /\ Fails(fault)
       /\ request' = [request EXCEPT ![r] =
            IF @.live THEN [@ EXCEPT !.stage = "answered", !.ok = ~fault] ELSE Free]
  /\ UNCHANGED <<files, zone, frame, state, queues, active, unload, completions, packages, layers>>

TakeUnload(c) ==
  /\ unload[c].stage = "queued"
  /\ \A r \in Request : ~(request[r].stage = "queued" /\ kind[request[r].cell] = "package")
  /\ unload' = [unload EXCEPT ![c].stage = "running"]
  /\ UNCHANGED <<files, zone, events, frame, state, queues, active, request, completions, packages, layers>>

\* Mutant: the package of the cell, whether or not a load of it was committed.
UnloadAnyPackage(c) ==
  /\ unload[c].stage = "running"
  /\ refs' = [refs EXCEPT ![c] = IF kind[c] = "package" /\ @ > 0 THEN @ - 1 ELSE @]
  /\ unload' = [unload EXCEPT ![c].stage = "done"]
  /\ completions' = Complete(c, "unload")
  /\ UNCHANGED <<files, zone, events, frame, state, queues, active, request, mapped, layers>>

UnloadPackage(c) ==
  /\ unload[c].stage = "running"
  /\ refs' = [refs EXCEPT ![c] = IF unload[c].package /\ @ > 0 THEN @ - 1 ELSE @]
  /\ unload' = [unload EXCEPT ![c].stage = "done"]
  /\ completions' = Complete(c, "unload")
  /\ UNCHANGED <<files, zone, events, frame, state, queues, active, request, mapped, layers>>

ReadLayer(c) ==
  /\ layerRead[c] \in {"queued", "running"}
  /\ layerRead' = [layerRead EXCEPT ![c] = IF @ = "queued" THEN "running" ELSE "answered"]
  /\ UNCHANGED <<files, zone, events, frame, state, queues, active, unload, request, completions, packages,
                 entry, layerOp>>

-----------------------------------------------------------------------------
Call ==
  \/ CameraMoves \/ UnloadAll
  \/ \E c \in Cell : LoadCell(c) \/ UnloadCell(c) \/ ReloadCell(c) \/ LoadCellLayer(c) \/ UnloadCellLayer(c)

Frame ==
  \/ BeginFrame \/ CallbacksEnd
  \/ \E r \in Request : CellCallback(r)
  \/ \E c \in Cell : FinishLayerLoad(c)
  \/ CommitFailure \/ CommitUnwanted \/ CommitLoad \/ CommitUnload \/ CommitEnds
  \/ UpdateStreaming
  \/ \E c \in Cell : ProcessCellLoad(c)
  \/ LoadsEnd \/ ProcessCellUnload \/ UnloadsEnd

Work ==
  \/ \E r \in Request : Take(r) \/ LoadPackage(r) \/ Answer(r)
  \/ \E c \in Cell : TakeUnload(c) \/ UnloadPackage(c) \/ ReadLayer(c)

Next == Call \/ Frame \/ Evict \/ Work

(* Frames go on for ever, and some worker takes what is queued.            *)
Fairness == WF_vars(Frame) /\ WF_vars(Work)

Spec == Init /\ [][Next]_vars /\ Fairness
-----------------------------------------------------------------------------
Occurrences(c, what) == Cardinality({i \in DOMAIN completions : completions[i] = [cell |-> c, what |-> what]})

(* A loaded cell, a finished load that waits for its commit, and an unload *)
(* that has still to release each have a reference of their own: no order  *)
(* of loads and unloads of one cell releases a package that is in use.     *)
ReferencesCovered ==
  \A c \in Cell : kind[c] = "package" =>
    refs[c] >= Occurrences(c, "load")
               + (IF state[c] = "Loaded" THEN 1 ELSE 0)
               + (IF unload[c].package /\ unload[c].stage \in {"queued", "running"} THEN 1 ELSE 0)

(* A layer's read has its operation, and so its buffer, until the callback *)
(* has run; an entry that says Loading has a read that will answer for it. *)
LayerReadsOwned ==
  \A c \in Cell : /\ layerRead[c] # "none" <=> layerOp[c] # "none"
                  /\ entry[c] = "Loading" => layerRead[c] # "none"

(* When the game rests and nothing more fails, the near cells with data    *)
(* come to stay loaded and the far ones to stay unloaded, and none is left *)
(* loading, unloading or with a layer loading, in whatever order the       *)
(* earlier loads and unloads of it end or are cancelled.                   *)
Converges ==
  <>[]\A c \in Cell :
    /\ zone[c] = "near" /\ (kind[c] # "missing" \/ placeholders) => state[c] = "Loaded"
    /\ zone[c] = "far" => state[c] # "Loaded"
    /\ state[c] \notin {"Loading", "Decompressing", "Unloading"} /\ entry[c] # "Loading"

Quiet ==
  /\ completions = << >> /\ loadQueue = {} /\ unloadQueue = << >>
  /\ \A r \in Request : request[r] = Free
  /\ \A c \in Cell : active[c] = None /\ unload[c] = NoUnload

(* Said of UnloadAll (streaming_manager.cpp:1391) and of a load whose cell *)
(* is unloaded meanwhile (:585): no package reference leaks.  Once nothing *)
(* is in flight, the packages held are those of the mapped cells.          *)
NoReferenceLeaks ==
  Quiet => \A c \in Cell : refs[c] = IF c \in mapped THEN 1 ELSE 0
=============================================================================
