# Verification of the Blame Engine core

Blame Engine (the repository's `README.md` calls it *Blame Engine*, namespace `Next`) is a headless,
authoritative world engine in C++17: a fixed-step simulation owns the world, a render client
(UE5, a terminal, a test) mirrors it through a narrow boundary, untrusted programs run in a
sandbox and act on it only through a metered Game API, and a streaming layer keeps the part
of the world around the interest sources in memory.

This directory holds the TLA+ specifications kept beside that code: what each module models,
what TLC checks on small instances, and what TLAPS proves for every value of the constants.
`PROJECT.json` is the index: components, runs, the source lines every definition stands for, a
mutation of the code that each checked property catches, findings, hazards and theorems.

Paths below are relative to the repository root.

## 1. The system

The last column names the modules; a dash means that nothing of the part is modelled (section 6).

| Component | State it keeps | Operations | What makes it hard | What makes it correct | Module |
|---|---|---|---|---|---|
| Triple buffer, `engine/boundary/.../triple_buffer.h` | three slots, producer's and consumer's index, one atomic word (index and fresh bit) | `Write`, `Publish`, `Acquire` | two threads and no lock; `Acquire` is a load and a later exchange | no slot shared, no frame torn, never an older frame, the last frame arrives | `TripleBuffer` |
| SPSC ring, `spsc_ring.h` | slots, two free-running counters | `Push`, `Pop` | two threads and no lock, counters that wrap | a bounded FIFO: nothing overwritten, lost, repeated, reordered | `SpscRing` |
| Snapshot publisher and receiver, `snapshot_*.cpp` | baseline, in-flight history, next sequence / mirror, applied sequence | `BuildDelta`, `Acknowledge` / `Apply`, `Reset` | blocks and acknowledgements lost, late, repeated | the mirror is a render set the world had; both ends find together again after any loss | `SnapshotProtocol`, `SnapshotReplication`, `SnapshotSession` |
| Datagram transport, `datagram_transport.cpp` | pending and held snapshot, queues of events, commands and acknowledgements | the sends, and `Acquire`/`Pop` calls that drain the link first | every taking call drains datagrams of every kind | same register as the triple buffer; what arrived is handed over once and in order | `DatagramTransport` |
| UDP socket, wire codec | none of the protocol's | `Send`, `Recv`, encode, decode | datagram size limit, ignored results | a block arrives whole or not at all | in `SnapshotSession` |
| Job system, `engine/jobsystem` | three queues, per job: flags, unmet dependencies, dependents | `Submit`, `Cancel`, `Wait`, `WaitFor`, `WaitForAll`, `Pump`, `Initialize`, `Shutdown`, workers | many threads, flags outside of locks, shutdown at any time | a job runs once and after its dependencies; nobody waits for ever | `JobSystem` |
| Asynchronous IO, `engine/world/src/async_io.cpp` | two queues, completion queue, map of active requests, counters | `SubmitRequest`, `CancelRequest`, `CancelAllRequests`, `Update`, `Shutdown`, workers | cancellation races a worker or the callbacks of the same frame | one callback per request or none, exact counters, no worker left behind | `AsyncIO` |
| Streaming memory pool (same file) | blocks and tombstones | `Allocate`, `Free`, `Defragment` | holes below the top | live blocks disjoint, space comes back | `MemoryPool` |
| Streaming manager, partition, `engine/world/src` | cell states, queues, active loads and unloads, layers, deferred commits, package references | `UpdateStreaming`, `LoadCell`, `UnloadCell`, `ReloadCell`, `UnloadAll`, completions | jobs, IO callbacks and frames interleave; a cell is wanted again while it goes | references cover what is in use, no buffer freed under a read, cells settle | `CellStreaming` |
| Cell index and bundles (same files) | maps and sets by cell and by bundle | `LoadAssetBundle`, `UnloadAssetBundle`, `SetConfig` | bundles that hold the same cells, in any order | maps agree on who serves a cell | `BundleIndex` |
| Budget and eviction, interest, detail | pins, load times; points and regions; clusters, impostors, quality | per-frame evaluation, handles | unloads under way, expiry, restarts | nothing protected goes, ids name living points, handles are whole | `MemoryBudget`, `InterestManager`, `LodSystem` |
| Entity world, `engine/runtime` | versions, free list, archetype rows and columns, locations | create, destroy, add, remove, get | swap removal moves other entities; stale handles; version wrap | rows and locations agree; an operation on one entity leaves the others alone | `EntityWorld` |
| Asset manager, `engine/runtime/asset` | packages, assets, reference counts, finished loads | load and unload of packages and assets, asynchronous loads, callbacks | files read outside the lock | references match the handles given out | `AssetManager` |
| Packages and cell files, `runtime/asset`, `tools/assetc` | files | compile, package, pack, read | cut and altered files, with and without checksums | what was packed is read, or nothing | `CookedFiles` |
| Task executor, `engine/task` | instances, subscriptions, a saved file | start, update, complete, fail, abandon, events, replan, save, load | callbacks change the containers being walked | one step runs, what changed is saved | `TaskExecutor` |
| Game API, `engine/gameapi` | quota of the tick, queued intents, objectives, signals | host calls, `BeginTick`, `Apply` | order of checks and charges; entities destroyed in between | no program acts without capability or beyond its quota | `GameApi` |
| Sandbox, `engine/sandbox` | VM state, fuel / rewritten wasm module | run, host call, metering | every way out accounts for the fuel; a charge one byte aside | bounded work, exact accounting | `RefVm`, `WasmGuest` |
| Level, `engine/level` | builder's document, objectives | build, validate, load, evaluate | references by position, two passes | an accepted level loads whole; wins are of living entities | `Level` |
| Physics and actuation, `engine/physics`, `engine/gameplay` | bodies, map from entities to bodies | sync, step, move, rays | components replaced between updates | one body per component, a move arrives once | `PhysicsBodies` |
| Water and vegetation, `engine/water*`, `engine/vegetation*` | resident cells, grid, felled plants; authored scenes | sync with the layers, queries; parse, validate, cook, merge | bodies shared by cells; damage of a layer | the store is what the resident cells hold; a reader finds what the author said | `ResidentStore`, `CellCook` |
| Script system, `engine/script` | scripts with environments in registry slots, components | load, reload, call, enable, remove | a failure at any point of a text or callback | callbacks in order, a slot has one owner | `ScriptSystem` |
| Serialization, `engine/serialization` | writers, a document or a file | the same calls write and read | short files, characters, conversions | values whole or not at all | `Serialization` |
| Terminal surface, `engine/terminal` | stream, grid, a child process and its pipes | `Pump`, `Request`, `Start`, `Shutdown` | late answers, restarts, streams cut anywhere | an answer reaches its call, the grid shows what was drawn | `Msgpack`, `NvimSurface` |
| Render clock, event bus, systems, log, profiler, compression, platform, tools | their own | wrappers, output | - | - | - |

### How they interact

- The simulation thread runs jobs and systems over the **entity world**, builds a block from its
  render set with the **publisher** and sends it through a transport: in process the **triple
  buffer** (blocks) and three **SPSC rings** (events, commands, acknowledgements), or between
  processes the **datagram transport**. The view applies blocks to its mirror and sends the
  sequence it holds back as an acknowledgement, from which the publisher takes its baseline.
- The **streaming manager** calls the **partition** for cell states, asks the **cell index** for
  files and the **eviction policy** for what may go, submits load and unload jobs to the **job
  system**, whose tasks load packages through the **asset manager**, and reads of layers to the
  **asynchronous IO**, whose callbacks run on the frame thread. The bytes it reads were written by
  the **asset compiler**, and by the **water** and **vegetation** cooks.
- **Water** and **vegetation** stores follow the streaming layers by a generation number, once a
  frame. **Physics** follows the rigid-body components of the entity world.
- The **sandbox** calls the **Game API**, which queues intents; the resolver applies them to the
  entity world at the end of the tick, and **gameplay** turns movement intents into physics.
  **Tasks** and **levels** read and create the same entities.

## 2. Modules

| Module | Stands for | Remarks |
|---|---|---|
| `LatestValue` | what a frame channel promises: a register with a fresh flag | abstract |
| `TripleBuffer` | `triple_buffer.h` | refines `LatestValue`; proofs in `BoundaryProofs` |
| `BoundedFifo` | what an event, command or acknowledgement channel promises | abstract |
| `SpscRing` | `spsc_ring.h` | refines `BoundedFifo`; proofs in `BoundaryProofs` |
| `SnapshotProtocol` | the publisher and the receiver as operators on records: `Block`, `AfterBuild`, `Acknowledge`, `Apply` | used by the two below |
| `SnapshotReplication` | both ends over a path that delivers any block or acknowledgement ever sent, any number of times | safety; proofs in `SnapshotProofs` |
| `SnapshotSession` | both ends at their call sites, a newest-only frame channel, an acknowledgement ring, a message size limit | liveness, numbers renamed to ranks; proofs in `SnapshotProofs` |
| `DatagramTransport` | `datagram_transport.cpp`, both ends | the view's end refines `LatestValue`; proofs in `BoundaryProofs` |
| `JobSystem` | `job_system.cpp`, `job_system.h`, `job.h` | one access to shared state per step; proofs in `JobSystemProofs`, on queues in `QueueLemmas` |
| `AsyncIO` | `AsyncIOSystem` of `async_io.cpp` | one critical section per step; proofs in `AsyncIOProofs` |
| `CellStreaming` | `streaming_manager.cpp`, `world_partition.cpp`: cells with their package, raw file and one layer | a frame is cut where a callback or a job may come in between; proofs in `CellStreamingProofs` |
| `EntityMap` | what the entity world promises: a map from handles to components | abstract |
| `EntityWorld` | `world.cpp`, `world.h`, `archetype.h`, `entity.h` | refines `EntityMap`; proofs in `RuntimeProofs` |
| `AssetManager` | `asset_manager.cpp` | loads on any thread, one critical section per step; proofs in `RuntimeProofs` |
| `GameApi`, `RefVm` | `engine/gameapi`; `ref_vm.cpp` and the gateway | `RefVm` EXTENDS `GameApi`: a host call is a call of the API; proofs in `GuestProofs` |
| `WasmGuest` | `wasm_meter.cpp`, `wasm3_sandbox.cpp` | bodies are bytes; wasm3 itself is external |
| `TaskExecutor` | `task_system.cpp` | the walks of `Update` and `ProcessEvent` have their position as state; proofs in `RuntimeProofs` |
| `MemoryPool` | `StreamingMemoryPool` of `async_io.cpp` | word arithmetic; proofs in `AsyncIOProofs` |
| `BundleIndex`, `MemoryBudget`, `InterestManager`, `LodSystem` | the rest of `engine/world/src` | `MemoryBudget` EXTENDS the other three and composes them (`WorldNext`); proofs in `CellStreamingProofs` |
| `CookedFiles` | `package_container.cpp`, `layered_cell_file`, the compiler's headers | words of small fields |
| `Serialization` | `serialization.cpp` | JSON characters by class, binary words |
| `Level` | `engine/level` | |
| `PhysicsBodies` | `physics_system.cpp`, the reference world, `engine/gameplay` | whole numbers on two axes; proofs in `RuntimeProofs` |
| `ResidentStore` | the resident water and vegetation stores and their `Sync` | |
| `CellCook` | definitions, builders, validators, cell formats and cooks of water and vegetation | one pure function per stage |
| `ScriptSystem` | `script_system.cpp` with Lua | Lua is external; one visit of a loop over the components per step; proofs in `GuestProofs` |
| `Msgpack`, `NvimSurface` | `nvim_surface.cpp` | the editor is external; proofs of the surface in `GuestProofs` |

`MC...` modules and configurations hold the instances TLC checks; `DatagramTransport` is checked as
it stands. `MCJobSystem` and `MCCellStreaming` are about one component each. The others put
several into one run:

- `MCWorldMirror` has `EntityWorld`, `SnapshotReplication` and a graph of jobs of `JobSystem`. What
  passes between the first two is the render set, which the replication takes to be any set at all;
  jobs have nothing to do with either.
- `MCAsyncIO` has `AsyncIO` and `SnapshotSession`, each with its own fairness; `Units` says which of
  them a configuration runs.
- `MCParts` and `MCServices` hold components that share no state and no thread of control with each
  other. A behaviour is one of them, named by `part` or `unit` in the initial state; the variables
  of the others stand still. The states of such a run are the sum, and not the product, of those of its
  components. `MCServices` has a constant `Units` as well: `MCEvictNear.cfg` runs the budget alone. A property that holds of a component while it stands still is listed as it is
  (`SurfaceSound`, `ScriptsSound`, ...); the others are the conjuncts of `PartsFaithful` and
  `StoresExact`, guarded by that name. Each is defined and explained in its component's module.
  `WorldRulesKept`, at the end of `MemoryBudget`, joins what `StreamingManager` owns beside its
  cells: bundles, budget, interest and detail.

### State and steps

**TripleBuffer.** `mid_`, `write_`, `read_` are variables of their own. A frame is two words, and
`BeginWrite`, `EndWrite` write one each, so a frame that is torn shows. `Publish` is one atomic
exchange; `Acquire` is `Poll` (the load, which may end the call) and `Claim` (the exchange).

**SpscRing.** `Push` is `PushBegin` or `PushFull` (the comparison with `tail_`), the filling of the
slot in two halves, and `StoreHead`; `Pop` likewise. Counters have `Width` bits and wrap.

**Snapshots.** A map from entities to a visual and a pose is a render set; a block carries the
difference of two such maps, with the baseline's number. `SnapshotReplication` sends blocks into a
set from which nothing is taken: every order, loss, delay and repetition is an execution of it,
so is every transport. `SnapshotSession` adds what liveness needs: a simulation that ticks and a
view that renders. It renames the sequence numbers in use to their ranks after each step, which
the protocol cannot see: it compares them and tests them for zero.

**DatagramTransport.** A call begins, takes one datagram per step while more may arrive, and
finishes when it finds the link empty. `Arrive` delivers any datagram sent so far.

**JobSystem.** Every thread is a program counter and its locals; client threads make the calls of
the instance, workers run the loop. `Buffered` says that the store to `started` may become visible
to others after the storing thread's next load, as the code's release store and acquire load allow.
Jobs live as long as some handle, queue or thread refers to them: a dependent is a weak pointer.

**AsyncIO.** The calling thread is the frame thread; its calls are split where they leave
`queueMutex_`, `completionMutex_` or the map. `PredicateFalse` and `FallAsleep` are the two halves of a
condition variable's wait: the predicate is evaluated under the mutex, which is given up when the
thread sleeps. Callbacks may submit and cancel. Without threads, `Update` pumps.

**CellStreaming.** A frame is `BeginFrame`, the callbacks of finished reads (`CellCallback`,
`FinishLayerLoad`), the commits of completions within the upload budget (`CommitLoad`,
`CommitUnload`, ...), `UpdateStreaming` with its requests and evictions, and the starts of loads and
unloads (`ProcessCellLoad`, `ProcessCellUnload`). Jobs and reads end between any two of these steps.
Jobs are taken in the order of their priorities. Operations of one cell are not named in the code
either: a completion is matched to its cell. `refs` is what the asset manager counts for the cell's package.

**EntityWorld.** One thread, so an operation is a step. `store` holds rows, columns and
locations; adding and removing components is `MigrateEntity`: append to the new table, remove by
swap from the old one, correct two locations. A caller may pass every handle ever returned.

**AssetManager.** A load is a lookup under the lock, a read outside of it, an insertion under the
lock; two loaders do this at once. `handles` is the history of what callers were given and have not
returned, which the reference counts are compared with.

**GameApi, RefVm.** The code is any code: each step is any instruction, with any operands at the
limits of a word, and a run's state is its stack height, its frames and what the host accounts for. A host call goes through gateway and dispatcher to the call of the API.

**WasmGuest.** `LoadModule` rewrites an image: the skipping of immediates, the straight runs, the
charges and their splicing, the gas function, the indices and the export. The machine then takes any
branch through the metered bodies. Nothing in the code looks at an image's indices: its own code may store to the fuel
global (`SetsFuel`) or call the gas function, directly or through a table (`ChargesItself`).
`paid` is the history of what was charged, against what is reported, and of whether the image did so.

**TaskExecutor.** Definitions are data (their conditions are constants); `Update` visits one instance
per step, so that what a completion starts or ends is seen by the rest of the walk. `saved` is the file.

**MemoryBudget.** A frame moves the camera, ends loads and unloads, asks for cells, and serves the queue of
unloads and the budget. `queuedAs` is the history of what a cell was when it was queued to go: beyond the
unload radius, protected (near or pinned), or free; its turn may come frames later.

**ResidentStore.** Which cells mention a body, and what the store says of it, are two things: of a
body that several cells mention it keeps what the first one said (`ReloadReplaces` states what a reload changes).

**CellCook.** A text, or the same calls on a builder, gives a scene or an error; the validator, the
cook, the packing and the merge into a cell's file follow as functions; then a reader unpacks it, also
with a damaged word. A hash is one fixed function; draws that no property tells apart are left out.
`authored` is the history of the last scene and plants cooked for a cell, and of which layers the writes since
have kept: a vegetation cook, or a write that fails, keeps no water.

The remaining modules are of one thread: an operation is a step, and each module's header says
what its values stand for.

## 3. Runs

| Run | States | Instance | Question |
|---|---|---|---|
| `parts` | 163,823 | triple buffer: 5 frames; ring: 3-bit counters, 4 slots, 11 pushes; stores: 2 cells, 3 loads; cook: 2 cells, 81 texts; scripts: 2 entities | whole frames, arrival, refines register and FIFO; stores equal the resident cells, a reload replaces what is a cell's own; scenes survive cooking; script callbacks and slots |
| `services` | 576,436 | see below | the sixteen components of `MCServices` |
| `world_and_mirror` | 286,957 | 3 handles, versions wrapping after 2, 2 types x 2 values; 1 entity, 2 visuals x 2 poses, 4 snapshots, threshold 2, history 3; 3 jobs (one waits for two), 1 worker, 1 client that pumps, late stores | exact rows, refines the map; the mirror under any delivery, reach of deltas, keyframes heal; dependencies first, under cancel, reset and pump |
| `datagram_view` | 104,031 | 2 snapshots, 2 events, undecodable datagrams, 3 arrivals | register, queues, draining by every call |
| `jobs_lifecycle` | 194,921 | 2 workers, late stores; 2 jobs, one behind the other, and 1 client, or 1 job, 2 clients, 2 starts | runs once, complete after its task or by a cancel; no waiter or worker left asleep |
| `job_lost` | violated | 2 jobs, 1 worker, 1 client | a dependent nobody wakes (finding 1) |
| `job_cancel` | violated | 1 job, 1 worker, 1 client, late stores | a job complete while its task runs (finding 2) |
| `async_io` | 151,242 | 2 requests of 3 kinds, 2 workers or none, 2 starts; a session of 1 entity, 2 poses, 2 acknowledgements in the ring, for ever | one callback, exact counters, quiet buffers, answers; convergence under loss of any acknowledgement |
| `async_shutdown` | violated | 1 request, 2 workers | a worker nobody wakes (finding 3) |
| `cell_streaming` | 353,746 | 2 cells (one with a layer), 3 loads in flight, budget of 1 per frame, 2 calls from outside | references cover use, reads keep their buffers, cells settle |
| `cell_leak` | violated | 1 cell with a package, 3 calls from outside | a package nobody gives back (finding 4) |
| `evict_near` | violated | 2 cells, a budget of 1, 1 slot | a cell evicted beside the camera (finding 5) |

### Bounds, and why they are enough

- *Frames, pushes*: five frames take each of the three slots through every role more than once;
  eleven pushes take a 3-bit counter past its wrap with the ring full on both sides of it.
- *Snapshots*: with a threshold of 2 and a history of 3, four snapshots reach the fallback, the
  trimming of the history, a late acknowledgement of a trimmed state, and a delta after each. One
  entity is enough to tell mirrors apart, because despawns, spawns and updates of different
  entities do not meet; two visuals give the swap that is despawn and spawn in one block. The
  theorems of `SnapshotProofs` have no bound.
- *Sessions* have no bound on their length.
- *Datagrams*: two snapshots in either order, and one arrival more than there are snapshots, so
  that a late and a repeated one both occur. The theorems have no bound.
- *Jobs*: two dependencies that finish at once need two threads that run jobs, a worker and a client that
  pumps, which also cancels. `jobs_lifecycle` begins in a running system with one job in its queue; a second start, and two clients that
  race, need no other job. Everything in `JobSystem` is per pair of threads or of jobs. The
  theorems have no bound, and neither have those of IO, cells, entities, assets, guests, tasks, scripts, pool and ring.
- *IO*: `MaxReads` is 1 and `MaxPending` 2, so that both limits refuse; two requests let a callback
  cancel the other one of its own frame and let one wait behind the other in priority order.
- *Cells*: one near cell and one between the radii compete for one load, one unload and one commit
  a frame; three loads let a cell's own older load end after its newer one; two calls from outside
  (a camera move, a load, unload or reload, of a cell or its layer) come at any moment. All hazards
  the module is for are about two operations on one cell.
- *Entities*: three handles give a row that is first, in the middle, last; `VersionSize` 3 lets an
  index be used, reused, and its first handle come round again.
- *Assets*: two loaders meet in one package; two packages with an asset of one name; four calls.
- *Guests*: a word of four bits, memory of 6, windows at its limits and past its wrap; fuel 8; two runs
  in two ticks share their quotas of one. Metered modules: five that are metered (loops, nested
  blocks, imports of every kind, every immediate that is skipped, growth of memory, an image that meddles with
  its own meter) and twelve refused, each by another check; fuel up to 11.
- *Tasks*: two definitions, one of which follows the other; seven calls reach a replanned task that
  was saved and loaded.
- *Pool*: four allocations of six sizes, also those whose rounding wraps, at two bases.
- *Files*: packages of two assets, at most two words cut or altered; fields of six bits so that sizes
  pass their limits. Objects: eight scalars of every kind, two fields, four calls, one unit lost.
- *World*: three bundles and directories over two cells; a budget of one for two cells, five frames;
  three points, four calls, three frames (a region refresh every second one); two cells with two
  objects.
- *Terminal*: two messages, cut into pieces of 1, 2, 7 bytes or whole; a grid of 2 x 3 and five
  redraw events, some past its edges; three calls, one redraw by each editor.
- *Levels*: five calls of the builder with references to entities 0 to 2, hand-made ones with every
  error; three events (destruction, movement) while playing. *Bodies*: two entities, five calls, rays
  of length 6 from a grid of 3 x 3.
- *Cook*: two cells, 48 texts of water (nine of the 53 scenes they and the builder make are accepted)
  and 33 of plants; between them they reach every code of the validators except the schema version and, for plants,
  `ReservedSpeciesId` and `DuplicateSpeciesId`, which neither text nor builder can produce. Two bodies a cell,
  two waves, two files.
- *Stores*: two cells of a line cut into four buckets, three generations. *Scripts*: one path, two
  configurations, two scripts.

Deadlock is not checked where the bounds stop the system (all frames published, all requests
submitted, both starts used) and where a client may simply stop calling; `cell_streaming` never stops and
is checked for deadlock.

### Fairness

A spinning consumer, a render loop, a tick loop and a frame loop run for ever in this engine, and
operating-system threads run: weak fairness of their steps. Nothing is assumed of who starts
things: producers, publishers of commands, callers of `Submit`, `Cancel`, `Shutdown`, cameras need never
call; a link and an acknowledgement channel may lose everything. Strong fairness is used twice
where one thread makes several calls in turn, and weak fairness would let it make one of them for
ever: an end of the datagram transport makes each of its calls again and again
(`DatagramTransport`), and the frame thread gets round to `Update` and ends a callback however
many requests it submits or cancels (`AsyncIO`). In `CellStreaming` frames go on and some worker takes
what is queued; which load is started, taken or answered first is left open. Condition variables do not
wake spuriously in the liveness runs: an implementation need not. `MCServices` states no liveness.

## 4. What is proved

TLAPS, for every value of the constants that meets the modules' assumptions. With the exceptions
named at the end of this section, every invariant and action property that a run checks is a
theorem as well. Each proof is of an inductive invariant that TLC was asked about first.

- **Triple buffer** (`BoundaryProofs`): types, exclusion, whole frames, stability of the held
  frame, freshness, monotonicity, and that it implements `LatestValue`. The invariant adds to the
  disjointness of the three indices what each slot holds: only the producer's may be half written,
  the shared one is the newest frame while the fresh bit is set, the consumer's is once it has been
  taken, and `cons = "claim"` implies the fresh bit, since only the consumer clears it. Without the
  last conjunct the exchange in `Acquire` could fetch an old slot and the invariant is not inductive.
- **Datagram transport** (`BoundaryProofs`): the view's end implements `LatestValue`, the newest
  snapshot drained is pending or held, only `AcquireSnapshot` changes the held block, and
  `NothingLost`. For the register the invariant is that the pending block, or the held one without a
  pending one, carries the high-water mark `highestSeq_`. For the queues: what was handed over, then
  what is queued, is what was drained of a kind, in the order of arrival. The proof counts drained
  datagrams of a kind by their places on the link and the k-th of them is the k-th handed over.
- **SPSC ring** (`BoundaryProofs`): `FifoSpec`, so nothing is lost, repeated or reordered, and
  `NoOverwrite`: a push never writes the slot being copied. The invariant: the distance of the two
  wrapped counters, which is what the code compares, is the number of items waiting; the i-th of them is
  in the i-th slot from the tail, and a push under way has room. That slots are distinct across the wrap
  needs that the capacity divides the modulus. Both are powers of two in the code, and the
  provers know no powers: the consequence is the named assumption `PowersDivide`,
  which TLC evaluates for the instance. A capacity that did not divide 2^64 would make it false, and the ring wrong.
- **Snapshot protocol** (`SnapshotProofs`): types, `MirrorFidelity`, `StallBounded`,
  `NeverBackward`, `NewestKeyframeApplies`, for any set of entities, visuals and poses, any number
  of snapshots, threshold and history length, and both delta modes. The argument: a history
  variable `built` says which render set each sequence number was built from; every block is the
  difference of two entries of it, both ends hold entries under their own numbers, and lemma
  `PatchUndoesDiff` says that applying a difference to its origin gives its target. `StallBounded`
  needs the in-flight history to be a window: the numbers above the baseline, or the newest
  `MaxInFlight` of them, hence the assumption that the threshold is below `MaxInFlight` (32 and 256
  in the code).
- **Snapshot session** (`SnapshotProofs`): `AgreeOnBaseline`. There is no history to compare with,
  since the numbers are renamed at each step; so `Agreed` says of every pair of places that know a
  number (baseline, in-flight entries, block in the channel, mirror) that they know the
  same render set under it. A lemma shows that a renaming which keeps the order of the numbers in use keeps `Agreed`.
- **Job system** (`JobSystemProofs`, `QueueLemmas`): `RunsOnce`, `DependenciesFirst` and `CompletedFirst` (a
  task runs only when all dependencies of its job are completed), for any jobs, dependency graph,
  workers, clients, starts and shutdowns, and with or without late stores. Three
  layers: `RunInv`, the right to run a job is one thing, in a queue or with one thread, and gone
  with the exchange on `started`; `LinkInv`, once a submission has stored its count, this
  is at least the number of completions still to subtract from it, and before, what they
  subtract wraps the counter and does not make it 1; `Alone`, nobody else completes a job whose
  task runs, unless it was cancelled. The exception is what a late store makes necessary (finding 2): so
  `DependenciesFirst` says of the tasks of dependencies that they have ended *unless cancelled*.
- **Asynchronous IO** (`AsyncIOProofs`): `CallbackOnce`, `CountersExact`, `BuffersQuiet`, with or
  without threads. A request is in one place at most (queue, worker, completion queue, the frame's
  batch) and moves along them in that order; it is in the map exactly until its callback; the threads
  that exist are the pool's, which a shutdown joins before it clears what they use.
- **Memory pool** (`AsyncIOProofs`): `BlocksApart`, for any sizes, alignments, base address and
  order of allocations, frees and defragmentations. Blocks and tombstones stack without overlap
  below the top, and what was lent is backed by a block.
- **Cell streaming** (`CellStreamingProofs`): `ReferencesCovered` and `LayerReadsOwned`, for any cells,
  queues, limits per frame, calls and failures. `Covered`: a reference of a cell's package belongs to each
  completion of a load that waits for its commit, to the unload that has to release it, and to the cell,
  while it is loaded or its name is still mapped and no unload took it over. The last case is what
  the invariant needs and the property does not show: a cell asked for again while loaded.
- **Entity world** (`RuntimeProofs`): types, `RowsExact` and `IndicesExact` (theorem `Indices`; no run
  lists it), for any component
  types, values, number of indices and width of the version. The invariant is `WorldTypeOK`,
  `IndicesExact` and the exactness of the store (`StoreInv`: rows and locations name each other, columns
  are as long as their table). Every helper of the code is described once by what it leaves at
  every place: a removal moves only the last row, and `OthersExact` says that its entity is told.
  Exactness is needed in full at each step: the last row's entity can only be told its new row
  if it is tracked, and the row to remove is the entity's own. `IndicesExact` keeps the index of
  a new entity off the living ones; a wrapped version does not matter to it. The refinement `MapSpec`: each
  operation on a handle is the one operation of `EntityMap` on that handle. `ValuesOf` reads an entity's
  components through its location; lemma `OthersKept` says that what a swap removal moves is still read from
  where it went, and a value is set in one entity's place only, because no two entities share one.
- **Asset manager** (`RuntimeProofs`): `HandlesCounted`, for any packages, names, loaders and calls. The
  counts equal the handles and the loads not given back, and a key with a handle is never dropped from the map.
- **Game API and reference VM** (`GuestProofs`): `GuestContained` and `DeadDoNothing`, for any code,
  policy, quotas, sizes and windows. While a run is on, the fuel left and the fuel spent add up to the
  policy's (`Metered`), whichever of its ways out it takes; a window that passes the machine's
  check lies below the memory's size, so that cutting its words to 32 bits changes nothing (`Windowed`;
  this uses that the memory is smaller than 2^32, which the policy's field, a `uint32_t`, gives); and an answer
  of Ok is charged to the tick and to its own quota before it is recorded, while a call that throws is
  charged and records nothing (`Recorded`).
- **Task executor** (`RuntimeProofs`): `TasksSound`, for any tasks, definitions (steps, alternatives,
  next tasks, conditions) and events. Whatever sets the current step comes from an instance that runs
  none or stops the one before it first (`Resting`), and a call only adds instances under ids that were
  not drawn before or changes instances of registered tasks (`Grown`). A step that keeps the
  state clean therefore changes no status and adds no instance; what a clean state has in its file stays there.
- **Script system** (`GuestProofs`): `ScriptsSound`, for any entities, paths, configurations and any
  failure of a text or callback. The slots that hold a table are those of the scripts, one each, and the
  others are exactly the free list (`VmTypes`, `Owned`), so that `luaL_ref` never gives out a slot in
  use; one failed reload breaks this, and the invariant says nothing of slots after it (section 5). A
  component is marked started only if its environment has seen `OnStart`, which no call takes back
  (`StartedFirst`); and the loops of `Initialize` and `Update` visit components that exist.

- **Cell index and bundles** (`CellStreamingProofs`): `NewestServes`, for any cells and bundles. It is
  inductive with the bound on the ids given out (`BundleInv`). Lemma `GreatestNumber`: the bundles left
  of a cell have a newest one, which is the replacement that the loop of `UnloadAssetBundle` finds.
- **Memory budget** (`CellStreamingProofs`): `BudgetKept`, for any cells, budget, slots and priorities: what waits
  to go or is on its way was beyond the unload radius, or neither near nor pinned, when it was queued
  (`QueuedWhenDue`); what is chosen is no younger than what stays (`OldestChosen`); an excess goes as fast as the slots allow
  (`ExcessGoes`). That a cell is far when its unload starts does not hold (finding 5). A cell is used when it is loaded and never after, so the order of eviction is that of loading; a cell is
  not loaded while its unload is under way; and the unloads under way fill no more than their slots.
- **Interest points** (`CellStreamingProofs`): `PointsKept`. Numbers are not given twice (`NumbersFresh`), a point made for
  an actor is the one the actor's slot names, and a region names a point that lives or went after
  the last refresh, which is fewer than `RefreshEvery` frames ago (`RegionsRecent`).
- **Levels of detail** (`CellStreamingProofs`): `DetailKept`, for any objects, cells, levels and handles. A
  handle in use was given by `nextResourceHandle`, which has gone on since (`HandlesGiven`), so that a new one
  is nobody's; 0, the mesh of a rebuilt cluster, is exempt. A level of a cluster divides the triangles of the one
  before; and the level selected falls with neither the distance nor a lower quality.
- **The four together** (`CellStreamingProofs`): `WorldRulesKept`, of any interleaving of the four.
- **Terminal surface** (`GuestProofs`): `SurfaceSound`, for any number of calls, restarts and redraws, any answers of the
  editor and any cut of its stream. The bytes read and those in the pipe are one stream of whole messages
  but for a half at its front that the decoder keeps (`InStep`); every number in it, in the answers and in
  the call is below the next one (`Numbered`), so that a late answer is never that of a later request; an answer
  without an error is in the history of such answers (`Truthful`); and a call gets past a stage with its
  requests answered (`Earned`). The redraws in the stream and those handled are at most those sent
  (`RedrawsCounted`). `Shutdown` clears everything, which is the last conjunct (`NothingLeft`).
- **Physics** (`RuntimeProofs`): `BodiesLinked`, for any entities, calls and moves. Each body is that of one
  entity or lost, and the lost ones are counted with the replaced components that
  the next update is going to lose (`LossesCounted`). A component whose body lives has its own
  entity's (`LiveIsOwned`), and after an update the map, the components and the transforms agree (`Synced`).

Assumptions are in the modules that declare the constants, and TLC evaluates them on the instances: sizes and
bounds are numbers; tasks, cells of the budget, objects and physical entities are finitely many; special values are not members of the sets they are compared with; no scroll ends before the first row
(`NvimScrollAssumption`); and `WidthFits` and
`PowersDivide` of the ring, the threshold of the publisher, and that the block of `Log` has a size (`abi.h`).

Only model-checked:

- All liveness (`LastFrameArrives`, `EveryItemArrives`, `ViewNeverStuck`, `NewestArrives`, `QueuesDrain`,
  `WaitersWoken`, `ShutdownReturns`, `QueueServed`, `Answered`, and `Converges` of sessions and of
  streaming): the proof system has no rule for liveness under fairness and none for ENABLED.
- `PartsFaithful` but for its part `BodiesLinked`, and `StoresExact`. Most of their parts compare what
  a function computes by recursion or by a fold over its data with a reference: the
  files found of a cell (`CellsServed`), packages and headers (`ReadsWhatWasPacked`), objects (`SavedIsRead`), streams of messages
  (`MessagesWhole`), the rows of the grid (`PictureShown`), levels (`LevelSound`), moves of bodies
  (`BodiesMove`), metered modules (`MeterSound`), the cells of a store (`StoresExact`). That is an induction
  over data, and the provers cannot instantiate the induction theorems.
- `ReloadReplaces`, a part of `StoresExact`.

## 5. Findings

1. **A job whose dependency completes during `Submit` is never run** (`job_lost`).
   `job_system.cpp:148` looks at the dependency's flag and registers afterwards; and line 158 stores
   the count after registering, over decrements that came in between.
2. **`Cancel` may report a job complete while its task runs** (`job_cancel`). A worker stores `started` and
   then loads `cancelled` (`job_system.cpp:309`, release and acquire); `Cancel` stores and loads them the other way
   round (`:198`, `:214`). Each may miss the other's store: the job is then complete to who
   waits for it, and its dependents start, while its task runs. `job_system.h:136` calls it a
   no-op to cancel a running job, `:92` says that dependencies complete before a job runs.
3. **`AsyncIOSystem::Shutdown` may never return** (`async_shutdown`). The flag is stored and the
   notification sent without the mutex under which workers evaluate their predicate
   (`async_io.cpp:306`).
4. **A package reference leaks when a cell is unloaded while its load runs** (`cell_leak`). An
   unload is heard by a Loaded cell only (`world_partition.cpp:252`). The load that runs commits the cell
   with its package, and the completion of the unload then forgets the package without giving it
   back (`streaming_manager.cpp:2005`); the comments at lines 585 and 1391 say that it is given back.
5. **A cell is evicted beside the camera** (`evict_near`). `EnforceMemoryBudget` asks what is protected when it
   chooses; `ProcessUnloadQueue` (`streaming_manager.cpp:1636`) starts what was queued, frames later perhaps, and
   does not ask again. `eviction_policy.h:52` says "Never evict high-priority cells", `:53`
   "Never evict within this radius of camera".

The models above show what follows as well. It contradicts nothing the repository says, or has no
run of its own; in that case the sentence that it contradicts is named. Properties that hold
are stated so that they allow for it, and say so: `DependenciesFirst` and `RunsOnce` for jobs that were cancelled,
`BudgetKept` for what a cell becomes while it waits, `MeterSound` for images that meddle with the meter,
`BodiesLinked` for bodies of replaced components, `ReadsWhatWasPacked` for chunks read before a broken
one, `ReloadReplaces` for bodies that cells share, `CellsCooked` for lost layers and the far edge of a cell.

*Boundary.*
- A keyframe of about 1,600 spawn records does not fit a UDP datagram, `datagram_transport.cpp:93`
  drops the result of the send, the view skips every delta, and the fallback builds the same keyframe
  again: the session never recovers.
- `SnapshotPublisher::Reset` starts the sequence again at 1 and nothing names the session: an old
  acknowledgement, still on its way, counts for the new one. No caller resets a publisher that has a view.

*Jobs and IO.*
- Letting go of a job's handle destroys a job that still waits for its dependencies; `job.h:62`
  says that a reset does not affect the job.
- `WaitForAll` (`job_system.h:126`) remembers a count and not the jobs: a job submitted after the call
  and finished counts for one that has not.
- A task that waits for another job occupies its worker (`job_system.cpp:173`); when every worker
  waits, nothing runs. Tasks of the engine do not wait.
- A cancelled request that a worker is reading is no longer counted as outstanding, so more reads may run than the limit.
- After `Defragment` dropped its tombstones, freeing everything may leave `usedSize_` above 0 until the
  next one; a pointer freed twice may free the block of someone else.

*Streaming.*
- A raw read that runs while its cell is unloaded writes into a buffer that goes with the
  erased operation (`streaming_manager.cpp:1989`). The read of a layer keeps its buffer.
- `ReloadCell` ends Unloaded when its unload job ends last; `LoadCell` on a loaded raw cell leaks the
  old block of the pool; a deferred completion of an older load erases the tracking of the newer
  one (`:570`). `UpdateStreaming` asks again for near cells, which is why `Converges` holds all the same.
- Missing near cells are asked for again in each frame and can starve others of the load slots.
- A deferred load in `UnloadAll` blocks the completions of unloads for up to 500 passes.
- A resident cell keeps the data of a bundle that was unloaded; `LoadAssetBundle` itself requests cells again.
- The "least recent use" of the eviction is the time of the load. A cell that was queued because it was beyond the
  unload radius is unloaded too when the camera is back beside it. Cells between the protected and the load radius may be evicted and requested for ever; the notes on
  cells are never erased. The other strategies cannot be chosen.
- `RemoveInterestPoint` leaks its cinematic path; the ids of the camera's and the player's point survive
  `Shutdown`; a region is up to 30 frames old. Rebuilding a cluster leaves its mesh handle 0, and
  `GetHLODMesh` answers with the id of a destroyed cluster. `PredictionSystem` and the load queue of `WorldPartition` are unused.

*Runtime.*
- `AddComponent` on a handle whose entity was destroyed makes it an entity that queries find and
  `DestroyEntity` refuses. `EntityMap` states this as what the world does. A query's callback that
  adds or removes components (`world.cpp:98`) moves rows under the walk.
- `UnloadPackage`'s collection of unreferenced assets never finds one; `OutstandingAsyncOperationCount`
  is 0 for the moment between the end of a load and its answer; `LoadAssetSync` by bare name takes the one
  *loaded* asset of that name even when two packages have one; a load under way still stores its asset
  after `Shutdown`; a handle released twice gives back somebody else's reference (`asset_manager.cpp:757`).
- `WritePackage` ignores failed writes; the constant called 4 GB is 4 TiB; an empty payload's checksum is the
  value that says there is none; fields of a type's header are not covered by it. An asset without
  checksum and with a wrong size is packaged and refused when read. `ParseLayeredCell` leaves what it read in
  `outChunks` when a later chunk fails, though `layered_cell_file.h:67` says "returns false (clearing outChunks)".

*Tasks, game, sandbox.*
- `CheckTaskFailure` (`task_system.cpp:480`) evaluates the failure conditions without asking whether
  there are any: a task without fails at its first update (`data/tasks/simple_tutorial_quest.json:130` is one).
- A step that completes and fails in one update charges the failure to the next step (`:431`). A
  replanned task's step is never started, and nothing marks the state for saving; a step that cannot
  start is not tried again; unregistering a definition leaves pointers to it; `CompleteTask`
  starts followers that are tracked already.
- `SendSignal` and `Log` are charged when recording them throws, and a call of the facade when its result does not fit. An objective's
  progress is an `int32_t` that wraps.
- WebAssembly: `InstrumentWasmForFuel` does not look at the indices an image uses. Its own code can store to the fuel
  global and call the gas function, with a negative cost too, and is then not bounded by fuel; ADR-0012
  says that "no unbounded computation can escape a metered point". Instructions after a branch or an end, up to the next header, are not charged, so work is bounded by the charges
  times the longest body (ADR-0012 says fuel times the longest block). A trap with no fuel left is
  reported as `FuelExhausted`. A host that throws leaves `fuelUsed` and `hostCalls` at 0 and leaks the
  runtime. A bad header leaves the module loaded before in place; a refused instrumentation clears it.
- A rigid-body component replaced between two updates leaks its body, also past `Shutdown` (`components.h:10` says the
  system destroys it). A body pushed out of one static may end inside an earlier one.
- The win conditions of a level loaded into a world that has entities count their tags too.

*Water, plants, scripts.*
- A body mentioned by two cells keeps its old data after both were loaded again with new ones: the
  first in wins, though `water_store.h:39` says "Re-loading a cell replaces its contribution". A malformed reload keeps the old contribution.
- Cooking plants truncates the cell's file and so loses water cooked before, while the water cook
  merges; a write that fails after the truncation loses every layer. `water_cook.h:28` calls a cell's footprint half-open, the
  code takes bodies that touch its far edge. The water cook refuses more bodies than a reader takes; the vegetation
  cook does not ask, so a density of 100 over 512 m gives a layer no reader accepts. The smallest
  spacing holds within a cell and not across its border (`vegetation_def.h:62`).
- In texts, a line without an id keeps the earlier one; `flags` after `flow` clears the current; a builder's setter before the
  first body makes one that the validator refuses.
- A failed reload releases a script's environment while the script keeps its slot; `OnStart` is not called again; a component with
  a run-time error is never enabled again, as nothing reloads; `OnDestroy` is not called for it.
  Destroying an entity leaves its scripts. `executionTimeLimit` is not enforced.

*Serialization, terminal, log.*
- `WriteString` leaves the stream in hexadecimal after a control character; with a signed `char`
  every non-ASCII byte is written as an escape of eight digits; keys are not escaped. 64-bit integers go through a
  double in JSON. The Compact format has no serializer. Smaller reads after a short one take bytes left over.
- `UnpackStream` drops the values before a bad marker. Late answers stay in the surface until
  `Shutdown`. `IsRunning` is true for an exited child nobody waited for, and `Shutdown` then writes to a broken
  pipe. End of file makes `Pump` spin to its deadline. A scroll of part of a row's width clears the whole grid.
- A scroll whose end lies before the first row would run past the rows (`nvim_surface.cpp:732`): `NvimSurface`
  assumes (`NvimScrollAssumption`) that the editor sends none.
- `Logger::Initialize` and `Shutdown` hold the mutex that `Log` locks; only the library's own example calls them.

## 6. Not modelled, and why

- **Queries and systems of the entity world, event bus, command buffer**: they hold no state of
  their own; a command buffer is a sequence of the world's operations.
- **Render clock**: one floating-point value moved towards another and clamped.
- **Floating point**: scores and weights, screen sizes, water surface, buoyancy and forces, turning of bodies.
  Where a module needs a distance or a place it takes whole numbers on a line or two axes.
- **Numbers computed by guests**, results of reads, the assembler and `LoadModule` of the reference VM.
- **Durations, statistics, logs, profiles**; predictive streaming and the manager's own `Shutdown`.
- **Libraries and the operating system**: Lua, Jolt, wasm3, compression, sockets, windows, the Windows
  branch of the terminal. Lua, wasm3 and the editor appear as environments that may do anything their interfaces allow.
- **Importers of OBJ and TGA, the manifest's text, main programs of games and tools** (of these only
  the water and vegetation commands, in `CellCook`), web site and data.
- **Declared and not implemented**: the world serializer.
- **Tasks that call the job system themselves**: none does.

## 7. What is left

In the order of what it would add:

1. Lemmas about single stages of the pure modules: the window arithmetic of `CookedFiles`, the grid's
   scroll in `NvimSurface`, one charge of the metering pass.
2. Compositions: `CellStreaming` over `AsyncIO`'s and `JobSystem`'s abstractions instead of sets of
   operations; the streaming manager with the bytes of its pool.
