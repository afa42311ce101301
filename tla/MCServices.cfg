SPECIFICATION ServicesSpec
CONSTANTS
  Units = {"assets", "guest", "tasks", "pool", "files", "bundles", "budget", "interest", "detail",
           "objects", "messages", "grid", "terminal", "level", "bodies", "wasm"}
  pkg1 = pkg1
  pkg2 = pkg2
  name = name
  Package = {pkg1, pkg2}
  Name = {name}
  Contents <- BothHaveIt
  Loader = {1, 2}
  MaxAssetCalls = 4
  Caps = {"Actuate", "Comms", "Sense", "Log", "Tasks"}
  PolicyCaps = {"Actuate", "Comms", "Observe", "Log", "Tasks", "Sense"}
  MaxHostCalls = 2
  MaxComms = 1
  MaxLogs = 1
  MaxScans = 1
  LogRingCapacity = 1
  ObjectiveSize = 2
  MaxTicks = 2
  Fuel = 8
  MemoryBytes = 6
  StackSlots = 4
  CallDepth = 2
  MaxRunHostCalls = 1
  HostCallFuel = 2
  WordSize = 16
  HalfSize = 8
  EntityListHeader = 2
  EntityIdSize = 2
  ArgsSize <- Takes
  ResultSize <- Returns
  Windows <- SomeWindows
  MaxRuns = 2
  a = a
  b = b
  s1 = s1
  s2 = s2
  ev = ev
  Task = {a, b}
  Step = {s1, s2}
  Event = {ev}
  NoStep = NoStep
  NoFile = NoFile
  Definitions <- Quests
  MaxInstances = 2
  MaxTaskCalls = 7
  AddressSize = 16
  Bases = {2, 3}
  PoolSize = 8
  MaxAllocations = 4
  Sizes = {0, 1, 2, 3, 8, 15}
  Alignments = {0, 1, 2, 3, 4}
  Blobs <- AssetFiles
  CellChunks <- CellFiles
  NoChecksum = NoChecksum
  Refused = Refused
  LargestField = 63
  LargestSize = 255
  HalfIndex = 7
  MaxDamage = 2
  BundledCell = {"near", "far"}
  Directories <- Folders
  BundlePaths <- BundleFolders
  MaxBundles = 3
  MaxConfigs = 3
  NoPath = NoPath
  HeldCell = {1, 2}
  CellBytes <- Bytes
  MemoryLimit = 2
  EvictionPercent = 90
  UnloadSlots = 1
  MaxFrames = 5
  MaxPins = 1
  MaxInterestPoints = 3
  RefreshEvery = 2
  Durations = {0, 1, 2}
  MaxInterestCalls = 4
  MaxInterestFrames = 3
  LodCell = {"x", "y"}
  LodObject = {"m", "n"}
  ObjectLevels <- LevelsOfDetail
  HlodLevelCount = 2
  BillboardSlots = 2
  FrameTimes = {1, 3}
  TargetFrameTime = 2
  FrameSamples = 2
  MinQuality = 99
  MaxQuality = 101
  MaxLodCalls = 4
  Field = {"k", "l"}
  Scalars <- SomeScalars
  Exact = 16
  NotANumber = 99
  MaxWrites = 4
  MaxLost = 1
  Messages <- MessagesSent
  Foreign <- OtherEncodings
  Pieces = {1, 2, 7}
  MaxMessages = 2
  Events <- RedrawEvents
  GridWidth = 2
  GridHeight = 3
  MaxEvents = 5
  MaxSurfaceCalls = 3
  MaxRedraws = 1
  MaxLevelEntities = 5
  NotFinite = 99
  Ref = {0, 1, 2}
  PartChoices <- PartsToAttach
  LevelObjectives <- ObjectivesToAdd
  WinConditions <- SomeConditions
  HandMade <- Levels
  Places = {1, 5}
  MaxBuildCalls = 5
  MaxLevelEvents = 3
  PhysicalEntity = {1, 2}
  BodyDescs <- SomeBodies
  Pushes <- SomePushes
  StartPlaces <- SomePlaces
  Targets <- SomeTargets
  Gravity <- Down
  MaxPhysicsCalls = 5
  Images <- WasmImages
  GuestPolicies <- SomePolicies
  PageSize = 2
  FrameBytes = 2048
  MaxArenaBytes = 50
  HostWindows <- SomeHostWindows
  Operands <- SomeOperands
  MaxLoads = 2
  MaxGuestRuns = 2
INVARIANTS BlocksApart HandlesCounted GuestContained TasksSound SurfaceSound WorldRulesKept PartsFaithful
PROPERTIES DeadDoNothing
CHECK_DEADLOCK FALSE
