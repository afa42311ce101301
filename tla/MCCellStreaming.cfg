SPECIFICATION MCSpec
CONSTANTS
  c1 = c1
  c2 = c2
  Cell = {c1, c2}
  Kinds = {"package", "raw", "packed", "missing"}
  Layered = {c1}
  Request = {1, 2, 3}
  MaxLoads = 1
  MaxUnloads = 1
  MaxStarts = 1
  UploadBudget = 1
  MaxEvents = 2
  None = None
  Done = Done
INVARIANTS ReferencesCovered LayerReadsOwned
PROPERTIES Converges
