SPECIFICATION Spec
CONSTANTS
  c1 = c1
  c2 = c2
  Cell = {c1}
  Kinds = {"package"}
  Layered = {}
  Request = {1, 2, 3}
  MaxLoads = 1
  MaxUnloads = 1
  MaxStarts = 1
  UploadBudget = 1
  MaxEvents = 3
  None = None
  Done = Done
INVARIANTS NoReferenceLeaks

