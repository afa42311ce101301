SPECIFICATION MCSpec
CONSTANTS
  Units = {"files"}
  IOWorker = {"io"}
  DecompressionWorker = {"unpack"}
  Pools <- MCPools
  Submittable <- MCSubmittable
  MaxPending = 2
  MaxReads = 1
  MaxRequests = 1
  MaxStarts = 1
  e1 = e1
  v1 = v1
  p1 = p1
  p2 = p2
  Absent = Absent
  Entity = {e1}
  Visual = {v1}
  Pose = {p1, p2}
  Mode = "Reliable"
  KeyframeFallbackThreshold = 2
  MaxInFlight = 3
  AckCapacity = 2
  MaxRecords = 2
PROPERTY ShutdownReturns
CHECK_DEADLOCK FALSE
