SPECIFICATION MCSpec
CONSTANTS
  e1 = e1
  x1 = x1
  x2 = x2
  y1 = y1
  y2 = y2
  z = z
  w1 = w1
  m1 = m1
  Absent = Absent
  Entity = {e1}
  Visual = {x1, x2}
  Pose = {y1, y2}
  Mode = "Reliable"
  KeyframeFallbackThreshold = 2
  MaxInFlight = 3
  MaxSeq = 4
  Type = {x1, x2}
  Value = {0, 1}
  Default = 0
  VersionSize = 3
  MaxIds = 3
  MaxIssued = 3
  NoJob = NoJob
SYMMETRY Symmetry
INVARIANTS MirrorFidelity StallBounded NewestKeyframeApplies RowsExact DependenciesFirst
PROPERTIES NeverBackward MapSpec
CHECK_DEADLOCK FALSE
