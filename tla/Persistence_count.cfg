SPECIFICATION Spec
CONSTANTS
  Keys = {k1, k2}
  Values = {v1}
  OversizeValues = {}
  None = None
  MaxEntries = 1
  Inodes = {i1, i2, i3, i4}
  MaxSaves = 1
  MaxOutages = 0
INVARIANTS
  AcknowledgedSnapshotLoads
CHECK_DEADLOCK FALSE
