SPECIFICATION Spec
CONSTANTS
  Keys = {k1, k2}
  Values = {v1}
  OversizeValues = {}
  None = None
  MaxEntries = 2
  Inodes = {i1, i2, i3, i4}
  MaxSaves = 1
  MaxOutages = 1
PROPERTIES
  AcknowledgedSetSurvivesRestart
CHECK_DEADLOCK FALSE
