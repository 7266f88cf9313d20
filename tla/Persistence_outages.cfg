\* Two SAVEs and two outages; one value is too long for a snapshot.
SPECIFICATION Spec
CONSTANTS
  Keys = {k1, k2}
  Values = {v1, big}
  OversizeValues = {big}
  None = None
  MaxEntries = 2
  Inodes = {i1, i2, i3, i4}
  MaxSaves = 2
  MaxOutages = 2
INVARIANTS
  TypeOK
  DurableSnapshot
PROPERTIES
  ImplementsSnapshotStore
