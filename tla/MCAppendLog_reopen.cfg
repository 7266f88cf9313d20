CONSTANTS
  Byte <- MCByte
  SizeMod = 128
  MaxParts = 3
  Records <- MCRecords
  None = None
  Openers = {t1, t2}
  MaxRecord = 30
  DiskSize = 46
  Cuts = {0, 3, 4}
  MaxFaults = 3
SYMMETRY Symmetry
SPECIFICATION Spec
INVARIANT AppendedIsInFile
