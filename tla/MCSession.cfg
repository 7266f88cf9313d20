CONSTANTS
  Byte <- MCByte
  SizeMod = 128
  MaxParts = 3
  Typeable <- MCTypeable
  OtherLines <- MCOtherLines
  OthersCall <- MCOthersCall
  Streams <- MCStreams
  InitialStore <- MCInitialStore
  None = None
  Room = 6
  MaxRequest = 34
  MaxResponse = 8
SPECIFICATION Spec
INVARIANTS
  TypeOK
  InStep
  FramesSurvive
  RequestsPartition
PROPERTY ImplementsRemoteStore
CHECK_DEADLOCK FALSE
