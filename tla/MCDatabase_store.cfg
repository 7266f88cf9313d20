\* Two keys on a clock that may be set back, deadlines that may overflow.
SPECIFICATION Spec
CONSTANTS
  Keys = {k1, k2}
  Values = {v1, v2}
  None = None
  OK = OK
  Seconds <- SomeSeconds
  TicksPerSecond = 2
  TimeMax = 16
  MaxClock = 4
  MaxStepBack = 1
INVARIANTS
  TypeOK
  ObservedGoneStaysGone
  TtlReplySound
PROPERTIES
  VanishesOnlyByDelOrDeadline
  ImplementsKVStore
