SPECIFICATION Spec
CONSTANTS
  Keys = {k1}
  Values = {v1}
  None = None
  OK = OK
  Seconds <- SmallSeconds
  TicksPerSecond = 2
  TimeMax = 16
  MaxClock = 4
  MaxStepBack = 0
PROPERTIES
  ExpiredStaysGone
