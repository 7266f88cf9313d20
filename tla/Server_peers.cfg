\* Two connections at the same time, either of which may send without end.
SPECIFICATION FairSpec
CONSTANTS
  Conns = {c1, c2}
  Fds = {1, 2}
  None = None
  Kinds = {"short", "bad"}
  Chunk = 2
  MaxInput = 2
  ReadRoom = 1
  SendRoom = 1
  MaxFrames = 1
  MaxErrors = 0
INVARIANTS
  RepliesInOrder
  EventsBelongToConnection
PROPERTIES
  WellBehavedPeersAreServed
  StopIsHonoured
