\* One connection, every kind of frame, and noise.
SPECIFICATION Spec
CONSTANTS
  Conns = {c1}
  Fds = {1}
  None = None
  Kinds = {"short", "long", "bad", "huge"}
  Chunk = 2
  MaxInput = 3
  ReadRoom = 4
  SendRoom = 1
  MaxFrames = 3
  MaxErrors = 2
INVARIANTS
  TypeOK
  RepliesInOrder
  NoFrameLost
  WaitsOnlyWhenIdle
