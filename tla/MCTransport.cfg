SPECIFICATION MCSpec
CONSTANTS
  None = None
  Users = {u1, u2}
  Conns = {c1, c2}
  Budget = 2
  Handshakes = 2
  QueueLimit = 1
  Messages <- MCMessages
  Frames = 3
  Capacity = 1
  MAX_FRAME_SIZE = 3
CHECK_DEADLOCK FALSE
INVARIANTS
  InOrder
PROPERTIES
  RequestSettled
  FrameEnds
  EndReported
