SPECIFICATION Spec
CONSTANTS
  None = None
  Users = {u1, u2}
  Conns = {c1, c2, c3}
  Budget = 2
  Handshakes = 2
  QueueLimit = 2
SYMMETRY Alike
INVARIANTS
  OneSession
  PermitsConserved
  NoticeFollowsAppend
  EnrolledNotRefused
