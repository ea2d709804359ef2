SPECIFICATION Spec
CONSTANTS
  None = None
  Users = {u1, u2}
  Conns = {c1, c2}
  Budget = 2
  Handshakes = 2
  QueueLimit = 2
INVARIANTS
  AdmittedWorkDrained
