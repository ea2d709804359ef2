SPECIFICATION MCSpec
CONSTANTS
  None = None
  me = me
  bob = bob
  k1 = k1
  k2 = k2
  k3 = k3
  k4 = k4
  Procs = {p1, p2}
  Selves = {me}
  Keys = {k1, k2, k3, k4}
  Cards <- MCCards
  Relays = {r1, r2}
  Clients = {c1, c2}
  Ids = {i1, i2, i3}
  Addresses = {a1, a2, a3}
  MaxPins = 2
SYMMETRY MCSymmetry
CHECK_DEADLOCK FALSE
INVARIANTS
  VerifiedIsPinned
  RunsOnStoredKeys
  ServedIsStored
  TrustIsPinned
