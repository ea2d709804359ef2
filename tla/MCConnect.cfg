SPECIFICATION MCSpec
CONSTANTS
  None = None
  p1 = p1
  p2 = p2
  p3 = p3
  p4 = p4
  ann = ann
  bob = bob
  ka = ka
  kb = kb
  kc = kc
  t1 = t1
  t2 = t2
  Programs = {p1, p2, p3, p4}
  Users = {ann, bob}
  Keys = {ka, kb, kc}
  Tokens = {t1, t2}
  Versions = {1, 2}
  Challenges = {x1, x2}
  Conns = {c1, c2}
  RelayVersion = 2
  User <- MCUser
  Key <- MCKey
  Token <- MCToken
  Speaks <- MCSpeaks
  IssuedTo <- MCIssuedTo
  Rooms = {r1, r2}
  OwnRooms = {r1}
  Ids = {i1, i2, i3}
  MaxEpoch = 1
  MaxGen = 2
  CacheLimit = 1
  ListLimit = 2
  BlobLimit = 2
  MAX_PAYLOAD = 40
SYMMETRY IdSymmetry
CHECK_DEADLOCK FALSE
INVARIANTS
  SessionsAuthentic
  TokensAccounted
  RoundTrip
  CacheFollowsDatabase
  GenerationUsedOnce
PROPERTIES
  RefusedForCause
  Implements
