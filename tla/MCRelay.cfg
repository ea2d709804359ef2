SPECIFICATION MCSpec
CONSTANTS
  a = a
  b = b
  r1 = r1
  r2 = r2
  body = body
  empty = empty
  None = None
  Users = {a, b}
  Rooms = {r1, r2}
  Ids = {i1, i2, i3}
  Bodies = {body, empty}
  ValidBodies = {body}
  Requests <- MCRequests
  Cost <- MCCost
  PoolLimit = 2
  RoomLimit = 1
  TotalRate = 2
  PairRate = 1
  MaxSequence = 2
  SenderBytes = 3
  RoomBytes = 4
  PageSize = 2
  Appends <- MCAppends
  Invitations <- MCInvitations
SYMMETRY Symmetry
INVARIANTS
  TypeOK
  OneOutcome
  AcceptedIffLogged
  EventIdsUnique
  WelcomeWithEvent
  LedgerMatchesRequests
  PackageAllocatedOnce
  RateLimited
  EventPageFits
PROPERTY
  HistoryKept
