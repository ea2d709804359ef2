SPECIFICATION MCSpec
CONSTANTS
  ann = ann
  bob = bob
  cat = cat
  dan = dan
  r1 = r1
  None = None
  Users = {ann, bob, cat}
  Rooms = {r1}
  Ids <- MCIds
  Bodies <- MCIds
  ValidBodies <- MCIds
  Requests = {}
  PoolLimit = 2
  RoomLimit = 1
  TotalRate = 9
  PairRate = 9
  MaxSequence = 6
  SenderBytes = 0
  RoomBytes = 0
  PageSize = 2
  Cost <- NoCost
  Starts <- MCStarts
  MaxIds = 6
  MaxRounds = 4
  Cases = {"trust", "form", "again"}
INVARIANTS
  GroupFollowsLog
  WelcomeUsable
  MemberNotRefused
  AddedOnce
PROPERTY
  OrderedDelivery
