CONSTANTS
  r1 = r1
  r2 = r2
  x1 = x1
  x2 = x2
  d1 = d1
  d2 = d2
  a1 = a1
  c1 = c1
  u1 = u1
  Requests = {r1, r2}
  MaxLevel = 3
  Releases = {x1, x2}
  Committed = 2
  Holds = {x1, x2}
  Documents = {d1, d2}
  Entries = {"e1", "e2", "e3"}
  Amounts = {1, 2}
  Adjustments = {a1}
  Sheets = {c1}
  MaxQty = 1
  Opening = 1
  WorkOrders = {x1, x2}
  Processes = {x1, x2}
  MaxRows = 2
  Users = {u1}
  MaxChain = 3
  LastTick = 3
  MaxLogged = 2
  MaxArchives = 2
  LastDay = 3
SPECIFICATION ScenesSpec
SYMMETRY Symmetric
INVARIANTS
  ApprovedThroughEveryLevel
  TrailFollowsStatus
  DerivedOnce
  UndoneWithSource
  ChainVerifies
  ArchivesVerify
PROPERTIES
  ConsumptionFollowsReleases
  LockedWhileHeld
  TotalFollowsEntries
  VariancePostedOnce
  OneWorkOrder
CHECK_DEADLOCK FALSE
