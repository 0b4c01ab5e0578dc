SPECIFICATION MCSpec
CONSTANTS
  Parts = {"ledger", "queue"}
  i1 = i1
  i2 = i2
  Items = {i1, i2}
  MaxQty = 1
  Start = 2
  Failures = {"crash"}
  Releases = {}
  Carries = {FALSE, TRUE}
  MaxRev = 2
  MaxOps = 1
  MaxEpoch = 2
  MaxMishaps = 1
  p1 = p1
  p2 = p2
  o1 = o1
  o2 = o2
  Runners = {p1, p2}
  MaxCrashes = 2
  MaxRows = 3
  MaxFaults = 2
  MaxKills = 1
  MaxAsks = 2
  Orders = {o1}
  Shelf = 1
  MaxTries = 2
  MaxStock = 1
  MaxChanges = 3
  MaxTroubles = 2
SYMMETRY Alike
INVARIANTS SiteQueueTypeOK NeverAbove AckIsProof NothingForgotten DeadIsSeen StopStands
PROPERTY WatermarkAdvances
CHECK_DEADLOCK FALSE
