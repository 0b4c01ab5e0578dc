SPECIFICATION MCSpec
CONSTANTS
  Parts = {"ledger", "orders"}
  i1 = i1
  i2 = i2
  Items = {i1}
  MaxQty = 2
  Start = 1
  Failures = {"crash", "move", "intent", "mark", "write", "refresh", "net"}
  Releases = {"recorded"}
  Carries = {FALSE}
  MaxRev = 2
  MaxOps = 3
  MaxEpoch = 1
  MaxMishaps = 1
  p1 = p1
  p2 = p2
  o1 = o1
  o2 = o2
  Runners = {p1}
  MaxCrashes = 2
  MaxRows = 3
  MaxFaults = 2
  MaxKills = 1
  MaxAsks = 2
  Orders = {o1, o2}
  Shelf = 1
  MaxTries = 2
  MaxStock = 1
  MaxChanges = 3
  MaxTroubles = 2
SYMMETRY Alike
INVARIANTS 
  HoldsAreCovered NoSilentHold NoSilentSale ShownIsHeld
PROPERTY OneFate
CHECK_DEADLOCK FALSE
