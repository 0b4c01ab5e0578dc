SPECIFICATION MCLiveSpec
CONSTANTS
  i1 = i1
  i2 = i2
  Items = {i1}
  MaxQty = 1
  Start = 2
  Failures = {"sync", "write"}
  Releases = {}
  Carries = {FALSE}
  MaxRev = 3
  MaxOps = 2
  MaxEpoch = 1
  MaxMishaps = 1
INVARIANT HiddenUnitsAreOwned
PROPERTIES SiteCatchesUp
CHECK_DEADLOCK FALSE
