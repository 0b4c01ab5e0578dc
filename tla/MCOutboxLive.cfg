SPECIFICATION FairSpec
CONSTANTS
  w1 = w1
  w2 = w2
  Workers = {w1, w2}
  LaneOf <- SplitLanes
  Ids = {r1, r2}
  Entities = {v1}
  Alerts = {a1}
  MaxAttempts = 1
  BatchSize = 1
  Lease = 2
  HandlerTime = 1
  Backoff <- ShortBackoff
  BackoffSteps = 1
  RetryAfters = {0, 2}
  MaxRev = 2
  MaxEnv = 1
  MaxClaims = 9
INVARIANT OneAlertPerKey
 
CHECK_DEADLOCK FALSE
