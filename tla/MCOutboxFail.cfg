SPECIFICATION Spec
CONSTANTS
  w1 = w1
  w2 = w2
  Workers = {w1, w2}
  LaneOf <- SplitLanes
  Ids = {r1, r2}
  Entities = {v1}
  Alerts = {}
  MaxAttempts = 2
  BatchSize = 1
  Lease = 2
  HandlerTime = 1
  Backoff <- ShortBackoff
  BackoffSteps = 1
  RetryAfters = {0}
  MaxRev = 2
  MaxEnv = 0
  MaxClaims = 3
PROPERTY FailAlwaysAnswers
CHECK_DEADLOCK FALSE
