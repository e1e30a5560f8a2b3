\* A fourth failure in a row reaches the "fallback" branch of scheduleRetry.
SPECIFICATION FairSpec
CONSTANTS
  Url = {u1, u2}
  NoUrl = NoUrl
  MayLackUrl = FALSE
  MAX_FAST_RETRIES = 3
  MaxFailures = 4
INVARIANTS NeverAbandoned
CHECK_DEADLOCK FALSE
