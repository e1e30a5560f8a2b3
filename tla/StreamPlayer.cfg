\* Up to three failures in a row, the URL never emptied.
SPECIFICATION FairSpec
CONSTANTS
  Url = {u1, u2}
  NoUrl = NoUrl
  MayLackUrl = FALSE
  MAX_FAST_RETRIES = 3
  MaxFailures = 3
INVARIANTS TypeOK NoOrphanPlayer QuietWhenOff LiveHasPlayer NeverAbandoned
PROPERTIES GoesLive
CHECK_DEADLOCK FALSE
