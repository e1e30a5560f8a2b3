\* A television that is on while no stream URL has been saved yet.
SPECIFICATION FairSpec
CONSTANTS
  Url = {u1}
  NoUrl = NoUrl
  MayLackUrl = TRUE
  MAX_FAST_RETRIES = 3
  MaxFailures = 3
PROPERTIES GoesLive
CHECK_DEADLOCK FALSE
