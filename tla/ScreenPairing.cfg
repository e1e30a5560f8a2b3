\* One television, one row, one request at a time, two tokens, one disturbance, a
\* socket's limit of two requests.
SPECIFICATION FairSpec
CONSTANTS
  Tv = {tv1}
  Screen = {s1}
  Job = {j1}
  PAIR_MAX_ATTEMPTS = 2
  Hasty = FALSE
  MaxCode = 4
  MaxToken = 2
  MaxOps = 1
  MaxMsg = 1
INVARIANTS TypeOK AwaitedUnlessBlocked NoOrphanHash
PROPERTIES NeverDiscardsGoodToken DeliveredIsVerified
CHECK_DEADLOCK FALSE
