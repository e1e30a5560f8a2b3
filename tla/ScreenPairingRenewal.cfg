\* A connected television that nobody touches, with the service's own limit.
SPECIFICATION Spec
CONSTANTS
  Tv = {tv1}
  Screen = {s1}
  Job = {j1}
  PAIR_MAX_ATTEMPTS = 5
  Hasty = FALSE
  MaxCode = 4
  MaxToken = 0
  MaxOps = 0
  MaxMsg = 1
INVARIANTS ShownCodeIsAwaited
CHECK_DEADLOCK FALSE
