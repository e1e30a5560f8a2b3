\* Both anchors can be unreadable at once (AUTH_SECRET rotated: no stamp matches).
SPECIFICATION Spec
CONSTANTS
  Anchor = {data, home}
  TRIAL = 2
  TOLERANCE = 1
  INTERVAL = 2
  GRACE = 1
  Licence <- MCLicence
  TotalLoss = {"bad"}
  MaxTime = 5
INVARIANTS OneTrial
CHECK_DEADLOCK FALSE
