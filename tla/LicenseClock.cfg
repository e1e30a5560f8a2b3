\* Long enough for a trial or a licence to end, plus the tolerance and the
\* throttle, and for the clock to be set back into it afterwards.
SPECIFICATION Spec
CONSTANTS
  Anchor = {data, home}
  TRIAL = 2
  TOLERANCE = 1
  INTERVAL = 2
  GRACE = 1
  Licence <- MCLicence
  TotalLoss = {}
  MaxTime = 5
SYMMETRY AnchorSymmetry
INVARIANTS TypeOK OneTrial TrialBounded LicenceBounded
PROPERTIES KeepsLedger
CHECK_DEADLOCK FALSE
