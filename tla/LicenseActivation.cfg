SPECIFICATION Spec
CONSTANTS
  Token <- MCToken
  NoToken = NoToken
  Unread = Unread
  Request = {r1, r2}
  Poller = {p1}
  GRACE = 1
  MaxDay = 1
  MaxSubmits = 3
  MaxFaults = 1
INVARIANTS TypeOK HistoryNamesRecord PublicViewCurrent
PROPERTIES KeepsRegister
SYMMETRY RequestSymmetry
