\* One stream path and no crash: a single OBS that drops once and comes back.
SPECIFICATION FairSpec
CONSTANTS
  Tv = {tv1}
  App = {live}
  DefaultApp = live
  MaxKey = 1
  MaxEdit = 0
  MaxSession = 2
  MaxNotify = 1
  MaxChan = 1
  MaxCrash = 0
PROPERTIES ReconnectRecovers
CHECK_DEADLOCK FALSE
