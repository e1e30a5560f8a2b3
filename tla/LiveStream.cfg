\* Two stream paths reached by rotation or by an app change, two publications,
\* one crash, one television with its events and polls.
SPECIFICATION FairSpec
CONSTANTS
  Tv = {tv1}
  App = {live, alt}
  DefaultApp = live
  MaxKey = 2
  MaxEdit = 1
  MaxSession = 2
  MaxNotify = 1
  MaxChan = 1
  MaxCrash = 1
INVARIANTS TypeOK LiveHasCause ViewersMatchPulls
PROPERTIES KeepsBroadcast RotationIsOneWay DeadAirIsReported TvConverges
CHECK_DEADLOCK FALSE
