CONSTANTS
  Size = 3
  MinSize = 2
  Bogus = {2, 4}
  MaxConns = 2
  MaxCmds = 3
  PitchMax = 2
  PitchStep = 1
  YawAngles = {0, 1}
  PitchAsked <- MCPitchAsked
  BatchSize = 2
  MaxReadings = 3
  MaxOrders = 2
  Frames <- MCFrames
  Threads = {t1, t2}
  RateMax = 2
  RateWindow = 2
  ReplayWindow = 2
  MaxAngle = 3
  MaxStep = 1
  MaxTime = 3
  MaxChecks = 3
  MaxFrags = 3
  MaxVideos = 2
  MaxArrivals = 6
SPECIFICATION MCSpec
INVARIANTS
  TypesOK
  OnceInOrder
  FailedNeverExecuted
  InStepUntilTorn
  StopShows
  AcceptedOnce
  RateBudget
  RateRefusalMayRetry
  DeliveredIsSent
  AgainOnlyIfAllAgain
PROPERTIES
  LatestNeverGoesBack
  StopGivesUp
\* Each part comes to an end when its bounds are used up.
CHECK_DEADLOCK FALSE
