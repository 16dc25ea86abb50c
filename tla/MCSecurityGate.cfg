CONSTANTS
  Threads = {t1}
  Frames <- MCFrames
  RateMax = 5
  RateWindow = 2
  ReplayWindow = 2
  MaxAngle = 6
  MaxStep = 1
  MaxTime = 3
  MaxChecks = 3
SPECIFICATION Spec
INVARIANT ChangeWithinLimit
CHECK_DEADLOCK FALSE
