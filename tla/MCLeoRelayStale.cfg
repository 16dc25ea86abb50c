CONSTANTS
  Period = 5
  Vis = 2
  MaxAge = 1
  MaxFrames = 2
SPECIFICATION Spec
INVARIANT FreshWhenForwarded
CHECK_DEADLOCK FALSE
