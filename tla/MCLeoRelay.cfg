\* A blackout of 3 ticks, longer than MaxAge: frames expire in the queue.
CONSTANTS
  Period = 5
  Vis = 2
  MaxAge = 1
  MaxFrames = 3
SPECIFICATION Spec
INVARIANTS
  TypeOK
  StatsAddUp
  StaleAtMostOne
PROPERTIES
  ChannelSafety
  EveryFrameLeaves
\* After stop() every thread ends.
CHECK_DEADLOCK FALSE
