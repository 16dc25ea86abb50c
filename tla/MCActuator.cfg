CONSTANTS
  Conns = {c1, c2}
  Circle = 4
  PitchMax = 2
  StartPitch = 1
  YawRate = 1
  PitchRate = 1
  Delay = 1
  RateWindow = 2
  RateLimit = 2
  YawAngles <- MCYawAngles
  PitchAngles <- MCPitchAngles
  MaxCmds = 3
  MaxCuts = 1
SPECIFICATION Spec
INVARIANTS
  TypeOK
  OneAnswerEach
  NeverRateLimited
PROPERTIES
  StopIsFinal
  YawApproaches
  StopFeathers
