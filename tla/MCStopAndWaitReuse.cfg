CONSTANTS
  SeqMod = 4
  MaxRetry = 2
  MaxCalls = 2
SPECIFICATION Spec
INVARIANT SuccessMeansReceived
CHECK_DEADLOCK FALSE
