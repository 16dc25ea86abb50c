\* One lap of the sequence numbers: MaxSends + Window <= SeqMod, and
\* MaxCalls < SAWSeqMod.
CONSTANTS
  SeqMod = 8
  Window = 2
  MaxRetry = 1
  MaxSends = 4
  SAWSeqMod = 4
  SAWMaxRetry = 2
  MaxCalls = 3
SPECIFICATION MCSpec
INVARIANTS
  TypesOK
  AckedWasReceived
  FreshFramesFit
  WindowBound
  PassedWasReceived
  TrustworthyUntilFailure
  OrderedUnlessFailed
PROPERTIES
  StreamSafety
  DeliveredOrAbandoned
  EveryCallReturns
\* When the sends and the calls are used up and the path is empty nothing is
\* left to do.
CHECK_DEADLOCK FALSE
