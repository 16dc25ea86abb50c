\* Enough sends to fill the window, on one lap.
CONSTANTS
  SeqMod = 4
  Window = 2
  MaxRetry = 1
  MaxSends = 2
SPECIFICATION FairPathSpec
PROPERTY WindowReopens
CHECK_DEADLOCK FALSE
