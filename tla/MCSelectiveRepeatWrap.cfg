\* The second lap begins: MaxSends exceeds SeqMod.
CONSTANTS
  SeqMod = 4
  Window = 2
  MaxRetry = 1
  MaxSends = 7
SPECIFICATION Spec
INVARIANT WindowBound
CHECK_DEADLOCK FALSE
