\* A path that brings every datagram once.
CONSTANTS
  ListKeys = {"cmds"}
  SwitchKeys = {"video", "interop"}
  Nodes = {"t1", "t2"}
  CapChoices <- MCCapChoices
  MaxOffers = 2
  MaxLosses = 0
  MaxRepeats = 0
  MaxFaults = 0
SPECIFICATION Spec
INVARIANT RegisteredOnBothSides
\* The sessions are used up in the end.
CHECK_DEADLOCK FALSE
