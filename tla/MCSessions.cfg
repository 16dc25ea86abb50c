CONSTANTS
  ListKeys = {"cmds"}
  SwitchKeys = {"video", "interop"}
  MaxRetry = 2
  MyCaps <- MCMyCaps
  PeerCaps <- MCPeerCaps
  MaxConnects = 2
  MaxSessions = 3
  Nodes = {"t1", "t2"}
  CapChoices <- MCCapChoices
  MaxOffers = 2
  MaxLosses = 1
  MaxRepeats = 1
  MaxFaults = 1
SPECIFICATION MCSpec
INVARIANTS
  TypesOK
  EstablishedWasAgreed
  WrongOnlyByLateAck
  SameTerms
  RegisteredTerms
PROPERTIES
  RegisteredOnce
  AllMeet
\* The calls of connect and the sessions are used up, and the path is empty.
CHECK_DEADLOCK FALSE
