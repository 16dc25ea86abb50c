CONSTANTS
  ListKeys = {"cmds"}
  SwitchKeys = {}
  MaxRetry = 2
  MyCaps <- MCCaps
  PeerCaps <- MCCaps
  MaxConnects = 2
  MaxSessions = 3
SPECIFICATION Spec
INVARIANT SharedSession
CHECK_DEADLOCK FALSE
