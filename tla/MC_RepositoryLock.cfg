CONSTANTS
  p1 = p1
  p2 = p2
  p3 = p3
  p4 = p4
  None = None
  NoPid = NoPid
  Proc <- MCProc
  Pid <- MCPid
  PidOf <- MCPidOf
SPECIFICATION FairSpec
INVARIANTS ExclusiveUnlessMisfired ExclusiveWithoutDeath
PROPERTIES AbstractLockSpec AttemptEnds SoleSurvivorRecovers
CHECK_DEADLOCK FALSE
