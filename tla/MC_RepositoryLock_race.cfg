CONSTANTS
  p1 = p1
  p2 = p2
  p3 = p3
  p4 = p4
  None = None
  NoPid = NoPid
  Proc <- MCTrio
  Pid <- MCPid
  PidOf <- MCTrioPidOf
SPECIFICATION Spec
INVARIANT MutualExclusion
CHECK_DEADLOCK FALSE
