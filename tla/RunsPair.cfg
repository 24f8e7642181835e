SPECIFICATION Spec
CONSTANTS
  p1 = p1
  p2 = p2
  b1 = b1
  b2 = b2
  None = None
  Procs <- MCPair
  Bases <- MCBases
  Jobs <- MCTwoJobs
  Calls <- MCPairCalls
  Closed <- MCNoJobs
  Unbuildable <- MCUnbuildable
  MaxInvocations = 2
SYMMETRY MCPairSymmetry
INVARIANTS RowsInv HandoffFollowsSync NoLockCycle
PROPERTIES RowsCloseOnce FullRunHandsOff
CHECK_DEADLOCK FALSE
