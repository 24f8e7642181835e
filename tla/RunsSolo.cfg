SPECIFICATION Spec
CONSTANTS
  p1 = p1
  p2 = p2
  b1 = b1
  b2 = b2
  None = None
  Procs <- MCSolo
  Bases <- MCBases
  Jobs <- MCJobs
  Calls <- MCSoloCalls
  Closed <- MCClosed
  Unbuildable <- MCUnbuildable
  MaxInvocations = 3
SYMMETRY MCSoloSymmetry
INVARIANT AnnouncedOnce
PROPERTY SyncCoversScope
CHECK_DEADLOCK FALSE
