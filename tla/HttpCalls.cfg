SPECIFICATION FairSpec
CONSTANTS
  c1 = c1
  c2 = c2
  c3 = c3
  Callers <- MCThreeCallers
  MaxRetries = 2
  Threshold = 3
  Cooldown = 3
  Spacing = 2
  InitialBackoff = 1
  MaxBackoff = 3
  MaxFailures = 4
INVARIANTS TypeOK BreakerMatchesCount SlotsInv
PROPERTY CallEnds
