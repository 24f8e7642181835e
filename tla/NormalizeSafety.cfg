SPECIFICATION FairSpec
CONSTANTS
  Rows <- MCRows
  Key <- MCKey
  NoKey = "blank"
  Lower <- MCLower
  Bare <- MCBare
  Modes <- MCModes
  Quarantine = TRUE
  Required = FALSE
  AllowReprocess = FALSE
  BatchSize = 2
  MaxSyncAttempts = 3
  MaxStages = 2
  MaxReconnects = 1
INVARIANTS TypeOK EachRowCountedOnce HeldIsUnnormalized ReportMatchesStore
PROPERTIES WrittenOnce StageEnds
CHECK_DEADLOCK FALSE
