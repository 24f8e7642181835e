SPECIFICATION Spec
CONSTANTS
  Jobs <- MCJobs
  MaxVersion = 2
  MaxRuns = 2
  Unsendable <- MCUnsendable
  Limit = 3
  BatchSize = 0
  MaxBatch = 2
  MinBatch = 1
  MaxAttempts = 2
  MaxRetries = 1
INVARIANTS TypeOK DeliveryInv EachCandidateCountedOnce TallyMatchesRows
PROPERTIES NoneLeftBehind ImplementsLedger
CHECK_DEADLOCK FALSE
