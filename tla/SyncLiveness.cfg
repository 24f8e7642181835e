SPECIFICATION FairSpec
CONSTANTS
  Jobs <- MCJobs
  MaxVersion = 1
  MaxRuns = 1
  Unsendable <- MCUnsendable
  Limit = 4
  BatchSize = 0
  MaxBatch = 25
  MinBatch = 1
  MaxAttempts = 2
  MaxRetries = 1
PROPERTY RunEnds
CHECK_DEADLOCK FALSE
