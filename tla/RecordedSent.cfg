SPECIFICATION Spec
CONSTANTS
  w1 = w1
  w2 = w2
  Workers <- MCWorkers
  QJobs <- MCQJobs
  MaxAttempts = 2
  MaxDeaths = 1
  DayStages <- MCDayStages
  RunnerStarts = TRUE
  MaxTries = 2
  Listed <- MCListed
  StaleAfter = 1
  ExpiredAfter = 3
  MaxHour = 4
  Candidates <- MCCandidates
  MaxCandidates = 3
  Platforms <- MCPlatforms
  EnvFiles <- MCEnvFiles
  CommandLines <- MCCommandLines
  Numbers <- MCNumbers
  Texts <- MCTexts
  MaxEdits = 1
INVARIANTS SentIsAccepted
CHECK_DEADLOCK FALSE
