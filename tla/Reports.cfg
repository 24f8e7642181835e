SPECIFICATION Spec
CONSTANTS
  skill = skill
  requirement = requirement
  EJobs <- MCJobs
  Values <- MCValues
  Skills <- MCSkills
  Unbuildable <- MCUnbuildable
  BatchLimit = 2
  MaxTries = 2
  MaxSeen = 2
  MaxLogs = 4
  Items <- MCJobs
  MaxDay = 2
  MaxFaults = 2
  Ai = TRUE
  RawJobs <- MCRawJobs
  Answers <- MCAnswers
  SkillNames <- MCSkillNames
  Vague <- MCVague
  Unwieldy <- MCUnwieldy
  MaxRelations = 1
  Models <- MCModels
  BatchSizes <- MCBatchSizes
  Retries = 1
  MaxRequests = 4
  Findings <- MCFindings
  Gates <- MCGates
  Anomalies <- MCAnomalies
INVARIANTS ReportInv EnrichmentInv  ClientInv StagingInv
PROPERTIES BatchEnds
CHECK_DEADLOCK FALSE
