SPECIFICATION Spec
CONSTANTS
  k1 = k1
  k2 = k2
  Platforms <- MCPlatforms
  Keywords <- MCKeywords
  Jobs <- MCJobs
  Slugless <- MCSlugless
  Listings <- MCListings
  Limit = 3
  KeywordCap = 3
  RunCap = 3
  PageSetting = 1
  Served = 2
  MaxPages = 4
  MaxMoves = 1
INVARIANTS FetchersAreTruthful StoreInv
PROPERTY StageEnds
CHECK_DEADLOCK FALSE
