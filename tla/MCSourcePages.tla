--------------------------- MODULE MCSourcePages ---------------------------
(* Instances of SourcePages for TLC: two keywords with a job in common.      *)
EXTENDS SourcePages

CONSTANTS k1, k2

MCPlatforms == {"fixture", "dealls", "glints", "jobstreet", "kalibrr", "kitalulus"}
MCKeywords == {k1, k2}
MCJobs == 1..4
MCSlugless == {4}
MCListings == {<<2>>, <<1, 2, 3>>}
=============================================================================
