--------------------------- MODULE MCPipelineRuns ---------------------------
(* Instances of PipelineRuns for TLC: run ids and processes are              *)
(* interchangeable, jobs are not (they have an order).                       *)
EXTENDS PipelineRuns, TLC

CONSTANTS p1, p2, b1, b2

MCSolo == {p1}
MCPair == {p1, p2}
MCBases == {b1, b2}
MCJobs == 1..3
MCTwoJobs == 1..2
MCUnbuildable == {2}
MCClosed == {3}
MCNoJobs == {}
\* Full runs with and without a limit that cuts the list of sync, or of the sources
\* of other jobs, one of which sync does not take; and each stage alone.
MCSoloCalls ==
  [plan : {Full}, jobs : {{1, 2}}, limit : {1, 2}]
    \cup [plan : {Full}, jobs : {{2, 3}}, limit : {2}]
    \cup [plan : {<<s>> : s \in Stages}, jobs : {{1, 2}}, limit : {2}]
\* The same for two processes, with fewer kinds: full runs, and a scrape or a sync
\* alone, of a job and of one that has no payload.
MCPairCalls ==
  [plan : {Full}, jobs : {{1, 2}}, limit : {1, 2}]
    \cup [plan : {<<"scrape">>, <<"sync">>}, jobs : {{1, 2}}, limit : {2}]
MCSoloSymmetry == Permutations(MCBases)
MCPairSymmetry == Permutations(MCPair) \cup Permutations(MCBases)
=============================================================================
