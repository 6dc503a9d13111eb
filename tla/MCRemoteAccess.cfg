SPECIFICATION FairSpec
CONSTANTS
  MaxFlips = 2
  MaxFailures = 1
  MaxLives = 2
INVARIANT OneRoad
PROPERTIES StopEndsTunnel ModeBecomesRight FewOrphans
CHECK_DEADLOCK FALSE
