CONSTANTS
  MaxLog = 2
  MaxWrites = 2
  Job = TRUE
SPECIFICATION FairSpec
INVARIANTS
  ExitIsJudgedOnTheWholeLog
  ReasonsAreTruthful
PROPERTIES
  RunEnds
  ImplementsSupervisedRun
