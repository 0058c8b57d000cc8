CONSTANTS
  Proc = {p1, p2}
  NoProc = NoProc
  MaxRuns = 1
  MaxRevision = 1
  KillOnClose = FALSE
SPECIFICATION FairSpec
PROPERTIES
  StopTakesEffect
