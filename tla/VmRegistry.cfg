CONSTANTS
  Proc = {p1, p2}
  NoProc = NoProc
  MaxRuns = 2
  MaxRevision = 2
  KillOnClose = TRUE
SPECIFICATION Spec
SYMMETRY ProcSymmetry
INVARIANTS
  RuntimeIsLeased
  StopHitsItsRun
  StopReportsTheEnd
  InterruptedMeansLost
PROPERTIES
  ImplementsLifecycle
