CONSTANTS
  None = None
  Bad = Bad
  Wrong = 1
  Home = "home"
  Root = "root"
  Written <- MCWritten
  FileSystems <- MCFileSystems
  Slips <- MCSlips
  MaxFresh = 1
SPECIFICATION Spec
INVARIANTS
  RegisteredIsFinal
  RunsOpenWhatWasWritten
  RunsUseDistinctFiles
PROPERTIES
  
  VerdictIsOnTheLaunchedRun
