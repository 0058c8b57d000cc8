CONSTANTS
  Mode = "dual"
  Sizes = {"small", "large"}
  FirstSize = "small"
  MaxCommands = 2
  MaxMessages = 3
  MaxFaults = 1
  None = None
SPECIFICATION FairSpec
INVARIANTS
  FencesTellTheTruth
  StatusIsTruthful
  PresentsAreHandled
  SurfacesFollowOrErr
PROPERTIES
  FenceWaitsEnd
  ShutdownEndsTheProcess
