CONSTANT Scripts <- MCScripts
SPECIFICATION FairSpec
CHECK_DEADLOCK FALSE
INVARIANTS
  SuccessIsProven
  SystemIsOwned
  CleanupIsFinal
  ErrorsNameTheirCause
PROPERTIES
  ProbeEnds
