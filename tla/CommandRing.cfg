CONSTANTS
  Device = {d1}
  small = small
  medium = medium
  large = large
  other = other
  fence = fence
  update = update
  odd = odd
  Command = {small, medium, large, other}
  KernelCommand = {fence, update, odd}
  Size <- MCSize
  RingSize = 8
  StagingSize = 8
  Header = 2
  Align = 2
  Failing = {}
  None = None
SPECIFICATION MCSpec
CHECK_DEADLOCK FALSE
INVARIANTS
  RingIntact
  CommandBoundary
PROPERTIES
  ImplementsQueue
  EverythingIsProcessed
