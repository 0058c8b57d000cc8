CONSTANTS
  Device = {d1}
  small = small
  medium = medium
  large = large
  other = other
  fence = fence
  update = update
  odd = odd
  Command = {small, medium, large, other}
  KernelCommand = {}
  Size <- MCOddSize
  RingSize = 8
  StagingSize = 8
  Header = 2
  Align = 2
  Failing = {other}
  None = None
SPECIFICATION Spec
CHECK_DEADLOCK FALSE
INVARIANTS
  InFlightIntact
