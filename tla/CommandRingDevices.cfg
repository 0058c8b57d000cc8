CONSTANTS
  Device = {d1, d2}
  small = small
  medium = medium
  large = large
  other = other
  fence = fence
  update = update
  odd = odd
  Command = {small, large}
  KernelCommand = {}
  Size <- MCSize
  RingSize = 8
  StagingSize = 8
  Header = 2
  Align = 2
  Failing = {}
  None = None
SPECIFICATION Spec
CHECK_DEADLOCK FALSE
PROPERTIES
  ProducerNeverRetreats
