CONSTANTS
  Resource = {r1, r2}
  Subresource = {s1, s2}
  HeapBlocks = 10
  MaxBlocks = 5
  HeapOffset = 5
  Size = {1, 2, 3}
  Alignment = {1, 2}
SPECIFICATION Spec
CHECK_DEADLOCK FALSE
INVARIANTS
  GrantsAreDisjoint
  BitmapIsExact
PROPERTIES
  PointersStayValid
