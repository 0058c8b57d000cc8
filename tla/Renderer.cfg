CONSTANTS
  None = None
  Id = {a, b}
  Sub = {s1, s2}
  Kinds = {"texture", "buffer", "vertex"}
  MaxObjects = 2
  MaxMaps = 2
SPECIFICATION Spec
SYMMETRY IdSymmetry
INVARIANTS
  RefsAreCounted
  BindingsAreTyped
PROPERTIES
  NothingUninitialised
  UnmapReachesTheMappedObject
