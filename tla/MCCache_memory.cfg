SPECIFICATION Spec
CONSTANTS
  Tags = {t1, t2}
  Indexes = {i1}
  Values = {v1, v2}
  NoTag = NoTag
  Sides = {"data", "inst"}
  CollisionUndefined = FALSE
  FifoDepth = 2
INVARIANT DdrMatchesStores
PROPERTIES SerialMemorySpec EveryStallEnds
