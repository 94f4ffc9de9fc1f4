SPECIFICATION Spec
CONSTANTS
  MaxInstances = 3
  MaskBits = 2
  Points = {1, 2}
  MaxCallbacks = 3
  MaxOther = 1
  MaxDepth = 2
  MaxRanges = 1
  MaxBeyond = 0
CHECK_DEADLOCK FALSE
INVARIANT TypeOK
INVARIANT TableExact
INVARIANT HandlesDistinct
INVARIANT MissedBounded
PROPERTY CalledOnce
