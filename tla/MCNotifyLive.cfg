SPECIFICATION Spec
CONSTANTS
  Conns = {1, 2}
  Points = {1}
  Values = {1}
  Partitions = {0}
  Permitted <- MCPermitted
  Meta <- MCMeta
  SubMax = 1
  Cap = 1
  FrameLen = 2
  BufCap = 1
  MaxWrites = 2
  MaxAsks = 4
PROPERTY QueuedLeaves
CHECK_DEADLOCK FALSE
