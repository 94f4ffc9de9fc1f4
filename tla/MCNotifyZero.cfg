SPECIFICATION Spec
CONSTANTS
  Conns = {1}
  Points = {0, 5}
  Values = {1}
  Partitions = {0}
  Permitted <- MCZeroPermitted
  Meta <- MCMeta
  SubMax = 2
  Cap = 1
  FrameLen = 1
  BufCap = 1
  MaxWrites = 4
  MaxAsks = 10
PROPERTY FirstValueSent
CHECK_DEADLOCK FALSE
