SPECIFICATION Spec
CONSTANTS
  Conns = {1, 2}
  Points = {1, 2}
  Values = {0, 1, 2, 3}
  Partitions = {0}
  Permitted <- MCPermitted
  Meta <- MCMeta
  SubMax = 1
  Cap = 2
  FrameLen = 2
  BufCap = 1
  MaxWrites = 3
  MaxAsks = 5
INVARIANT TypeOK
INVARIANT FramesWhole
INVARIANT NothingLostSilently
INVARIANT QueuesInOrder
INVARIANT FreeSlotsClean
INVARIANT KnownWithinDeadband
PROPERTY FirstValueSent
CHECK_DEADLOCK FALSE
