SPECIFICATION Spec
CONSTANTS
  a = a
  b = b
  i1 = i1
  i2 = i2
  Ids = {i1, i2}
  Names = {a, b}
  Partitions = {0, 1}
  Capacity = 4
  Home <- MCHome
  Base <- MCBase
  NoName = NoName
  Empty = Empty
  Tomb = Tomb
  None = None
  MaxRetry = 2
  MaxRefusals = 3
  MaxFaults = 1
  MaxCalls = 3
  MaxStarts = 1
INVARIANT TypeOK
INVARIANT IndexExact
PROPERTY RestartRestores
PROPERTY ImplementsDirectory
CHECK_DEADLOCK FALSE
