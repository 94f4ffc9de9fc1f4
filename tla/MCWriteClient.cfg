SPECIFICATION Spec
CONSTANTS
  PolicyFile <- MCPolicy
  Partitions = {0, 1, 2}
  Whitelist = {0, 1}
  MaxRules = 3
  Any = Any
  Points = {1, 2}
  Rejected <- MCRejected
  Uid = 7
  Cap = 2
  AlertPoints = {2}
  MaxWrites = 3
  MaxCalls = 2
  MaxAhead = 2
  MaxCrashes = 1
  MaxFaults = 1
INVARIANT TypeOK
INVARIANT NothingDropped
INVARIANT QueueSound
INVARIANT PartitionKnown
PROPERTY NeverBack
PROPERTY OneFlushReplays
PROPERTY CallsReturn
PROPERTY QueueDrains
CHECK_DEADLOCK FALSE
