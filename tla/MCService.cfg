SPECIFICATION Spec
CONSTANTS
  Pids = {p1, p2}
  Segs = {s1, s2}
  None = None
  MaxApps = 1
  MaxDeaths = 1
  MaxFaults = 1
CHECK_DEADLOCK FALSE
INVARIANT TypeOK
INVARIANT NoOrphan
INVARIANT PidfileTrue
INVARIANT FatalLeavesNothing
INVARIANT NoRawAttach
INVARIANT OwnersName
INVARIANT DataSurvive
PROPERTY ComesBack
PROPERTY StopEnds
