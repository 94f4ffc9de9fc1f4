SPECIFICATION Spec
CONSTANTS
  w1 = w1
  w2 = w2
  s1p = s1p
  r1 = r1
  x1 = x1
  a1 = a1
  Casts <- MCTearCasts
  Points = {p1}
  ReadOnly = {}
  Writers = {w1, w2}
  Scanners = {s1p}
  Readers = {r1}
  Pollers = {x1}
  Attachers = {a1}
  Times = {1, 3}
  Qualities <- MCQualities
  Timeout = 1
  MaxRetry = 1
  WriteAttempts = 2
  ReadAttempts = 2
  MaxSeq = 3
  MaxCrashes = 1
PROPERTY PollsConsistent
