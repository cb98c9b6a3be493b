SPECIFICATION FairSpec
CONSTANTS
  w1 = w1
  f1 = f1
  p1 = p1
  Workers = {w1}
  Fronts = {f1}
  StopOps = {p1}
  NoOp = NoOp
  NoSession = NoSession
  Unkillable = {}
  Grace = 1
  Timeout = 2
  MaxCrashes = 0
  MaxFaults = 1
CHECK_DEADLOCK FALSE
PROPERTIES
    StopsEnd
