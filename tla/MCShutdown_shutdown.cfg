SPECIFICATION Spec
CONSTANTS
  w1 = w1
  f1 = f1
  p1 = p1
  p2 = p2
  Workers = {w1}
  Fronts = {f1}
  StopOps = {p1, p2}
  NoOp = NoOp
  NoSession = NoSession
  Unkillable = {}
  Grace = 1
  Timeout = 4
  MaxCrashes = 1
  MaxFaults = 0
CHECK_DEADLOCK FALSE
SYMMETRY Symmetry
INVARIANTS
    StoppedMeansGone
PROPERTIES
    StopReplayed
    IdleStopsNobody
