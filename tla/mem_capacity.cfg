SPECIFICATION Spec
CONSTANTS
  t1 = t1
  t2 = t2
  p1 = p1
  p2 = p2
  Threads = {t1, t2}
  Passes = {p1, p2}
  MaxRunning = 1
  DefaultRetry = 2
  MaxUpdate = 1
  MaxFaults = 2
  NoPass = NoPass
SYMMETRY Symmetry
INVARIANTS
  RunningWithinLimit
  NoLostConsolidation
