SPECIFICATION FairSpec
CONSTANTS
  t1 = t1
  p1 = p1
  p2 = p2
  Threads = {t1}
  Passes = {p1, p2}
  MaxRunning = 1
  DefaultRetry = 2
  MaxUpdate = 2
  MaxFaults = 1
  NoPass = NoPass
INVARIANTS
  TypeOK
  OutputBelowSuccess
PROPERTIES
  SuccessNeverRegresses
  StaleThreadSettles
  DirtySettles
