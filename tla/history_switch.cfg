SPECIFICATION Spec
CONSTANTS
  Callers <- MCCallers
  NoCaller = NoCaller
  None = None
  u1 = u1
  Inputs = {u1}
  Calls = {}
  Size <- MCSize
  Room = 1
  MaxRollback = 0
  MaxCompact = 1
  MaxSwitch = 1
  MaxCrash = 0
  MaxEvents = 2
SYMMETRY InputSymmetry
INVARIANT SwitchStillSeen
\* The session really may stop: it waits for its user.
CHECK_DEADLOCK FALSE
