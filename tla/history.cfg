SPECIFICATION Spec
CONSTANTS
  Callers <- MCCallers
  NoCaller = NoCaller
  None = None
  u1 = u1
  u2 = u2
  Inputs = {u1, u2}
  c1 = c1
  Calls = {c1}
  Size <- MCSize
  Room = 1
  MaxRollback = 1
  MaxCompact = 1
  MaxSwitch = 1
  MaxCrash = 1
  MaxEvents = 2
SYMMETRY InputSymmetry
INVARIANTS
  ResumesAsSeen
  ForkKeepsPrefix
  AckedIsDurable
  WaitersServed
  PromptsBalanced
PROPERTY ImplementsLog
\* The session really may stop: it waits for its user.
CHECK_DEADLOCK FALSE
