SPECIFICATION Spec
CONSTANTS
  MaxTurn = 2
  a = a
  b = b
  Inputs = {a, b}
  Files = {"deferred", "open"}
SYMMETRY Symmetry
INVARIANTS
  AtMostOneRunning
  ReplacedTurnReportedFirst
  ActiveTurnAbortable
  MarkerInOpenRollout
  InputAccountedOnce
PROPERTY ImplementsSlot
\* The session really may stop: after shutdown, or waiting for its user.
CHECK_DEADLOCK FALSE
