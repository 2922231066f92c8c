SPECIFICATION Spec
CONSTANTS
  MaxTurn = 1
  a = a
  Inputs = {a}
  Files = {"open"}
INVARIANT UncancelledTurnCompletes
\* The session really may stop: after shutdown, or waiting for its user.
CHECK_DEADLOCK FALSE
