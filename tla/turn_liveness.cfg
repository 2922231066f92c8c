SPECIFICATION FairSpec
CONSTANTS
  MaxTurn = 2
  a = a
  Inputs = {a}
  Files = {"none"}
PROPERTIES
  LoopReturns
  CancelledTurnEnds
  AcceptedInputResolved
\* The session really may stop: after shutdown, or waiting for its user.
CHECK_DEADLOCK FALSE
