SPECIFICATION FairSpec
CONSTANTS
  Updates = {u1}
  Handlers = {h1, h2}
  Admins = {a1}
  None = None
  Steps <- MCSteps
  FaultBound = 1
PROPERTIES AckedIsCompleted
CHECK_DEADLOCK FALSE
