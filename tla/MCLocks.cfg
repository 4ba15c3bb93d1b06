CONSTANTS
  Connections = 3
  None = None
  TxBound = 2
  MaxAttempts = 2
SPECIFICATION Spec
INVARIANTS DeadlocksAreKnown
PROPERTIES PaymentSurvivesDeadlocks
CHECK_DEADLOCK FALSE
