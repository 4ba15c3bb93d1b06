SPECIFICATION Spec
CONSTANTS
  Updates = {u1, u2, u3}
  Handlers = {h1, h2}
  Admins = {a1, a2}
  None = None
  Steps <- MCSteps
  FaultBound = 1
SYMMETRY UpdateSymmetry
INVARIANTS EffectOnce ButtonsMatchSession
PROPERTIES CompletedIsFinal ChangeAsAsked DialogNotRevived
CHECK_DEADLOCK FALSE
