SPECIFICATION Spec
CONSTANTS
  o1 = o1
  o2 = o2
  t1 = t1
  t2 = t2
  u1 = u1
  i1 = i1
  i2 = i2
  Users = {u1}
  Orders = {o1, o2}
  Topups = {}
  Items = {i1, i2}
  Commands <- MCOrderCommands
  NoTarget = NoTarget
  Owner <- MCOwner
  Total <- MCTotal
  Reference <- MCReference
  Qty <- MCQty
  Product <- MCProduct
  Adjustments = {3}
  LedgerBound = 1
  Resolutions = {"resolved"}
SYMMETRY ItemSymmetry
INVARIANT ConfirmedHaveOutcome
CHECK_DEADLOCK FALSE
