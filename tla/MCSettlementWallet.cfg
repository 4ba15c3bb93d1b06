SPECIFICATION Spec
CONSTANTS
  o1 = o1
  o2 = o2
  t1 = t1
  t2 = t2
  u1 = u1
  i1 = i1
  i2 = i2
  Users = {u1}
  Orders = {o1}
  Topups = {t1, t2}
  Items = {i1}
  Commands <- MCWalletCommands
  NoTarget = NoTarget
  Owner <- MCOwner
  Total <- MCTotal
  Reference <- MCReference
  Qty <- MCQty
  Product <- MCProduct
  Adjustments <- MCAdjustments
  LedgerBound = 2
  Resolutions = {}
INVARIANTS LedgerExplainsBalance EntriesMatchPayments MoneyIsAccounted
PROPERTIES KeepsThePromise
CHECK_DEADLOCK FALSE
