SPECIFICATION Spec
CONSTANTS
  r1 = r1
  r2 = r2
  r3 = r3
  p1 = p1
  k1 = k1
  k2 = k2
  Admins = {a1, a2}
  Categories = {c1}
  Products = {p1}
  Names = {n1}
  Prices = {1, 2}
  NoRow = NoRow
  NoDialog = NoDialog
  VersionBound = 3
  Requests = {r1, r2, r3}
  Keys = {k1, k2}
  KeyOf <- MCKeyOf
  ProductOf <- MCProductOf
  NoRequest = NoRequest
  NoOrder = NoOrder
  References = {x1, x2}
  ReferenceAttempts = 2
  BankVersionBound = 2
SYMMETRY MCSymmetry
INVARIANTS OneOrderPerKey
PROPERTIES NoLostUpdate OrderedAsListed
CHECK_DEADLOCK FALSE
