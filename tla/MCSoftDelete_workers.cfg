SPECIFICATION Spec
CONSTANTS
  Request = {k1, k2}
  Customer = {c1}
  MaxOwed = 2
INVARIANTS
  DeletedOweNothing
