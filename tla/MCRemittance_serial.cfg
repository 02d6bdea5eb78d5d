SPECIFICATION Spec
CONSTANTS
  Worker = {w1}
  Clerk = {k1}
  Date = {d1, d2}
  Payment = {p1, p2}
  Line = {l1}
  LineOf <- MCLineOf
  MoveTo = {d2}
  MaxRow = 3
  NoDate = NoDate
  Deleted = Deleted
SYMMETRY Symmetry
INVARIANTS
  CountedOnce
PROPERTIES
  ImplementsDayBook
