SPECIFICATION Spec
CONSTANTS
  Worker = {w1, w2, w3}
  Clerk = {}
  Date = {d1}
  Payment = {p1, p2}
  Line = {l1}
  LineOf <- MCLineOf
  MoveTo = {}
  MaxRow = 4
  NoDate = NoDate
  Deleted = Deleted
SYMMETRY Symmetry
INVARIANTS
  OneRowPerDate
  HeldRowsAreDrafts
PROPERTIES
  FinalizedForever
  ImplementsDayBook
