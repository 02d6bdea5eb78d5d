SPECIFICATION Spec
CONSTANTS
  Worker = {w1, w2}
  Clerk = {k1}
  Date = {d1, d2}
  Payment = {p1}
  Line = {l1}
  LineOf <- MCLineOf
  MoveTo = {d1, d2}
  MaxRow = 4
  NoDate = NoDate
  Deleted = Deleted
PROPERTIES
  PaymentsAreNotTakenOver
