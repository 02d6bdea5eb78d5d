SPECIFICATION Spec
CONSTANTS
  Request = {k1, k2}
  Customer = {c1}
  Line = {l1}
  Loan = {b1}
  Payment = {p1}
  Price = {0, 2}
  Amount = {0, 1, 2}
  LastDay = 2
  RemitDay = {1}
  Threshold = 1
  None = None
SYMMETRY Symmetry
INVARIANTS
  ListsAgree
  HistoryOffersWhatIsAccepted
PROPERTIES
  OverdueWithinADay
  DeletedRest
CHECK_DEADLOCK FALSE
