SPECIFICATION FairSpec
CONSTANTS
  Worker = {w1, w2}
  Clerk = {k1}
  Date = {d1}
  Payment = {p1}
  Line = {l1}
  LineOf <- MCLineOf
  MoveTo = {}
  MaxRow = 3
  NoDate = NoDate
  Deleted = Deleted
INVARIANTS
  LinksPointAtLiveRows
  LinkedWereCounted
  IInv
PROPERTIES
  RequestsEnd
