SPECIFICATION FairSpec
CONSTANTS
  Clerk = {k1, k2}
  Customer = {c1}
  Line = {l1}
  Owner <- MCOwner
  MaxSlot = 2
  MaxQty = 2
  Price = {0, 2}
  Amount = {0, 1}
  Limit = {0, 3}
  NoTarget = NoTarget
INVARIANTS
  TypeOK
  DebtIsLedgerSum
  UnitsAddUp
PROPERTIES
  LimitRespected
  RemittedPaymentsStay
  LedgerRequestsEnd
