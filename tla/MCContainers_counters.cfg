SPECIFICATION FairSpec
CONSTANTS
  Clerk = {k1, k2}
  Customer = {c1}
  Loan = {b1, b2}
  Owner <- MCOwner
  Kind = {round, slim}
  MaxQty = 2
  NoKind = NoKind
INVARIANTS
  TypeOK
  CountersAddUp
PROPERTIES
  ContainerRequestsEnd
