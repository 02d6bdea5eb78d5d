SPECIFICATION FlagsSpec
CONSTANTS
  User = {u1, u2}
  Remittance = {r1, r2}
SYMMETRY Symmetry
PROPERTIES
  PaidStaysPaid
