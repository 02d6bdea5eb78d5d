SPECIFICATION Spec
CONSTANTS
  Owner = boss
  User = {boss, clerk}
  Request = {r1, r2}
  LastDay = 1
SYMMETRY Symmetry
INVARIANTS TypeOK StatusAgrees TemporaryIsForced DirectoryAgrees
PROPERTY DeactivatedOnPurpose
CHECK_DEADLOCK FALSE
