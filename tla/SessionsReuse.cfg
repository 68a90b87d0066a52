CONSTANTS
  User = {ann}
  Token = {1, 2, 3}
  Tx = {t1, t2}
  MaxChanges = 0
SPECIFICATION Spec
INVARIANT FamilyRevoked
CHECK_DEADLOCK FALSE
