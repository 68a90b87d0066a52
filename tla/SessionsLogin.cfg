CONSTANTS
  User = {ann}
  Token = {1, 2, 3}
  Tx = {t1, t2}
  MaxChanges = 2
SPECIFICATION Spec
INVARIANT DeactivatedHasNoSession
CHECK_DEADLOCK FALSE
