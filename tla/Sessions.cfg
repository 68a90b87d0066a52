CONSTANTS
  User = {ann}
  Token = {1, 2, 3}
  Tx = {t1, t2}
  MaxChanges = 2
  LinkUser = {bob}
  LinkToken = {1, 2, 3, 4}
  LinkRequest = {r1, r2}
SYMMETRY Symmetry
SPECIFICATION BothSpec
INVARIANTS
  RotatedOnce
  NoRotationPastDeactivation
  LinksHold
PROPERTY TokensAnswerRight
CHECK_DEADLOCK FALSE
