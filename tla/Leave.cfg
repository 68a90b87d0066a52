CONSTANTS
  Enrolment = {e1, e2}
  Session = {s1, s2, s3}
  Leave = {l1, l2}
  Tx = {t1, t2}
  None = None
  max_students = 2

SPECIFICATION MCSpec
SYMMETRY MCSymmetry

INVARIANT LeavesAgree

PROPERTY DecidedIsFinal
