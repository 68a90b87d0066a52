CONSTANTS
  Event = {e1, e2, e3}
  Partition = {p1, p2}
  Malformed = {e3}
  MAX_ATTEMPTS = 2
  MaxLog = 2
SPECIFICATION Spec
INVARIANT NothingSkipped
PROPERTIES
  CommitsForward
  ShutdownCompletes
