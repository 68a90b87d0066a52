CONSTANTS
  Event = {1, 2}
  Dispatcher = {d1, d2}
  Partition = {p1}
  PartOf <- MCPartOf
  Unpublishable = {2}
  BATCH_SIZE = 2
  LEASE = 3
  PUBLISH_BUDGET = 1
  MAX_RETRY_DELAY = 2
  BookTime = 1
  MaxAttempts = 1
  MaxFaults = 1
  Malformed = {}
  MAX_ATTEMPTS = 2
SPECIFICATION PipelineSpec
INVARIANTS
  ClaimsDisjoint
  PublishedIsLogged
PROPERTIES
  KeepsPromise
CHECK_DEADLOCK FALSE
