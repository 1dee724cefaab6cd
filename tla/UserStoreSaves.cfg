SPECIFICATION FairSpec
CONSTANTS
  k1 = k1
  Keys = {k1}
  Values = {v1}
  Removal = Removal
  None = None
  Awaiters = {w1}
  Versions = {1}
  MaxSaves = 3
  MaxRevision = 0
  MaxResets = 1
  MaxPolls = 0
  PollsInOrder = TRUE
INVARIANTS
  Consistent
  CallsAreHonoured
PROPERTIES
  StoredInCallOrder
  EveryoneIsAnswered
CHECK_DEADLOCK FALSE
