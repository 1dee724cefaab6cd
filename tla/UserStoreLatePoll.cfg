SPECIFICATION Spec
CONSTANTS
  k1 = k1
  Keys = {k1}
  Values = {v1}
  Removal = Removal
  None = None
  Awaiters = {}
  Versions = {1}
  MaxSaves = 0
  MaxRevision = 2
  MaxResets = 0
  MaxPolls = 2
  PollsInOrder = FALSE
PROPERTIES
  OnlyRemovedRowsGo
CHECK_DEADLOCK FALSE
