SPECIFICATION Spec
CONSTANTS
  k1 = k1
  Keys = {k1}
  Values = {v1}
  Removal = Removal
  None = None
  Awaiters = {}
  Versions = {1, 2}
  MaxSaves = 2
  MaxRevision = 3
  MaxResets = 0
  MaxPolls = 2
  PollsInOrder = TRUE
PROPERTIES
  RowNeverGoesBack
  SyncIsSound
CHECK_DEADLOCK FALSE
