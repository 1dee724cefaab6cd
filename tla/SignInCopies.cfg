SPECIFICATION Spec
CONSTANTS
  Tabs = {t1, t2}
  MaxFamilies = 2
  MaxSerial = 2
  Callers = {c1}
  HasLocks = TRUE
  CopyRaces = TRUE
SYMMETRY Symmetry
INVARIANTS
  CopiedSessionIsNeverUsed
CHECK_DEADLOCK FALSE
