SPECIFICATION AuthenticationSpec
CONSTANTS
  MaxRequests = 2
  MaxRenewals = 2
  MaxTokens = 3
  Tabs = {t1}
  MaxFamilies = 1
  MaxSerial = 2
  Callers = {c1, c2}
  HasLocks = FALSE
  CopyRaces = FALSE
PROPERTIES
  RenewalsAreShared
  TokenIsKept
  EveryWaitEnds
  EveryoneGetsOn
CHECK_DEADLOCK FALSE
