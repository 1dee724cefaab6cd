SPECIFICATION AgentSpec
CONSTANTS
  a1 = a1
  Registered = {a1}
  NoAction = NoAction
  Lanes = {"user", "read", "write"}
  MaxCalls = 3
  MaxMessages = 2
  MaxToolCalls = 2
  MaxRuns = 2
  MaxStops = 1
  Kinds = {"page", "quiet", "unknown", "backend"}
  CancelsMidway = FALSE
INVARIANTS
  Consistent
  ChatIsConsistent
PROPERTIES
  StartsOnlyIfWanted
  AgentRunsEnd
  TurnsAreWhole
  StoppedTurnsEnd
CHECK_DEADLOCK FALSE
