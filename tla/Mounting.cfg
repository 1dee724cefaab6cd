SPECIFICATION MountingSpec
CONSTANTS
  first = first
  second = second
  Inputs <- TwoInputs
  MaxAttempts = 2
  HostReenters = FALSE
  app = app
  widget = widget
  container = container
  Entries = {app, widget}
  Containers = {container}
  ContainerOf <- OneContainer
  NoEntry = NoEntry
  MaxCalls = 2
  MaxLoads = 2
  MaxClears = 1
INVARIANTS
  Consistent
  AttemptsDoNotOverlap
PROPERTIES
  KeepsLifecycle
  MountsSettle
  LoadsAreShared
  ModulesAreSafe
  EveryLoadSettles
CHECK_DEADLOCK FALSE
