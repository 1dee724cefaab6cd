SPECIFICATION SharedSpec
CONSTANTS
  cart = cart
  payment = payment
  support = support
  order = order
  upload = upload
  Mounts = {cart, payment, support}
  Keys = {order, upload}
  Budget = 2
  MaxSpans = 3
  outer = outer
  inner = inner
  flow = flow
  editor = editor
  header = header
  Nested <- TwoApps
  Components = {flow, editor, header}
  InMount <- WhereTheyAre
  MaxNavigations = 2
  MaxRegistered = 3
  MaxItems = 2
  Tabs = {t1, t2}
  MaxFamilies = 1
  MaxSerial = 2
  Callers = {c1}
  HasLocks = TRUE
  CopyRaces = FALSE
  Consumers = {c1}
  Build <- SameBuild
  Records <- AnyVersion
  NoRecord = NoRecord
  NoEntry = NoEntry
  NoWriter = NoWriter
  ClearEvent = ClearEvent
  MaxUpdates = 2
  MaxEvents = 1
SYMMETRY Symmetry
INVARIANTS
  Consistent
  SessionsAreOwned
  TabsAreCurrent
PROPERTIES
  RunsOutliveMounts
  TrailIsKept
  UpdatesAreKept
CHECK_DEADLOCK FALSE
