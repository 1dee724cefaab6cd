SPECIFICATION AdaptersSpec
CONSTANTS
  MaxGenerations = 4
  Mounts = {1, 2}
  Apps = {1, 2}
  Places = {here, there, elsewhere}
  NoPlace = NoPlace
  MaxQueue = 2
  Overlapping = {"mount"}
INVARIANTS
  Consistent
PROPERTIES
  OnlyTheLatestFails
  ApplicationsSettle
  NegotiationsAreSafe
  EveryoneArrives
  NegotiationsEnd
CHECK_DEADLOCK FALSE
