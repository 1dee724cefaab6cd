SPECIFICATION FairSpec
CONSTANTS
  Mounts = {1, 2}
  Apps = {2}
  Places = {here, there}
  NoPlace = NoPlace
  MaxQueue = 2
  Overlapping = {}
PROPERTIES
  NegotiationsEnd
CHECK_DEADLOCK FALSE
