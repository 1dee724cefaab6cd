SPECIFICATION ChromeSpec
CONSTANTS
  Slots = {"shell", "outer", "inner"}
  Scopes = {"host", "orders", "lines"}
  Host = "host"
  ScopeOf <- TwoApps
  DefinitionOf <- OneDefinition
  Widgets = {}
  Places <- NestedPlaces
  NamesOf <- SameNames
  Shortcuts <- OneAndLonger
  Plain = {"r"}
  DecisionsOf <- OuterDecides
  MaxTyped = 2
  ada = ada
  bob = bob
  Nobody = nobody
  viewers = viewers
  app = app
  widget = widget
  Users = {ada, bob}
  Groups = {viewers}
  Mounts = {app, widget}
  Inside <- WidgetInApp
  MaxSessions = 3
SYMMETRY Symmetry
INVARIANTS
  Consistent
  KeysHaveOneOwner
  IdsAreUnique
  PageIsCurrent
PROPERTY
  EntriesStay
CHECK_DEADLOCK FALSE
