SPECIFICATION Spec
CONSTANTS
  ada = ada
  bob = bob
  Nobody = nobody
  viewers = viewers
  editors = editors
  app = app
  widget = widget
  Users = {ada, bob}
  Groups = {viewers}
  Mounts = {app, widget}
  Inside <- MCInside
  StoredTheme = TRUE
  LateEffects = TRUE
  MaxSessions = 3
SYMMETRY Symmetry
INVARIANT
  CallbacksSeeCurrent
