SPECIFICATION Spec
CONSTANTS
  web = web
  App = {web}
  Worker = {w1, w2, w3}
  Request = {}
  AppOf <- OneApp
  MinWorkers <- One
  MaxWorkers <- Two
  Startup = {}
  Listening = {web}
  Control = {web}
  Condition <- NoDependency
  ReadyBy <- ByEvent
  Hooked <- NoHooks
  Limits <- NoLimits
  Watched = {}
  Unlaunchable = {}
SYMMETRY Symmetry
INVARIANTS
  Capacity
PROPERTIES
  ImplementsPool
  RetiresForGood
  IdleKeepsMinimum
