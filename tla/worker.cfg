SPECIFICATION Spec
CONSTANTS
  web = web
  App = {web}
  Worker = {w1, w2}
  Request = {q}
  AppOf <- OneApp
  MinWorkers <- Zero
  MaxWorkers <- One
  Startup = {}
  Listening = {web}
  Control = {web}
  Condition <- NoDependency
  ReadyBy <- ByEndpoint
  Hooked <- StartStopHooks
  Limits <- AllLimits
  Watched = {web}
  Unlaunchable = {web}
SYMMETRY Symmetry
INVARIANTS
  TypeOK
  Supervised
  StopProtocol
  NothingLeft
PROPERTIES
  ChargedOnce
