SPECIFICATION FairSpec
CONSTANTS
  web = web
  App = {web}
  Worker = {w1, w2}
  Request = {}
  AppOf <- OneApp
  MinWorkers <- One
  MaxWorkers <- One
  Startup = {}
  Listening = {web}
  Control = {web}
  Condition <- NoDependency
  ReadyBy <- ByEvent
  Hooked <- NoHooks
  Limits <- NoLimits
  Watched = {}
  Unlaunchable = {}
PROPERTIES
  RetirementEnds
  MinimumRestored
