SPECIFICATION FairSpec
CONSTANTS
  web = web
  db = db
  x = x
  d = d
  App = {web, db}
  Worker = {x, d}
  Request = {}
  AppOf <- Pair
  MinWorkers <- Zero
  MaxWorkers <- One
  Startup = {}
  Listening = {web}
  Control = {web, db}
  Condition <- Requires
  ReadyBy <- ByStart
  Hooked <- WebHooks
  Limits <- NoLimits
  Watched = {}
  Unlaunchable = {}
PROPERTIES
  DemandMet
  ShutdownReturns
  DemandActivates
