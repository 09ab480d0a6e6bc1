SPECIFICATION Spec
CONSTANTS
  web = web
  api = api
  db = db
  x = x
  y = y
  z = z
  App = {web, api, db}
  Worker = {x, y, z}
  Request = {}
  AppOf <- Chain
  MinWorkers <- Zero
  MaxWorkers <- One
  Startup = {}
  Listening = {web, db}
  Control = {api}
  Condition <- Depends
  ReadyBy <- ByStart
  Hooked <- NoHooks
  Limits <- NoLimits
  Watched = {}
  Unlaunchable = {}
PROPERTY
  DependencyHeld
