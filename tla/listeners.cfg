SPECIFICATION FairSpec
CONSTANTS
  web = web
  api = api
  port = port
  sock = sock
  path = path
  onPort = onPort
  onSock = onSock
  onPath = onPath
  sockOnly = sockOnly
  pathOnly = pathOnly
  root = root
  daemon = daemon
  www = www
  open = open
  shared = shared
  private = private
  App = {web, api}
  NoApp = NoApp
  Config = {onPort, onSock, onPath, sockOnly, pathOnly}
  NoConfig = NoConfig
  Address = {port, sock, path}
  NoAddress = NoAddress
  Unix = {sock, path}
  Frail = {port}
  Owner = {root, daemon, www}
  FileMode = {open, shared, private}
  NoFile = NoFile
  Plain <- Bare
  Listen <- Addresses
  Mode <- Modes
  Snapshot <- Snapshots
  NoSnapshot = NoSnapshot
  Foreign <- OtherCgroup
  LastListener = 3
INVARIANTS
  TypeOK
  Registered
  NeverDeaf
  Permitted
PROPERTIES
  ConnectionNoticed
  ImplementsRegistry
