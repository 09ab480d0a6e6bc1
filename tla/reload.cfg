SPECIFICATION FairSpec
CONSTANTS
  web = web
  job = job
  web1 = web1
  web2 = web2
  web3 = web3
  job1 = job1
  App = {web, job}
  Config = {web1, web2, web3, job1}
  NoConfig = NoConfig
  Watching = {web1, web2, job1}
  Snapshot <- Snapshots
  NoSnapshot = NoSnapshot
  Invalid = Invalid
  Initial <- Both
  Roots <- Below
  Foreign <- OtherCgroup
  Contested <- Contenders
INVARIANTS
  Agreement
PROPERTIES
  ForfeitedRefused
  ChangeRestarts
  Converges
