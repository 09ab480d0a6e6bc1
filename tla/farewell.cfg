SPECIFICATION FairSpec
CONSTANTS
  prepare = prepare
  goodbye = goodbye
  probe = probe
  beat = beat
  leave = leave
  Worker = {w1, w2}
  Cycle = {c1}
  NoCycle = NoCycle
  Binding = {goodbye, leave}
  Event <- Kind
  AppScoped = {leave, goodbye}
  Awaited = {goodbye, leave}
  Restarting = {}
  Threshold <- Thresholds
PROPERTIES
  RetirementEnds
  ShutdownReturns
