SPECIFICATION Spec
CONSTANTS
  prepare = prepare
  goodbye = goodbye
  probe = probe
  beat = beat
  leave = leave
  Worker = {w1, w2}
  Cycle = {c1, c2}
  NoCycle = NoCycle
  Binding = {prepare, goodbye, probe}
  Event <- Kind
  AppScoped = {prepare, goodbye}
  Awaited = {prepare, goodbye, probe}
  Restarting = {prepare, probe}
  Threshold <- Thresholds
SYMMETRY Symmetry
INVARIANTS
  Generations
  LastWords
  Gated
  ChecksCancelled
  TasksCounted
PROPERTIES
  ImplementsPool
