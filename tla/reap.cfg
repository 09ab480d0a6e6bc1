SPECIFICATION FairSpec
CONSTANTS
  Pid = {p1, p2, p3}
  Job = {j1}
  None = None
  Ooth = Ooth
  Reaper = Reaper
  Closer = Closer
PROPERTIES
  AdoptedCollected
  CloseReturns
