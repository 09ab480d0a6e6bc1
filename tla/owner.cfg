SPECIFICATION Spec
CONSTANTS
  Pid = {p1, p2, p3}
  Job = {j1, j2}
  None = None
  Ooth = Ooth
  Reaper = Reaper
  Closer = Closer
SYMMETRY Symmetry
INVARIANTS
  TypeOK
  StatusKept
  FamilyGone
