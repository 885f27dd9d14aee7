\* A launcher dies before it recorded its worker, and wait never returns.
CONSTANTS
  p1 = p1
  p2 = p2
  p3 = p3
  p4 = p4
  None = none
  Ids = {i1}
  Names = {n1}
  Msgs = {}
  Procs = {p1, p2, p3}
  Allowed <- DetachedStart
  Killable = {p1}
  Existing = {{}}
  MaxTurn = 1
  DiskFails = FALSE
SPECIFICATION FairSpec
PROPERTIES WaitEnds
\* Every command ends, so the system comes to a stop.
CHECK_DEADLOCK FALSE
