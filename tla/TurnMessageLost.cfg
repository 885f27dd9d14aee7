\* A message sent during an in-process start is left behind.
CONSTANTS
  p1 = p1
  p2 = p2
  p3 = p3
  p4 = p4
  None = none
  Ids = {i1, i2}
  Names = {n1}
  Msgs = {m1}
  Procs = {p1, p2}
  Allowed <- PlainStart
  Killable = {}
  Existing = {{}}
  MaxTurn = 1
  DiskFails = FALSE
SPECIFICATION Spec
INVARIANTS MessageKept
\* Every command ends, so the system comes to a stop.
CHECK_DEADLOCK FALSE
