\* A start or a resume, in-process or detached, against any other command.
CONSTANTS
  p1 = p1
  p2 = p2
  p3 = p3
  p4 = p4
  None = none
  Ids = {i1, i2}
  Names = {n1}
  Msgs = {m1}
  Procs = {p1, p2, p3}
  Allowed <- TurnAndAny
  Killable = {p2}
  Existing = {{}, {i1}}
  MaxTurn = 3
  DiskFails = TRUE
SPECIFICATION FairSpec
INVARIANTS OutcomeKept TurnIsRecorded AckedWasTold
PROPERTIES NameKept TurnsKept NamedWaitEnds
\* Every command ends, so the system comes to a stop.
CHECK_DEADLOCK FALSE
