\* Two resumes pass the writer check of one session.
CONSTANTS
  p1 = p1
  p2 = p2
  p3 = p3
  p4 = p4
  None = none
  Ids = {i1}
  Names = {n1}
  Msgs = {}
  Procs = {p1, p2}
  Allowed <- TwoResumes
  Killable = {}
  Existing = {{i1}}
  MaxTurn = 3
  DiskFails = FALSE
SPECIFICATION Spec
INVARIANTS OneTurn
\* Every command ends, so the system comes to a stop.
CHECK_DEADLOCK FALSE
