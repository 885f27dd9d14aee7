\* A stale copy is written back after its session was deleted.
CONSTANTS
  i1 = i1
  i2 = i2
  n1 = n1
  Names <- SharedNames
  Released <- ReleaseToPlain
  Metas = {open}
  Queueable = {open}
  Failed = {open}
  Msgs = {m1}
  Clients = {c1, c2}
  Free = free
  None = none
  Ids = {i1, i2}
SPECIFICATION Spec
PROPERTIES NoResurrection
