\* Two newer builds start, without a fault and without records.
CONSTANTS
  old = old
  new = new
  other = other
  None = none
  r1 = r1
  r2 = r2
  r3 = r3
  First = old
  Servers = {old, new, other}
  Build <- Builds
  Records = {}
  Since <- Sinces
  Call <- Calls
  Refused = {}
  Parted = {}
  Cap = 1
  MaxFaults = 0
SPECIFICATION Spec
INVARIANT SingleServer
\* Each server and sender runs once and ends.
CHECK_DEADLOCK FALSE
