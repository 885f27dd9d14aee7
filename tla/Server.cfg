\* A server runs and a newer build starts.  Of three records the old build does
\* not know the kind of the first, the second completes the tool call of the
\* first, and the third is refused; inserts of the first and the third may fail
\* in the middle.
CONSTANTS
  old = old
  new = new
  other = other
  None = none
  r1 = r1
  r2 = r2
  r3 = r3
  First = old
  Servers = {old, new}
  Build <- Builds
  Records = {r1, r2, r3}
  Since <- Sinces
  Call <- Calls
  Refused = {r3}
  Parted = {r1, r3}
  Cap = 2
  MaxFaults = 1
SPECIFICATION FairSpec
INVARIANTS SpoolInv OneCollector StoredOnce
PROPERTIES Drained
\* Each server and sender runs once and ends.
CHECK_DEADLOCK FALSE
