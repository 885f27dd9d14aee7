\* Three builds, any runs of them with crashes, failures and edits, then retries of the last.
CONSTANTS
  d1 = d1
  d2 = d2
  a1 = a1
  a2 = a2
  b1 = b1
  b2 = b2
  m1 = m1
  None = none
  Deps = {d1, d2}
  Versions = {1, 2, 3}
  Bytes = {a1, a2, b1, b2, m1}
  Payload <- Builds
  Latest = 3
  MaxRuns = 3
  MaxFaults = 2
  MaxEdits = 1
SPECIFICATION FairSpec
INVARIANTS Recorded
PROPERTIES PersonsFilesStay NeverBreaks EndsAsReported ApplyIsIdempotent RetriesConverge
