\* Two sessions whose names and IDs overlap, one message, two clients; two servers
\* of one channel, two messages, room for one receipt.
CONSTANTS
  i1 = i1
  i2 = i2
  n1 = n1
  Names <- SharedNames
  Released <- ReleaseToPlain
  Metas = {open}
  Queueable = {open}
  Failed = {open}
  Msgs = {m1}
  Clients = {c1, c2}
  Free = free
  Server = {s1, s2}
  Message = {w1, w2}
  MaxReceipts = 1
  None = none
  Nobody = nobody
  Ids = {i1, i2}
SPECIFICATION BothSpec
SYMMETRY AllSymmetry
INVARIANTS QueueExact ChannelInv
PROPERTIES RegistrySpec CreatedApart RemovedIsArchived
\* A channel whose servers have ended and whose senders have an answer is done.
CHECK_DEADLOCK FALSE
