\* A writer with a budget of seven bytes, whose chunks of up to three may overflow;
\* four follow-ups in batches of up to two; two tasks with a retention limit of one;
\* two messages to an AGY, two failed writes.
CONSTANTS
  Low = 1
  High = 2
  Hard = 4
  MaxChunk = 3
  Budget = 7
  N = 4
  MaxTasks = 2
  Tasks = {t1, t2}
  Captured = {t1}
  Limit = 1
  Messages = 2
  MaxFaults = 2
  MaxOpen = 2
SPECIFICATION HostSpec
INVARIANTS WriterInv DeliveryInv RecordsAreTrue CancelledIsGone OneFollowUp WatchedOrTried InboxInv
PROPERTIES ResultIsFinal Ends HeldWhileCompacting SentInTheEnd NaturalEndTold UnconfirmedSettles ShutdownEnds InboxDrained
\* What is cleaned up or shut down, and an AGY session that ended, is done.
CHECK_DEADLOCK FALSE
