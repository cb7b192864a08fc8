SPECIFICATION SystemSpec
CONSTANTS
  s1 = s1
  s2 = s2
  NULL = NULL
  Senders = {s1, s2}
  Reports = {1}
  MaxTasks = 1
  MaxRetry = 2
  Limits = {1}
  NumChunks = 2
  Flags = TRUE
  MaxFaults = 1
INVARIANTS ConflictedResultConfirmed
