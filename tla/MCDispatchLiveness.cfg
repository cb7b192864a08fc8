SPECIFICATION FairSpec
CONSTANTS
  s1 = s1
  s2 = s2
  NULL = NULL
  Senders = {s1}
  Reports = {1}
  MaxTasks = 2
  MaxRetry = 2
  Limits = {1}
  NumChunks = 1
  Flags = FALSE
  MaxFaults = 3
PROPERTIES EveryTaskSettles
