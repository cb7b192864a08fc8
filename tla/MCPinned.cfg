SPECIFICATION UnattendedSpec
CONSTANTS
  s1 = s1
  s2 = s2
  NULL = NULL
  Senders = {s1, s2}
  Reports = {1}
  MaxTasks = 1
  MaxRetry = 1
  Limits = {1}
  NumChunks = 1
  Flags = FALSE
  MaxFaults = 1
PROPERTIES PinnedTaskReleased
