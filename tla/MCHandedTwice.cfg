SPECIFICATION TxSpec
CONSTANTS
  s1 = s1
  s2 = s2
  w1 = w1
  w2 = w2
  NULL = NULL
  Senders = {s1, s2}
  Workers = {w1, w2}
  Reports = {1}
  MaxTasks = 1
  MaxRetry = 2
  Limits = {1}
SYMMETRY Symmetry
INVARIANTS RepeatsBounded
