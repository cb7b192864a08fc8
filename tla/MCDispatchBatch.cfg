SPECIFICATION Spec
CONSTANTS
  s1 = s1
  s2 = s2
  NULL = NULL
  Senders = {s1, s2}
  Reports = {1, 2}
  MaxTasks = 2
  MaxRetry = 2
  Limits = {1, 2}
SYMMETRY Symmetry
INVARIANTS TypeOK AttemptLedger RetryBudget ClaimTimed
PROPERTIES TerminalStable OldestFirst ImplementsLifecycle
VIEW WithoutEvents
