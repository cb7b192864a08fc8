CONSTANTS
  Workers = {w1, w2}
  Dates = {d1}
  News = {n1}
  MaxRuns = 3
  NULL = NULL
SPECIFICATION FlowSpec
INVARIANTS OneGeneration
