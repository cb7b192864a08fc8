CONSTANTS
  Workers = {w1, w2}
  Dates = {d1, d2}
  News = {n1}
  MaxRuns = 3
  NULL = NULL
SPECIFICATION FairFlowSpec
INVARIANTS FlowTypeOK ReportOfClusters TaskOfPublished UnforcedOnce
PROPERTIES EveryRunEnds
