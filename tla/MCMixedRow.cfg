SPECIFICATION CollectionSpec
CONSTANTS
  Nothing = Nothing
  Unreadable = Unreadable
  Broken = Broken
  u1 = u1
  u2 = u2
  u3 = u3
  u4 = u4
  u5 = u5
  u6 = u6
  u7 = u7
  t1 = t1
  t2 = t2
  t3 = t3
  t4 = t4
  t5 = t5
  s1 = s1
  s2 = s2
  NULL = Nothing
  Failing = Unreadable
  Skew = 0
  Malformed = Broken
  Batches <- SomeBatches
  Alike <- SomeAlike
  Overlapping <- SomeOverlapping
  TitleLength <- SomeLength
  HeatLimit = 10000
  Workers = {w1, w2}
  MaxRuns = 3
INVARIANTS RowsWhole
