CONSTANTS
  Interval = 3
  CallTime = 2
  ProbeTime = 1
  OnlineAfter = 6
  DegradedAfter = 18
  Skews <- SomeSkews
  MaxAge = 20
  MaxFaults = 1
SPECIFICATION FairHealthSpec
INVARIANTS HealthTypeOK LiveIsKnown HealthyIsRecent
PROPERTIES OnlineAgain
