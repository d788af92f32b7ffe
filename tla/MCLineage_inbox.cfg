\* Two changes, three commands, a takeover, a fault.
CONSTANTS
  MaxChanges = 2
  MaxRequests = 3
  MaxDaemons = 2
  MaxFaults = 1
  RefreshLimit = 1
SPECIFICATION FairSpec
INVARIANTS
  NothingMissed
  DecisionsKept
PROPERTIES
  AssessmentsSettle
CHECK_DEADLOCK FALSE
