\* Three events, one of a stranger, read in batches; two faults.
CONSTANTS
  MaxEvents = 3
  Strangers = {2}
  BatchSize = 2
  MaxAttempts = 2
  MaxRetries = 1
  MaxFaults = 2
SPECIFICATION FairSpec
INVARIANTS
  AcknowledgedWasAnswered
PROPERTIES
  CompletedNotRerun
  EventsPass
CHECK_DEADLOCK FALSE
