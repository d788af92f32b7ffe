\* One turn, one history, two commands, two faults, time for two checks.
CONSTANTS
  Turns = {t}
  TaskIds = {h}
  Titles = {a}
  Ideas = {i}
  BatchSize = 1
  DraftLimit = 1
  Every = 1
  Cooldown = 2
  StartMode = "auto-evolve"
  Nothing = Nothing
  MaxVersions = 2
  MaxEvents = 2
  MaxCommands = 2
  MaxFaults = 2
  MaxTime = 2
SPECIFICATION FairSpec
INVARIANTS
  EvidenceKept
  ApprovedOnce
  OneOpenProposal
PROPERTY ChecksSettle
CHECK_DEADLOCK FALSE
