\* One task that may be recovered, paused and started again, across a crash
\* or a takeover: what never and what must eventually happen.
CONSTANTS
  Workers = {w1, w2}
  NoWorker = NoWorker
  Keys = {}
  NoKey = NoKey
  Lanes = {}
  NoLane = NoLane
  Publications <- PublicationsMC
  Evidence = {"completed", "failed", "cancelled"}
  MaxAttempts = 2
  Fenced = TRUE
  MaxTasks = 1
  MaxPauses = 1
  MaxEpochs = 2
  Requests = {"task", "cron"}
SPECIFICATION FairRunnerSpec
INVARIANTS
  ReviewsBounded
  SummaryTold
PROPERTIES
  QueueSpec
  PendingStarts
  RunningEnds
CHECK_DEADLOCK FALSE
