\* Every kind of request, a task that is recovered and started again, and the
\* retry of a failed one, which keeps its stage and review.
CONSTANTS
  Workers = {w1, w2}
  NoWorker = NoWorker
  Keys = {}
  NoKey = NoKey
  Lanes = {}
  NoLane = NoLane
  Publications <- PublicationsMC
  Evidence = {"completed", "failed", "cancelled"}
  MaxAttempts = 2
  Fenced = TRUE
  MaxTasks = 2
  MaxPauses = 0
  MaxEpochs = 1
  Requests = {"task", "cron", "direct", "unavailable"}
SYMMETRY Symmetry
VIEW Unspoken
SPECIFICATION RunnerSpec
INVARIANTS
  CompletedWasDone
  OneRunPerTask
  FenceSound
CHECK_DEADLOCK FALSE
