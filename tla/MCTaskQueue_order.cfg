\* The lists: two tasks, a lane, an idempotency key, one worker.
CONSTANTS
  Workers = {w1}
  NoWorker = NoWorker
  Keys = {k1}
  NoKey = NoKey
  Lanes = {l1}
  NoLane = NoLane
  Publications = {}
  Evidence = {}
  MaxAttempts = 2
  Fenced = TRUE
  MaxTasks = 2
  MaxPauses = 1
SPECIFICATION Spec
INVARIANTS
  KeysUnique
PROPERTIES
  LaneFifo
  LifecycleSpec
