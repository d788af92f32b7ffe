CONSTANTS
  Files = {queue, inbox}
  Fenced = {queue}
  FirstManifest = 1
  MaxBuild = 2
  MaxProcesses = 2
  MaxShells = 1
  MaxSaves = 1
  MaxKills = 1
SPECIFICATION OperationsSpec
INVARIANTS NeverAhead Vetted StopReported
PROPERTY ContentKept
CHECK_DEADLOCK FALSE
