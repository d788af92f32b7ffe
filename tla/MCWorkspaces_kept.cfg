CONSTANTS
  Doctors = {"task", "operator"}
  NoDoctor = NoDoctor
  MaxTasks = 2
  MaxAttempts = 2
  MaxFaults = 1
  Forges = {TRUE, FALSE}
  Kinds = {"edit", "reference"}
SPECIFICATION WorkspacesSpec
INVARIANT WorkKept
PROPERTY TestsUndisturbed
