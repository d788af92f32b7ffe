\* Two extensions with a task each, a takeover, one fault.
CONSTANTS
  x = x
  y = y
  MaxTasks = 2
  Extensions <- ExtensionsMC
  Owner <- OwnerMC
  MaxDaemons = 2
  MaxLog = 4
  MaxFaults = 1
SPECIFICATION FairSpec
INVARIANTS
  HandledInOrder
  OutcomesTrue
PROPERTIES
  EventsDelivered
