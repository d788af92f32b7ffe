\* One cron job, one schedule or two backlog items; two threads, two events.
CONSTANTS
  Crons = {1}
  Schedules = {1}
  Items = {1, 2}
  Passes = {p1, p2}
  Keys = {k1, k2}
  NoKey = NoKey
  Every = 2
  HistoryLimit = 1
  Specs = {"interval", "daily"}
  Loads <- LoadsMC
  MaxTime = 4
  MaxEvents = 2
SPECIFICATION FairSpec
INVARIANTS
  OneOutstanding
  RunKeysRemembered
PROPERTIES
  ClaimsSettle
CHECK_DEADLOCK FALSE
