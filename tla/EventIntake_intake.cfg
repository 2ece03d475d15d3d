\* One failed payment and two schedulers, or a payment and a capture and one.
SPECIFICATION CastSpec
CONSTANTS
  f1 = f1
  c1 = c1
  s1 = s1
  s2 = s2
  FailedEvents = {f1}
  CapturedEvents = {c1}
  Sweepers = {s1, s2}
  NoEvent = NoEvent
  SlowTasks = TRUE
  RetryCap = 2
  Budget = 2
  MaxDeliveries = 2
  MaxFaults = 1
  MaxOutages = 1
  MaxTaskDeaths = 1
  MaxSweepDeaths = 1
CHECK_DEADLOCK FALSE
INVARIANTS TypeOK StoredExactlyOnce ContactsWithinBudget EventsKept
PROPERTIES AckedEventsResolve
