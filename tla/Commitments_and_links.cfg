\* Two promises of one case, kept in one plan or apart; two payment.failed events and a press
\* of the pay button on another, where any process may die.
SPECIFICATION Spec
CONSTANTS
  a1 = a1
  c1 = c1
  Schedulers = {a1}
  Chasers = {c1}
  Deployments <- ChasedOrCalled
  Surfaces = {"voice"}
  MaxRows = 2
  MaxPromises = 2
  MaxAttempts = 1
  Horizon = 3
  PageNotice = 1
  Grace = 1
  Lead = 2
  Backoff = 1
  ReChase = 1
  NoticeMin = 1
  NoticeMax = 3
  Window = 12
  LastDue = 2
  MaxClock = 3
  PlanSpan = 2
  Busy = {FALSE}
  MaxCrashes = 0
  w1 = w1
  w2 = w2
  t1 = t1
  s1 = s1
  Webhooks = {w1, w2}
  Taps = {t1}
  Scheduler = s1
  RetryLimit = 1
  LinkPage = 3
  MaxRailRows = 3
  MaxDeadSessions = 1
CHECK_DEADLOCK FALSE
INVARIANTS
  PlanVerdictFits BothTypeOK LinksWithinBudget
PROPERTIES
  CommitmentsSettle RailSettles OnePayableLeft
