SPECIFICATION PromiseSpec
CONSTANTS
  s1 = s1
  s2 = s2
  c1 = c1
  Schedulers = {s1,s2}
  Chasers = {c1}
  Deployments <- ChasedOrPair
  MaxRows = 1
  MaxPromises = 2
  MaxAttempts = 2
  Horizon = 4
  PageNotice = 1
  Grace = 2
  Lead = 3
  Backoff = 2
  ReChase = 1
  NoticeMin = 2
  NoticeMax = 3
  Window = 4
  LastDue = 4
  MaxClock = 5
  Surfaces = {"page"}
  Busy = {FALSE}
  MaxCrashes = 1
INVARIANTS
  PromiseTypeOK
  BrokenWasUnpaid
  SilenceKept
PROPERTIES
  DebitsHonourContract
CHECK_DEADLOCK FALSE
