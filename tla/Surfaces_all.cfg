\* Two bridges and two calls; two couriers and two alerts; one scheduler that stamps three
\* events and anchors each; two workers behind one proxy;
\* two addresses that guess a password, two wrong ones before the lock.
SPECIFICATION Spec
CONSTANTS
  v1 = v1
  v2 = v2
  k1 = k1
  k2 = k2
  t1 = t1
  w1 = w1
  w2 = w2
  g1 = g1
  g2 = g2
  Bridges = {v1, v2}
  Calls = {1, 2}
  MaxTurns = 3
  MaxAbstains = 2
  MaxRestarts = 1
  MaxLost = 1
  Couriers = {k1, k2}
  MaxAlerts = 2
  MaxTries = 2
  BatchSize = 1
  MaxDeaths = 1
  Schedulers = {t1}
  MaxEvents = 3
  Interval = 1
  MaxRewrites = 1
  MaxTickDeaths = 1
  Workers = {w1, w2}
  Limit = 1
  Span = 2
  Hops = 1
  MaxOutages = 1
  MaxDoorCrashes = 1
  Screens = {"console", "dashboard"}
  Guessers = {g1, g2}
  GuessWindow = 1
  MaxFailures = 2
  Lockout = 2
  GcAt = 2
  SignClock = 4
CHECK_DEADLOCK FALSE
INVARIANTS
  SurfacesTypeOK DialledOnce DoorsBounded
PROPERTIES
  NoTrappedCaller AlertsSettle TamperingSurfaces LockoutEnds
