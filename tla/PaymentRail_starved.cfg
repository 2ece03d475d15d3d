\* The sweep's page is smaller than the number of links a case has left behind.
SPECIFICATION FairPaySpec
CONSTANTS
  w1 = w1
  w2 = w2
  t1 = t1
  s1 = s1
  Webhooks = {w1, w2}
  Taps = {}
  Scheduler = s1
  RetryLimit = 2
  LinkPage = 1
  MaxRailRows = 2
  MaxDeadSessions = 0
CHECK_DEADLOCK FALSE
PROPERTIES LinksDieWithCase
