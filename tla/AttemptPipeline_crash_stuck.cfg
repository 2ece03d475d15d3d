\* A crash after the last write-ahead leaves the case open for ever.
SPECIFICATION FairSpec
CONSTANTS
  Sweepers = {s1}
  WebWorkers = {}
  NoWorker = NoWorker
  MaxAttempts = 1
  LedgerAtStart <- WithLedger
  FirePageFull = FALSE
  MaxEvents = 0
  MaxDefers = 0
  MaxPartials = 0
  MaxCrashes = 1
PROPERTIES CaseSettles
