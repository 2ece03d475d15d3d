\* One scheduler, one request worker, a crash anywhere.
SPECIFICATION Spec
CONSTANTS
  Sweepers = {s1}
  WebWorkers = {w1}
  NoWorker = NoWorker
  MaxAttempts = 2
  LedgerAtStart <- EitherLedger
  FirePageFull = TRUE
  MaxEvents = 1
  MaxDefers = 0
  MaxPartials = 0
  MaxCrashes = 1
INVARIANTS TypeOK RowsMatchBudget AtMostOneCallPerKey
PROPERTIES NothingComesBack ParkedRetryHonoursOptOut
