\* Attempts settle across a crash; without one the case does too.
SPECIFICATION FairSpec
CONSTANTS
  Sweepers = {s1}
  WebWorkers = {w1}
  NoWorker = NoWorker
  MaxAttempts = 1
  LedgerAtStart <- WithLedger
  FirePageFull = FALSE
  MaxEvents = 1
  MaxDefers = 1
  MaxPartials = 1
  MaxCrashes = 1
PROPERTIES AttemptsSettle CaseSettlesUnlessCrash
