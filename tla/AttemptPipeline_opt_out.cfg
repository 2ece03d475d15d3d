\* An opt-out commits between the re-read of the case and the ledger lock.
SPECIFICATION Spec
CONSTANTS
  Sweepers = {s1}
  WebWorkers = {}
  NoWorker = NoWorker
  MaxAttempts = 1
  LedgerAtStart <- WithLedger
  FirePageFull = FALSE
  MaxEvents = 0
  MaxDefers = 0
  MaxPartials = 0
  MaxCrashes = 0
PROPERTIES NoContactArmedAfterOptOut
