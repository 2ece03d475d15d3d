\* Two invoices of one buyer; two cases of one order; three payment failures of one customer;
\* a case of each rule of contact; two decisions at once; two batch runs over a case; two
\* cases' pages.
SPECIFICATION Spec
CONSTANTS
  inv1 = inv1
  inv2 = inv2
  Invoices = {inv1, inv2}
  Unlinked = {}
  Rungs <- ShortLadder
  Arrivals <- Reports
  Window = 2
  ReChase = 1
  MaxAttempts = 2
  WorkingDays = 1
  Week = 2
  c1 = c1
  c2 = c2
  Cases <- TwoCases
  Payments = {"link", "part", "note", "neft", "void"}
  CaptureWorkers = {w1}
  AtRisk <- DueInFull
  OpenedAt <- Rank
  Amount <- Money
  BankPayments <- Neft
  Ours <- LinkCase
  OrderCases <- OrderCasesOf
  Noted <- NoteCase
  NoCase = NoCase
  NoPayment = NoPayment
  MaxDeliveries = 2
  PayWorkers = {p1, p2, p3}
  ChaseWorkers = {}
  Limit = 2
  MaxContacts = 7
  MaxCrashes = 1
  NoWorker = NoWorker
  NoRow = NoRow
  Day = 4
  Start = 3
  End = 1
  Policies <- SmallPolicies
  PayWindow = 6
  PayLimit = 2
  NoticeValid = 5
  Backoff = 4
  LastCall = 1
  RuleCases <- SmallCases
  Think = 1
  MaxClock = 13
  Sessions = {d1, d2}
  HasAgent = {TRUE, FALSE}
  MaxFallbacks = 3
  Runs = {b1, b2}
  Cohort = {1}
  BatchBudget = 2
  page1 = page1
  page2 = page2
  ann = ann
  bob = bob
  firm = firm
  PageCases = {page1, page2}
  Buyers = {ann, bob}
  Books = {firm}
  Ties <- SmallTies
  Newer <- Ages
  Anyone = Anyone
  NoBook = NoBook
  LinkHours = 1
  ConsoleHours = 1
  Consent = 0
  PageClock = 1
CHECK_DEADLOCK FALSE
INVARIANTS
  OfficeTypeOK OneVoicePerTick BooksInOrder TallyHolds NoSlotWasted NoCaseLeaks
  AuditNamesDecider NoSlotWithoutRow PagesAgree
PROPERTIES
  NoticeBeforeDebit DisputedAgeOut
