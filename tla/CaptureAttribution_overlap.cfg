\* Two parts of one case are credited at the same time.
SPECIFICATION CaptureSpec
CONSTANTS
  c1 = c1
  c2 = c2
  Cases <- OneCase
  Payments = {"link", "part"}
  CaptureWorkers = {w1, w2}
  AtRisk <- DueInFull
  OpenedAt <- Rank
  Amount <- Money
  BankPayments <- Neft
  Ours <- LinkCase
  OrderCases <- OrderCasesOf
  Noted <- NoteCase
  NoCase = NoCase
  NoPayment = NoPayment
  MaxDeliveries = 1
CHECK_DEADLOCK FALSE
INVARIANTS BooksMatchTrail
