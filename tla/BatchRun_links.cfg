\* One run over one case.
SPECIFICATION FairBatchSpec
CONSTANTS
  Runs = {b1}
  Cohort = {1}
  BatchBudget = 2
CHECK_DEADLOCK FALSE
PROPERTY BatchLinksDie
