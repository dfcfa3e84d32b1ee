\* A shutdown during backoff marks a transfer FAILED.
SPECIFICATION Spec
CONSTANTS
  t1 = t1
  t2 = t2
  main = main
  other = other
  TranIDs = {t1}
  Workers = {main}
  Main = main
  MaxAttempts = 2
  Faults = {"rateLimited"}
  QueryFaults = FALSE
  StoreFaults = FALSE
  StoreLoss = FALSE
  Dedup = TRUE
  MaxWithdrawals = 1
  MaxOrphans = 0
INVARIANTS
  FailedNeedsAPerson
