\* A retried withdrawal that had reached Binance ends FAILED.
SPECIFICATION Spec
CONSTANTS
  t1 = t1
  t2 = t2
  main = main
  other = other
  TranIDs = {t1}
  Workers = {main}
  Main = main
  MaxAttempts = 2
  Faults = {"timeout"}
  QueryFaults = FALSE
  StoreFaults = FALSE
  StoreLoss = FALSE
  Dedup = TRUE
  MaxWithdrawals = 1
  MaxOrphans = 0
INVARIANTS
  FailedAsDuplicateIsUnpaid
