\* Two callers of Forward for the same transfer, every kind of interleaving with the poller.
SPECIFICATION Spec
CONSTANTS
  t1 = t1
  t2 = t2
  main = main
  other = other
  TranIDs = {t1}
  Workers = {main, other}
  Main = main
  MaxAttempts = 3
  Faults = {"timeout", "rateLimited", "reset"}
  QueryFaults = TRUE
  StoreFaults = TRUE
  StoreLoss = FALSE
  Dedup = TRUE
  MaxWithdrawals = 1
  MaxOrphans = 1
INVARIANTS
  TypeOK
  RecordedBeforeWithdrawal
  ForwardedIsBacked
  AuditIsTruthful
