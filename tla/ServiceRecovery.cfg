\* Crash recovery to the end, with definite answers and a working store.
SPECIFICATION FairSpec
CONSTANTS
  t1 = t1
  t2 = t2
  main = main
  other = other
  TranIDs = {t1, t2}
  Workers = {main}
  Main = main
  MaxAttempts = 2
  Faults = {"notWhitelisted"}
  QueryFaults = FALSE
  StoreFaults = FALSE
  StoreLoss = FALSE
  Dedup = TRUE
  MaxWithdrawals = 1
  MaxOrphans = 0
INVARIANTS
  NoWithdrawalForgotten
PROPERTIES
  PendingIsResolved
