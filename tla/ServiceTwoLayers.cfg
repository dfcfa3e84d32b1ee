\* Forward's two checks and the documented lifecycle, without Binance's duplicate rejection: definite answers, lost database files.
SPECIFICATION Spec
CONSTANTS
  t1 = t1
  t2 = t2
  main = main
  other = other
  TranIDs = {t1, t2}
  Workers = {main}
  Main = main
  MaxAttempts = 2
  Faults = {"rateLimited", "notWhitelisted", "refused"}
  QueryFaults = TRUE
  StoreFaults = TRUE
  StoreLoss = TRUE
  Dedup = FALSE
  MaxWithdrawals = 2
  MaxOrphans = 0
INVARIANTS
  AtMostOneWithdrawal
  FailedHasNoLiveWithdrawal
PROPERTIES
  ImplementsLifecycle
