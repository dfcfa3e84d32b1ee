\* Progress of one caller and the poller, with lost answers and failing queries.
SPECIFICATION FairSpec
CONSTANTS
  t1 = t1
  t2 = t2
  main = main
  other = other
  TranIDs = {t1}
  Workers = {main}
  Main = main
  MaxAttempts = 2
  Faults = {"timeout", "rateLimited"}
  QueryFaults = TRUE
  StoreFaults = TRUE
  StoreLoss = FALSE
  Dedup = TRUE
  MaxWithdrawals = 1
  MaxOrphans = 1
PROPERTIES
  TransitionsAreValid
  ForwardReturns
  RecoveryEnds
  ForwardedSettles
