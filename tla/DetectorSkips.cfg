\* Two transfers of one asset and amount around a third, and a broken connection.
SPECIFICATION Spec
CONSTANTS
  Transfers = {1, 2, 3}
  Kind <- FirstAndLastAlike
  Events <- OnlyTransfers
  Window = 1
  Lookback = 2
  ChannelSize = 3
  PollLimit = 3
  EventLimit = 3
  QueryFaults = FALSE
  HandlerFaults = FALSE
  MaxTime = 2
  MaxCrashes = 0
  MaxWire = 3
INVARIANTS
  WatermarkSkipsNothing
CHECK_DEADLOCK FALSE
