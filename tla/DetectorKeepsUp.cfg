\* The detector through broken connections, restarts, failing queries and a full channel.
SPECIFICATION FairSpec
CONSTANTS
  Transfers = {1, 2}
  Kind <- AllDifferent
  Events <- Updates
  Window = 1
  Lookback = 1
  ChannelSize = 1
  PollLimit = 1
  EventLimit = 1
  QueryFaults = TRUE
  HandlerFaults = TRUE
  MaxTime = 3
  MaxCrashes = 1
  MaxWire = 2
INVARIANTS
  TypeOK
  ForgottenOnlyByFault
PROPERTIES
  EventuallyRecorded
CHECK_DEADLOCK FALSE
