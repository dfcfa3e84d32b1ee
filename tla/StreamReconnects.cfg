\* The stream through broken connections, failing calls and a Close at any moment.
SPECIFICATION FairSpec
CONSTANTS
  s1 = s1
  s2 = s2
  s3 = s3
  k1 = k1
  k2 = k2
  e1 = e1
  Slots = {s1, s2, s3}
  Keys = {k1, k2}
  Events = {e1}
  Closings = {"abnormal", "normal"}
  MaxConns = 3
  MaxWire = 1
INVARIANTS
  TypeOK
  OneReader
  ConnectedHasReader
  ReadsOnLiveKey
PROPERTIES
  ImplementsEventStream
  BrokenConnectionRecovers
  StopQuiesces
CHECK_DEADLOCK FALSE
