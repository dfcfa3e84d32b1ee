\* The server closes the connection normally and nothing reconnects.
SPECIFICATION FairSpec
CONSTANTS
  s1 = s1
  s2 = s2
  s3 = s3
  k1 = k1
  k2 = k2
  e1 = e1
  Slots = {s1, s2}
  Keys = {k1, k2}
  Events = {e1}
  Closings = {"normal"}
  MaxConns = 2
  MaxWire = 1
PROPERTIES
  LostConnectionRecovers
CHECK_DEADLOCK FALSE
