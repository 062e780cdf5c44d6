SPECIFICATION OrderlySpec
CHECK_DEADLOCK FALSE
CONSTANTS
  Pids = {p1, p2, p3, p4, p5, p6}
  NoPid = NoPid
  MaxCalls = 3
  MaxEvents = 0
PROPERTY APidPromiseHolds
