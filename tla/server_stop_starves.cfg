SPECIFICATION FairSpec
CONSTANTS
  c1 = c1
  c2 = c2
  Uid = {c1, c2}
  NoUid = NoUid
  Requests = {"add", "play", "stop"}
  Faults = {}
  Chunkings = {"single", "multi"}
  MaxUtt = 1
  MaxTimers = 1
  MaxLate = 0
PROPERTIES
  TextIsSynthesized
CHECK_DEADLOCK FALSE
