SPECIFICATION Spec
CONSTANTS
  c1 = c1
  c2 = c2
  Uid = {c1}
  NoUid = NoUid
  Requests = {"add", "play", "stop"}
  Faults = {"late"}
  Chunkings = {"single", "multi"}
  MaxUtt = 1
  MaxTimers = 1
  MaxLate = 1
INVARIANTS
  NoStaleSound
CHECK_DEADLOCK FALSE
