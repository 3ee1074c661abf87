SPECIFICATION Spec
CONSTANTS
  h1 = h1
  h2 = h2
  Handle = {h1}
  NoHandle = NoHandle
  MaxUtt = 1
  MaxTimers = 1
  MaxQueue = 2
  Fails = {}
  Others = {"interrupt"}
INVARIANTS
  InterruptionIsReported
CHECK_DEADLOCK FALSE
