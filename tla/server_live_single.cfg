SPECIFICATION FairSpec
CONSTANTS
  c1 = c1
  c2 = c2
  Uid = {c1}
  NoUid = NoUid
  Requests = {"add", "play", "stop", "finalize"}
  Faults = {}
  Chunkings = {"single", "multi"}
  MaxUtt = 3
  MaxTimers = 2
  MaxLate = 0
PROPERTIES
  TextIsSynthesized
  SoundIsPlayed
CHECK_DEADLOCK FALSE
