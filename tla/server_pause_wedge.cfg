SPECIFICATION FairSpec
CONSTANTS
  c1 = c1
  c2 = c2
  Uid = {c1}
  NoUid = NoUid
  Requests = {"add", "play", "pause"}
  Faults = {}
  Chunkings = {"single", "multi"}
  MaxUtt = 2
  MaxTimers = 1
  MaxLate = 0
PROPERTIES
  SoundIsPlayed
CHECK_DEADLOCK FALSE
