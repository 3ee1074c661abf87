SPECIFICATION Spec
CONSTANTS
  c1 = c1
  c2 = c2
  Uid = {c1, c2}
  NoUid = NoUid
  Requests = {"add", "play", "stop", "finalize"}
  Faults = {}
  Chunkings = {"single", "multi"}
  MaxUtt = 2
  MaxTimers = 1
  MaxLate = 0
SYMMETRY Symmetry
INVARIANTS
  TypeOK
  OnlyPlayingIsAudible
  EngineBusyIsKnown
  NoStaleSound
PROPERTIES
  StartedInOrder
  CompletedWasStarted
CHECK_DEADLOCK FALSE
