SPECIFICATION Spec
CONSTANTS
  c1 = c1
  c2 = c2
  Uid = {c1, c2}
  NoUid = NoUid
  Requests = {"add", "play", "stop", "pause", "finalize", "engine"}
  Faults = {"voice", "network", "synth", "player", "create", "load", "format", "late"}
  Chunkings = {"single", "multi"}
  MaxUtt = 1
  MaxTimers = 1
  MaxLate = 1
SYMMETRY Symmetry
INVARIANTS
  OnePlayingClient
  PlayingInfoIsAlive
  StreamBelongsToActiveClient
  ToldPlayingIsPlaying
  SilentUnlessPlaying
PROPERTIES
  FocusSpec
  EngineFollowsUsers
CHECK_DEADLOCK FALSE
