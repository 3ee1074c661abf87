SPECIFICATION FairSpec
CONSTANTS
  h1 = h1
  h2 = h2
  Handle = {h1}
  NoHandle = NoHandle
  MaxUtt = 2
  MaxTimers = 1
  MaxQueue = 1
  Fails = {"initialize", "query", "add", "play", "pause", "create", "start"}
  Others = {"interrupt", "engine"}
INVARIANTS
  TypeOK
  AppKnowsState
  CallbackReportsUtterance
  NothingLeftBehind
PROPERTIES
  SweepSparesTheResponsive
  GoneIsForgotten
CHECK_DEADLOCK FALSE
