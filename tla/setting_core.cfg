SPECIFICATION FairSpec
CONSTANTS
  a1 = a1
  a2 = a2
  App = {a1}
  NoApp = NoApp
  Value = {3, 5}
  NoValue = NoValue
  Fails = {"engine", "load", "set", "crash"}
  MaxTimers = 1
  MaxQueue = 2
  MaxStarting = 2
INVARIANTS
  TypeOK
  ReadyIsRegistered
  RequestsFindRegistered
  NothingRegisteredBehind
  ReportedSetIsLast
PROPERTIES
  AsyncIsAnswered
CHECK_DEADLOCK FALSE
