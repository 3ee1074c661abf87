CONSTANTS
  e1 = e1
  e2 = e2
  en = en
  ko = ko
  default = default
  Lang = {en, ko}
  DefaultLang = default
  NoLang = null
  Engine = {e1, e2}
  VoicesOf <- MCVoicesOf
  NoEngine = null
  Unmapped = unmapped
  Shipped <- MCShipped
  Client = {c1}
  SettingApp = {s1}
  Asked <- MCAsked
  Speed = {5}
  Faults = {"load", "crash", "engines", "save"}
  MaxTexts = 1
  MaxCrashes = 1
SPECIFICATION FairSpec
INVARIANTS AgentTypeOK DefaultVoiceIsSupported AcceptedTextStaysSelectable RestartKeepsSettings SelectionHonoursRequest
PROPERTIES StoredEngineWorks DaemonComesBack
