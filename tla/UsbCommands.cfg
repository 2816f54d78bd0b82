CONSTANTS
  QueueLength = 1
  SnifferQueueLength = 1
  ScanLength = 1
  Setups <- SettingSetups
  Headers <- DefaultHeader
  Datas = {"short", "long"}
  Scans <- LowScans
  MaxUnread = 0
  CarefulHost = TRUE
SPECIFICATION FairSpec
INVARIANTS
  TypeOK
  SentAsConfigured
  AnswersMatch
PROPERTIES
  ScanUsesSettings
  AnswersArrive
  ServesInOrder
  UsesDriver
