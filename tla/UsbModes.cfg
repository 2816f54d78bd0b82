CONSTANTS
  QueueLength = 1
  SnifferQueueLength = 1
  ScanLength = 2
  Setups <- ModeSetups
  Headers <- ModeHeaders
  Datas = {"tiny", "short"}
  Scans <- NoScan
  MaxUnread = 2
  CarefulHost = TRUE
SPECIFICATION FairSpec
INVARIANTS
  SentAsConfigured
  AnswersMatch
  AnswerOwed
  DropsCounted
PROPERTIES
  StreamOfThisSession
  StackServed
  ServesInOrder
