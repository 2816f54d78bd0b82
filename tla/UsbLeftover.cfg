CONSTANTS
  QueueLength = 2
  SnifferQueueLength = 1
  ScanLength = 2
  Setups <- RadioModeSetups
  Headers <- DefaultHeader
  Datas = {"short"}
  Scans <- NoScan
  MaxUnread = 1
  CarefulHost = FALSE
SPECIFICATION Spec
INVARIANTS
  ReadsItsAnswer
