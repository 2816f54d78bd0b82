CONSTANTS
  QueueLength = 1
  SnifferQueueLength = 1
  ScanLength = 2
  Setups <- ContentionSetups
  Headers <- DefaultHeader
  Datas = {"short"}
  Scans <- LowScans
  MaxUnread = 0
  CarefulHost = FALSE
SPECIFICATION FairSpec
INVARIANT NeverBothBlocked
PROPERTY StackServed
