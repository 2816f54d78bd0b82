CONSTANTS
  QueueLength = 2
  SnifferQueueLength = 1
  ScanLength = 2
  Setups <- AddressSetups
  Headers <- DefaultHeader
  Datas = {"short"}
  Scans <- OneScan
  MaxUnread = 0
  CarefulHost = FALSE
SPECIFICATION Spec
PROPERTIES
  ScanUsesSettings
