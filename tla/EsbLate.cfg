CONSTANTS
  UsbThread = UsbThread
  Threads = {UsbThread}
  NoThread = NoThread
  DefaultArc = 1
  Arcs = {}
  Losses = {"none"}
  LateIsr = TRUE
  SlowDisable = FALSE
  MayStick = TRUE
SPECIFICATION FairSpec
PROPERTIES
  CallsReturn
  BroadcastRecovers
