CONSTANTS
  UsbThread = UsbThread
  Threads = {UsbThread}
  NoThread = NoThread
  DefaultArc = 3
  Arcs = {}
  Losses = {"none"}
  LateIsr = FALSE
  SlowDisable = FALSE
  MayStick = TRUE
SPECIFICATION Spec
INVARIANT AckSound
