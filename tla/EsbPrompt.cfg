CONSTANTS
  UsbThread = UsbThread
  Threads = {UsbThread, UsbStack}
  NoThread = NoThread
  DefaultArc = 3
  Arcs = {0, 15}
  Losses = {"none", "some"}
  LateIsr = FALSE
  SlowDisable = FALSE
  MayStick = FALSE
SPECIFICATION Spec
INVARIANTS
  TypeOK
  ModeExclusion
  AckSound
  QuietWhenIdle
  NoStaleCompletion
  SnifferListens
  AckWindow
  AllTriesMade
  FrontEndFollows
PROPERTIES
  TimeoutSparesAck
  CallbackPerPacket
  CallsAreAtomic
  NoPacketOverwritten
  CallsProgress
