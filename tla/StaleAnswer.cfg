CONSTANTS
  Mps = 4
  PayloadMax = 8
  QueueLength = 1
  Lengths = {3}
  Heads <- AnyHead
  MaxMessages = 2
  Receivers = {"a", "b"}
  DefaultAddress = "a"
  Arc = 1
  PacketLoss = FALSE
  AckLoss = FALSE
  PacketMax = 2
  HeaderLength = 1
  AddressLength = 1
  SnifferMax = 4
SPECIFICATION DataSpec
INVARIANT NotAckedIsEmpty
