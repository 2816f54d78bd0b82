CONSTANTS
  Mps = 4
  PayloadMax = 8
  QueueLength = 1
  Lengths = {1, 3, 4, 5}
  Heads <- AnyHead
  MaxMessages = 3
  Receivers = {"a", "b"}
  DefaultAddress = "a"
  Arc = 1
  PacketLoss = TRUE
  AckLoss = TRUE
  PacketMax = 2
  HeaderLength = 1
  AddressLength = 1
  SnifferMax = 4
SPECIFICATION DataSpec
INVARIANTS
  FramesIntact
  CarriesMessage
  OwnAnswer
PROPERTIES
  PassedInOrder
  SwallowedOnlyAtWrap
