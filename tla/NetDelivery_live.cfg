SPECIFICATION LiveSpec
CONSTANTS
  SEQ_WINDOW = 8
  MASK_BITS = 2
  MAX_SENT_PACKETS = 2
  MaxPending = 2
  PacketCap = 2
  Traffic <- AllButSequenced
  MaxPackets = 4
  MaxReliable <- ClientReliable
  MaxSequenced = 0
  MaxUnreliable = 1
  MaxLost = 2
PROPERTIES
  EventuallyDelivered
CHECK_DEADLOCK FALSE
