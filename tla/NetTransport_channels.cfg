SPECIFICATION Spec
CONSTANTS
  SEQ_WINDOW = 8
  MASK_BITS = 2
  MAX_SENT_PACKETS = 2
  MaxPending = 3
  PacketCap = 2
  Traffic <- ReliableOrLossy
  MaxPackets = 4
  MaxReliable <- BothReliable
  MaxSequenced = 2
  MaxUnreliable = 1
INVARIANTS
  ClientNothingLost
  ServerBufferUnused
  NeitherOlderNorTwice
PROPERTIES
  OrderedExactlyOnce
CHECK_DEADLOCK FALSE
