SPECIFICATION FairSpec
CONSTANTS
  MaxConns = 2
  MaxPackets = 2
  MaxIn = 2
  MaxOut = 1
INVARIANTS StreamKept ClosedIsLast OnlyKnownLeaks
PROPERTIES EveryPacketGiven
CHECK_DEADLOCK FALSE
