SPECIFICATION FairSpec
CONSTANTS
  Client = {c1, c2}
  MaxPackets = 1
  SelfKilled = {c1}
  OtherKilled = {c1}
  Senders = {c1}
INVARIANTS  DeletedOnce
PROPERTIES  KilledEnds
CHECK_DEADLOCK FALSE
