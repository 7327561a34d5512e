SPECIFICATION FairSpec
CONSTANTS
  Client = {c1, c2}
  MaxPackets = 2
  MaxOut = 1
  AppActs = {"kill"}
  AppCatches = TRUE
  Faults = {"invalid"}
INVARIANTS PacketOrder MessageOrder NothingLeaks
PROPERTIES Served KillStops
CHECK_DEADLOCK FALSE
