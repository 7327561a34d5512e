SPECIFICATION Spec
CONSTANTS
  Client = {c1, c2}
  MaxPackets = 1
  MaxOut = 1
  AppActs = {"reply", "broadcast", "kick", "kill", "idleBroadcast", "idleKick"}
  AppCatches = TRUE
  Faults = {"invalid", "reset", "sendfail", "acceptfail", "selecterr"}
SYMMETRY ClientSymmetry
INVARIANT ListSound
CHECK_DEADLOCK FALSE
