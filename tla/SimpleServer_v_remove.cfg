SPECIFICATION Spec
CONSTANTS
  Client = {c1, c2}
  MaxPackets = 1
  MaxOut = 1
  AppActs = {"reply"}
  AppCatches = TRUE
  Faults = {"sendfail"}
SYMMETRY ClientSymmetry
INVARIANTS ClosedIsRemoved
CHECK_DEADLOCK FALSE
