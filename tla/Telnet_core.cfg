SPECIFICATION FairSpec
CONSTANTS
  Client = {c1, c2}
  MaxSaid = 4
  MaxIn = 3
  AppActs = {"answer", "broadcast", "kick", "kill"}
  AppCatches = TRUE
  EmptyLines = TRUE
INVARIANTS LinesKept StoryEndsOnce
PROPERTIES Served
CHECK_DEADLOCK FALSE
