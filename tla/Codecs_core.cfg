SPECIFICATION Spec
CONSTANTS
  Sizes = {0, 2, 3, 5}
  Widths = {1, 2}
  HeaderSize = 2
  Files <- FilesOfInterest
  Chunk = 2
  MaxStray = 2
  Kinds = {"telnet", "http", "connector"}
  LineMax = 5
  Rooms = {3, 4, 6}
  MaxLines = 5
  Lengths <- LengthsOfInterest
  MaxShort = 1
  Unsigned = 11
  FrameBuf = 10
  MaxFrames = 2
  Strings <- StringsOfInterest
  Granularity = 3
  MaxLength = 4
INVARIANTS InBounds FilesWhole  FramesWhole StringKept
CHECK_DEADLOCK FALSE
