SPECIFICATION FairSocketSpec
CONSTANTS
  HeaderSize = 2
  BufferMax = 5
  Unsigned = 16
  PeerSizes <- PeerSizesOfInterest
  AppSizes <- AppSizesOfInterest
  MaxIn = 3
  MaxOut = 2
INVARIANTS InBufferSafe FramingKept  
PROPERTY PacketsExtracted
CHECK_DEADLOCK FALSE
