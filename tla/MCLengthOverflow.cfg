CONSTANTS
  None = None
  UsizeMod = 4
  MaxControlPayload = 1
  PeerFrames <- LongFrames
  MaxFrames = 2
  MaxInFlight = 1
  Faults = FALSE
  BufSizes = {1}
  MaxOut = 2
SPECIFICATION FSpec
CHECK_DEADLOCK FALSE
INVARIANT
  OversizeRefused
