CONSTANTS
  None = None
  UsizeMod = 16
  MaxControlPayload = 1
  PeerFrames <- MCPeerFrames
  MaxFrames = 2
  MaxInFlight = 1
  Faults = FALSE
  BufSizes = {1}
  MaxOut = 2
SPECIFICATION FSpec
CHECK_DEADLOCK FALSE
INVARIANT
  ZeroMeansComplete
