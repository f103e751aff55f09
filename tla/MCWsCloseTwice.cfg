CONSTANTS
  None = None
  UsizeMod = 16
  MaxControlPayload = 1
  PeerFrames <- MCPeerFrames
  MaxFrames = 3
  MaxInFlight = 3
  Faults = FALSE
  Cancels = FALSE
  BufSizes = {1}
  MaxOut = 3
  DataSizes = {1}
  CloseFrom = {"Ready", "WsClosed"}
SPECIFICATION CFairSpec
CHECK_DEADLOCK FALSE
PROPERTIES
  CloseFreesSocket

