CONSTANTS
  None = None
  UsizeMod = 16
  MaxControlPayload = 1
  PeerFrames <- MCPeerFrames
  MaxFrames = 4
  MaxInFlight = 3
  Faults = FALSE
  Cancels = TRUE
  BufSizes = {2}
  MaxOut = 2
  DataSizes = {0, 2}
  CloseFrom = {"Ready"}
SPECIFICATION CFairSpec
CHECK_DEADLOCK FALSE
INVARIANTS
  CloseIsGenuine
  PongsEchoPings
PROPERTIES
  DeliversMessages
  CloseTerminates
  MessagesArrive
