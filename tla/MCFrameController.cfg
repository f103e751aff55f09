CONSTANTS
  None = None
  UsizeMod = 16
  MaxControlPayload = 1
  PeerFrames <- MCPeerFrames
  MaxFrames = 3
  MaxInFlight = 1
  Faults = TRUE
  BufSizes = {0, 1, 2}
  MaxOut = 2
SPECIFICATION FSpec
\* With its bounds used up the peer is silent and a call waits for it.
CHECK_DEADLOCK FALSE
INVARIANTS
  FControllerTypeOK
  OnePingOutstanding
  ClosesBalance
  FramingKept
