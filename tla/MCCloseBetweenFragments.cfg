CONSTANTS
  None = None
  UsizeMod = 16
  MaxControlPayload = 1
  PeerFrames <- LegalPeerFrames
  MaxFrames = 3
  MaxInFlight = 1
  Faults = FALSE
  BufSizes = {1}
  MaxOut = 2
  Cancels = FALSE
SPECIFICATION Spec
CHECK_DEADLOCK FALSE
INVARIANT
  CloseIsRemembered
