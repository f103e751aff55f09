CONSTANTS
  None = None
  UsizeMod = 16
  MaxControlPayload = 1
  PeerFrames <- MCPeerFrames
  MaxFrames = 2
  MaxInFlight = 1
  Faults = TRUE
  Cancels = TRUE
  BufSizes = {0, 1}
  MaxOut = 2
SPECIFICATION Spec
\* With its bounds used up the peer is silent and a call waits for it.
CHECK_DEADLOCK FALSE
INVARIANTS
  TypeOK
  HandshakeBothWays
  ClosedIsShut
  FramingKeptUnlessClosing
  TornIsReported
  PongsEchoPings
  SilentAfterClose
PROPERTY
  StateOnlyAdvances
