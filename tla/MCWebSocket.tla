----------------------------- MODULE MCWebSocket -----------------------------
(* Instances of WebSocket for TLC. *)
EXTENDS WebSocket

F(t, fin, n) == [type |-> t, fin |-> fin, len |-> n, avail |-> n]

MCPeerFrames ==
  {F("Text", TRUE, 2), F("Binary", FALSE, 1), F("Continue", TRUE, 1),
   F("Ping", TRUE, 1), F("Ping", TRUE, 2), F("Pong", TRUE, 0),
   F("Close", TRUE, 1), F("Bad", TRUE, 1)}

\* Legal frames only, for longer exchanges: fragments with control frames
\* between them, an empty fragment, a Close.
LegalPeerFrames ==
  {F("Text", TRUE, 2), F("Binary", FALSE, 1), F("Continue", FALSE, 0),
   F("Continue", TRUE, 1), F("Ping", TRUE, 1), F("Close", TRUE, 0)}
=============================================================================
