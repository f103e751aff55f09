-------------------------- MODULE MCFrameController --------------------------
(* Instances of FrameController for TLC: one frame per arm of the match in   *)
(* process_control_frames, of the lengths its checks tell apart.             *)
EXTENDS FrameController

F(t, fin, n) == [type |-> t, fin |-> fin, len |-> n, avail |-> n]

\* Pongs answer the server's Ping and so carry its empty payload; OnPong does not
\* read a payload.
MCPeerFrames ==
  {F("Text", TRUE, 2), F("Binary", FALSE, 1), F("Continue", TRUE, 1),
   F("Ping", TRUE, 1), F("Ping", TRUE, 2), F("Pong", TRUE, 0),
   F("Close", TRUE, 1), F("Bad", TRUE, 1)}

\* A frame longer than usize can count (with UsizeMod = 4).
LongFrames == {F("Text", TRUE, 5), F("Ping", TRUE, 1)}
=============================================================================
