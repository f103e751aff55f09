--------------------------- MODULE MCWsConnection ----------------------------
(* Instances of WsConnection for TLC. *)
EXTENDS WsConnection

\* What garbage may look like once framing is lost.
MCPeerFrames ==
  {[type |-> t, fin |-> TRUE, len |-> 0, avail |-> 0] : t \in {"Text", "Ping", "Close"}}
=============================================================================
