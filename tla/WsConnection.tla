---------------------------- MODULE WsConnection -----------------------------
(***************************************************************************)
(* The WebSocket of web_socket/mod.rs with a client that follows the        *)
(* protocol and an application that uses it as the examples do: it stops    *)
(* reading and writing once a call has failed, and then only closes or      *)
(* aborts.  The client sends fragmented and whole messages and Pings, may   *)
(* begin the closing handshake, answers a Close with a Close, and then      *)
(* waits for the server to close the TCP connection.                        *)
(***************************************************************************)
EXTENDS WebSocket

CONSTANTS
  DataSizes,     \* payload lengths of the client's data frames
  CloseFrom      \* the socket states in which the application calls close()

ASSUME ClientAssumption == DataSizes \subseteq Nat /\ CloseFrom \subseteq SocketStates

VARIABLES
  sent,    \* the messages the client has begun: [type, len, done]
  cclose,  \* the client has sent a Close
  cread,   \* how many frames of outbox the client has read
  got      \* history: the messages the application received, as MessageStream

cvars == <<sent, cclose, cread>>

cnvars == <<vars, cvars, got>>

CInit ==
  /\ Init
  /\ sent = <<>>
  /\ cclose = FALSE
  /\ cread = 0
  /\ got = <<>>

-----------------------------------------------------------------------------
(* The client (external). *)

\* One place is kept for the client's Close.
ClientMaySend ==
  /\ ~cclose
  /\ Len(inbox) < MaxInFlight - 1
  /\ Len(rcvd) + Len(inbox) < MaxFrames - 1

ClientFrame(t, fin, n) == [type |-> t, fin |-> fin, len |-> n, avail |-> n]

Grow(s, n, fin) ==
  [s EXCEPT ![Len(s)].len = @ + n, ![Len(s)].done = fin]

ClientFirst(t, n, fin) ==
  /\ sent # <<>> => sent[Len(sent)].done
  /\ Transmit(ClientFrame(t, fin, n))
  /\ sent' = Append(sent, [type |-> t, len |-> n, done |-> fin])

ClientContinues(n, fin) ==
  /\ sent # <<>> /\ ~sent[Len(sent)].done
  /\ Transmit(ClientFrame("Continue", fin, n))
  /\ sent' = Grow(sent, n, fin)

ClientSendsData ==
  /\ ClientMaySend
  /\ \E n \in DataSizes, fin \in BOOLEAN :
        (\E t \in MessageTypes : ClientFirst(t, n, fin)) \/ ClientContinues(n, fin)
  /\ UNCHANGED <<fvars, wvars, cclose, cread, got>>

ClientPings ==
  /\ ClientMaySend
  /\ Transmit(ClientFrame("Ping", TRUE, 1))
  /\ UNCHANGED <<fvars, wvars, cvars, got>>

ClientCloses ==
  /\ ~cclose
  /\ Transmit(ClientFrame("Close", TRUE, 1))
  /\ cclose' = TRUE
  /\ UNCHANGED <<fvars, wvars, sent, cread, got>>

\* The client reads the server's next frame; it answers a Close once.
ClientReads ==
  /\ cread < Len(outbox)
  /\ cread' = cread + 1
  /\ IF outbox[cread + 1].type = "Close" /\ ~cclose
       THEN Transmit(ClientFrame("Close", TRUE, 1)) /\ cclose' = TRUE
       ELSE UNCHANGED <<tvars, cclose>>
  /\ UNCHANGED <<fvars, wvars, sent, got>>

Client == ClientSendsData \/ ClientPings \/ ClientCloses \/ ClientReads

-----------------------------------------------------------------------------
(* The application and the server. *)

\* It reads on, until a call fails.
AppReads ==
  /\ ~errored
  /\ \E b \in BufSizes : ReadCall(b)

\* It closes between messages, in the states CloseFrom.  After a failure other
\* than the peer's Close it does not try again to close but aborts.
AppCloses ==
  /\ reader = None /\ socket_state \in CloseFrom
  /\ errored => socket_state = "WsClosed"
  /\ CloseCall \/ CloseHandshakeCall

AppOther ==
  \/ ~errored /\ (WaitMessageCall \/ \E b \in BufSizes : WriteCall(b))
  \/ AppCloses
  \/ AbortCall

App == (AppReads \/ AppOther) /\ UNCHANGED <<cvars, got>>

\* What a return shows the application of the message it is reading.
Observe ==
  got' = CASE pc = "ret" /\ fret = "Ok" /\ fcall = "wait_data" ->
                Append(got, [type |-> reader.frame_type, len |-> 0, done |-> FALSE])
           [] pc = "ret" /\ fret = "Ok" /\ fcall = "payload" ->
                Grow(got, nread, reader' = None)
           [] OTHER -> got

Server == ServerStep /\ Observe /\ UNCHANGED cvars

\* A call dropped while it waited for a frame or for payload not yet begun.
AppDrops == Cancel /\ Harmless /\ UNCHANGED <<cvars, got>>

CNext == Client \/ App \/ Server \/ AppDrops

CSpec == CInit /\ [][CNext]_cnvars

\* The executor polls a woken task again, the network delivers, the client
\* reads what arrives, and the application goes on reading.
CFairSpec ==
  /\ CSpec
  /\ WF_cnvars(Server)
  /\ WF_cnvars(ClientReads)
  /\ WF_cnvars(AppReads /\ UNCHANGED <<cvars, got>>)

-----------------------------------------------------------------------------
(* Properties. *)

\* The pieces messages are sent and delivered in.
Pieces == DataSizes \cup UNION {0 .. b : b \in BufSizes}

Abstract == INSTANCE MessageStream WITH Pieces <- Pieces, sent <- sent, got <- got

\* The connection delivers the client's messages whole, in order and once,
\* across fragments, control frames, buffers of any size and dropped calls.
DeliversMessages == Abstract!StreamSpec

\* A close() or close_handshake() that is called on a Ready WebSocket comes back:
\* data in flight or a crossing Close cannot make it wait forever.
CloseTerminates == op \in {"close", "close_handshake"} ~> op = None

\* What the comment on WsClosed asks the application to rely on: close() frees
\* the socket, also after the peer's Close or close_handshake() has been handled.
CloseFreesSocket == op = "close" ~> socket_state = "Closed"

\* The handshake counts as done, and the socket is shut down in good order, only
\* if the client did send its Close: no other frame, and nothing but bytes read
\* after framing was lost, passes for it.
CloseIsGenuine ==
  (socket_state = "WsClosed" \/ inner = "closed") => cclose \/ lost

\* The application gives up only finitely many calls: one that drops every call
\* before it is woken reads nothing.
Patient == <>[][~AppDrops]_cnvars

\* Every message the client finishes reaches the application, unless the
\* connection ends first, however calls were dropped while it was on its way.
MessagesArrive ==
  Patient =>
    \A i \in 1 .. MaxFrames - 1 :
      (Len(sent) >= i /\ sent[i].done)
        ~> (errored \/ closing \/ ~Ready \/ (Len(got) >= i /\ got[i].done))
=============================================================================
