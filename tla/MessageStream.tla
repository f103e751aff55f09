---------------------------- MODULE MessageStream ----------------------------
(***************************************************************************)
(* What a WebSocket connection promises to the reading application: the     *)
(* messages of the peer, whole, in order, each once, with their types.      *)
(* Frames, control frames, buffers and calls do not exist at this level.    *)
(* A message is delivered piece by piece, possibly before all of it was     *)
(* sent, and is reported complete only when all of it was delivered.        *)
(***************************************************************************)
EXTENDS Integers, Sequences

CONSTANT Pieces   \* the sizes of the pieces messages are sent and delivered in

VARIABLES
  sent,   \* the messages the peer has begun to send: [type, len, done]
  got     \* the messages the application has begun to receive

MsgType == {"Text", "Binary"}

Message == [type : MsgType, len : Nat, done : BOOLEAN]

\* No message of the sequence is unfinished (only the last one can be).
AllDone(s) == s # <<>> => s[Len(s)].done

Grow(s, n, fin) ==
  [s EXCEPT ![Len(s)].len = @ + n, ![Len(s)].done = fin]

StreamInit == sent = <<>> /\ got = <<>>

\* The peer begins a message with a first piece of n bytes.
SendFirst(t, n, fin) ==
  /\ AllDone(sent)
  /\ sent' = Append(sent, [type |-> t, len |-> n, done |-> fin])
  /\ UNCHANGED got

\* The peer sends another piece of the message it has begun.
SendMore(n, fin) ==
  /\ ~AllDone(sent)
  /\ sent' = Grow(sent, n, fin)
  /\ UNCHANGED got

\* The application is shown the next message.
Announce ==
  /\ AllDone(got) /\ Len(got) < Len(sent)
  /\ got' = Append(got, [type |-> sent[Len(got) + 1].type, len |-> 0, done |-> FALSE])
  /\ UNCHANGED sent

\* n more bytes of the announced message are delivered, fin: the last ones.
Deliver(n, fin) ==
  /\ ~AllDone(got)
  /\ got[Len(got)].len + n <= sent[Len(got)].len
  /\ fin => sent[Len(got)].done /\ got[Len(got)].len + n = sent[Len(got)].len
  /\ got' = Grow(got, n, fin)
  /\ UNCHANGED sent

StreamNext ==
  \/ \E t \in MsgType, n \in Pieces, fin \in BOOLEAN : SendFirst(t, n, fin)
  \/ \E n \in Pieces, fin \in BOOLEAN : SendMore(n, fin)
  \/ Announce
  \/ \E n \in Pieces, fin \in BOOLEAN : Deliver(n, fin)

StreamSpec == StreamInit /\ [][StreamNext]_<<sent, got>>
=============================================================================
