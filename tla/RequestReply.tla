----------------------------- MODULE RequestReply ----------------------------
(***************************************************************************)
(* What a client of a kept-alive HTTP connection relies on: it asks one     *)
(* thing at a time, and the n-th answer it is given is the answer to the    *)
(* n-th thing it asked.  Bytes, framing, handlers and awaits do not exist   *)
(* at this level.                                                           *)
(***************************************************************************)
EXTENDS Integers, Sequences

CONSTANTS
  Questions,
  Expected(_)    \* the answer a question deserves

VARIABLES asked, answers

RRInit == asked = <<>> /\ answers = <<>>

Ask(q) ==
  /\ Len(answers) = Len(asked)
  /\ asked' = Append(asked, q)
  /\ UNCHANGED answers

Reply ==
  /\ Len(answers) < Len(asked)
  /\ answers' = Append(answers, Expected(asked[Len(asked)]))
  /\ UNCHANGED asked

RRNext == (\E q \in Questions : Ask(q)) \/ Reply

RRSpec == RRInit /\ [][RRNext]_<<asked, answers>>
=============================================================================
