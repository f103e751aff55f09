---------------------------- MODULE PicoDemoProofs ---------------------------
(***************************************************************************)
(* Proofs about HttpExchange and PicoDemo: the client's n-th status line    *)
(* answers its n-th request, for every table of routes and any number of    *)
(* requests, and the firmware panics for the named reasons only.            *)
(***************************************************************************)
EXTENDS PicoDemo, HttpHandlerProofs

\* The parts of the response `a` on the wire.
Parts(a) == IF Chunked(a) THEN 6 ELSE IF a.bytes > 0 THEN 2 ELSE 1

PartAt(a, i) ==
  IF i = 1 THEN ResponseHead(a)
  ELSE IF ~Chunked(a) THEN Body(a.bytes)
  ELSE IF i = 2 THEN Size(a.bytes)
  ELSE IF i = 3 THEN Body(a.bytes)
  ELSE IF i = 5 THEN Size(0)
  ELSE Crlf

\* How many parts of the response in progress the server has sent before the await at pc.
PartsSent(a) ==
  CASE pc = "head" -> 0
    [] pc = "body" -> 1
    [] pc \in {"flush", "complete"} -> IF Chunked(a) THEN 4 ELSE Parts(a)
    [] OTHER -> Parts(a)

\* How many parts the client can have read when it is suspended at cpc.
PartsRead(a) ==
  CASE cpc = "head" -> {0}
    [] cpc = "body" -> {1}
    [] cpc = "size" -> {1, 4}
    [] cpc = "data" -> {2}
    [] cpc = "last" -> {5}
    [] OTHER -> {Parts(a)}

\* The answer the client is waiting for, or has been given last.
Due == Dispatch(asked[Len(asked)])

\* c parts of the due answer have been read, and what is on the wire follows them.
Position(c) ==
  /\ c \in PartsRead(Due) /\ c + Len(wire) <= Parts(Due)
  /\ \A i \in 1 .. Len(wire) : wire[i] = PartAt(Due, c + i)

\* The client's place in the due answer.
ClientPlace ==
  /\ cpc \in {"size", "data", "last", "trailer"} => Chunked(Due)
  /\ cpc \in {"body", "size", "data", "last", "trailer"} => cur = Due.status
  /\ cpc = "body" => ~Chunked(Due) /\ Due.bytes > 0
  /\ cpc \in {"body", "data"} => want = Due.bytes

\* The server's: it has not read the request, though it may still be about to end the
\* answer before (which is silent on the wire), or it is making the due answer.
ServerPlace(c) ==
  IF pending # None
    THEN /\ pending = asked[Len(asked)] /\ c + Len(wire) = 0
         /\ pc \in {"body", "flush", "complete"} => ~Chunked(plan)
         /\ pc = "body" => plan.bytes = 0
         /\ pc # "head"
    ELSE pc # "closed" =>
         /\ c + Len(wire) = PartsSent(Due)
         /\ pc # "idle" => plan = Due

WireParts ==
  [part : {"head"}, status : {200, 404, 405}, len : Nat \cup {None}]
    \cup [part : {"body", "size"}, len : Nat] \cup [part : {"crlf"}]

ETypeOK ==
  /\ pending \in Request \cup {None}
  /\ wire \in Seq(WireParts)
  /\ asked \in Seq(Request)
  /\ seen \in Seq({200, 404, 405, "garbled"})
  /\ cpc \in {"idle", "gone", "head", "body", "size", "data", "last", "trailer"}

\* Before the first request nothing is under way; from then on the client, the wire
\* and the server are at places of the same answer.  A client that has gone reads no more.
InStep ==
  cpc # "gone" =>
    IF asked = <<>>
      THEN /\ cpc = "idle" /\ seen = <<>> /\ wire = <<>> /\ pending = None
           /\ pc \in {"idle", "closed"}
      ELSE /\ Len(asked) = Len(seen) + (IF cpc = "idle" THEN 0 ELSE 1)
           /\ ClientPlace
           /\ \E c \in 0 .. 6 : Position(c) /\ ServerPlace(c)

EInv == HInv /\ ETypeOK /\ InStep

-----------------------------------------------------------------------------

LEMMA DueAnswers ==
  ASSUME ETypeOK, asked # <<>>
  PROVE  /\ Len(asked) \in Nat /\ Len(asked) > 0 /\ asked[Len(asked)] \in Request
         /\ Due \in Answers /\ Due.status = StatusFor(asked[Len(asked)])
         /\ Parts(Due) \in 1 .. 6
<1>1. Len(asked) \in Nat /\ Len(asked) > 0 /\ asked[Len(asked)] \in Request
  BY EmptySeq, LenProperties, ElementOfSeq DEF ETypeOK
<1>2. Due \in Answers /\ Due.status = StatusFor(asked[Len(asked)])
  BY <1>1, DispatchAnswers DEF Due, StatusFor, Matching
<1>3. Parts(Due) \in 1 .. 6
  BY DEF Parts
<1>4. QED
  BY <1>1, <1>2, <1>3

\* What the await at pc sends are the next parts of the planned answer.
LEMMA OutputParts ==
  ASSUME pc \in Active, plan \in Answers
  PROVE  /\ Output \in Seq(WireParts)
         /\ Len(Output) = IF pc = "head" THEN 1
                          ELSE IF pc = "body" THEN IF Chunked(plan) THEN 3 ELSE Parts(plan) - 1
                          ELSE IF pc = "complete" /\ Chunked(plan) THEN 2 ELSE 0
         /\ \A i \in 1 .. Len(Output) : Output[i] = PartAt(plan, PartsSent(plan) + i)
<1>0. plan.bytes \in Nat /\ plan.declared \in Nat \cup {None} /\ plan.status \in {200, 404, 405}
  BY DEF Answers
<1>1. CASE pc = "head"
  <2>1. Output = <<ResponseHead(plan)>> /\ PartsSent(plan) = 0
    BY <1>1 DEF Output, PartsSent
  <2>2. ResponseHead(plan) \in WireParts /\ PartAt(plan, 1) = ResponseHead(plan)
    BY <1>0 DEF ResponseHead, WireParts, PartAt
  <2>3. QED
    BY <1>1, <2>1, <2>2
<1>2. CASE pc = "body" /\ Chunked(plan)
  <2>0. PartsSent(plan) = 1
    BY <1>2 DEF PartsSent
  <2>1. Output = <<Size(plan.bytes), Body(plan.bytes), Crlf>>
    BY <1>2 DEF Output
  <2>2. Size(plan.bytes) \in WireParts /\ Body(plan.bytes) \in WireParts /\ Crlf \in WireParts
    BY <1>0 DEF Size, Body, Crlf, WireParts
  <2>3. /\ PartAt(plan, 2) = Size(plan.bytes) /\ PartAt(plan, 3) = Body(plan.bytes)
        /\ PartAt(plan, 4) = Crlf
    BY <1>2 DEF PartAt
  <2>4. QED
    BY <1>2, <2>0, <2>1, <2>2, <2>3
<1>3. CASE pc = "body" /\ ~Chunked(plan) /\ plan.bytes > 0
  <2>1. Output = <<Body(plan.bytes)>> /\ PartsSent(plan) = 1 /\ Parts(plan) = 2
    BY <1>3 DEF Output, PartsSent, Parts
  <2>2. Body(plan.bytes) \in WireParts /\ PartAt(plan, 2) = Body(plan.bytes)
    BY <1>0, <1>3 DEF Body, WireParts, PartAt
  <2>3. QED
    BY <1>3, <2>1, <2>2
<1>4. CASE pc = "complete" /\ Chunked(plan)
  <2>1. Output = <<Size(0), Crlf>> /\ PartsSent(plan) = 4
    BY <1>4 DEF Output, PartsSent
  <2>2. Size(0) \in WireParts /\ Crlf \in WireParts
    BY DEF Size, Crlf, WireParts
  <2>3. PartAt(plan, 5) = Size(0) /\ PartAt(plan, 6) = Crlf
    BY <1>4 DEF PartAt
  <2>4. QED
    BY <1>4, <2>1, <2>2, <2>3
<1>5. CASE \/ pc = "body" /\ ~Chunked(plan) /\ ~(plan.bytes > 0)
           \/ pc = "flush"
           \/ pc = "complete" /\ ~Chunked(plan)
  <2>1. Output = <<>>
    BY <1>5 DEF Output
  <2>2. Output \in Seq(WireParts) /\ Len(Output) = 0
    BY <2>1, EmptySeq
  <2>3. pc = "body" => Parts(plan) = 1
    BY <1>5 DEF Parts
  <2>4. QED
    BY <1>5, <2>2, <2>3
<1>6. QED
  BY <1>1, <1>2, <1>3, <1>4, <1>5 DEF Active

\* The wire grows by further parts of the due answer.
LEMMA WireGrows ==
  ASSUME wire \in Seq(WireParts), NEW out \in Seq(WireParts), wire' = wire \o out,
         NEW c \in 0 .. 6, Position(c), UNCHANGED <<asked, cpc>>,
         c + Len(wire) + Len(out) <= Parts(Due),
         \A i \in 1 .. Len(out) : out[i] = PartAt(Due, c + Len(wire) + i)
  PROVE  Position(c)' /\ Len(wire') = Len(wire) + Len(out) /\ wire' \in Seq(WireParts)
<1>1. /\ Len(wire) \in Nat /\ Len(out) \in Nat
      /\ wire' \in Seq(WireParts) /\ Len(wire') = Len(wire) + Len(out)
      /\ \A i \in 1 .. Len(wire) + Len(out) :
           wire'[i] = IF i <= Len(wire) THEN wire[i] ELSE out[i - Len(wire)]
  BY LenProperties, ConcatProperties
<1>2. Due' = Due /\ PartsRead(Due)' = PartsRead(Due) /\ Parts(Due)' = Parts(Due)
  BY DEF Due, PartsRead
<1>3. ASSUME NEW i \in 1 .. Len(wire')
      PROVE  wire'[i] = PartAt(Due, c + i)
  <2>1. CASE i <= Len(wire)
    BY <1>1, <1>3, <2>1 DEF Position
  <2>2. CASE i > Len(wire)
    <3>1. i - Len(wire) \in 1 .. Len(out) /\ c + Len(wire) + (i - Len(wire)) = c + i
      BY <1>1, <1>3, <2>2
    <3>2. QED
      BY <1>1, <1>3, <2>2, <3>1
  <2>3. QED
    BY <1>1, <2>1, <2>2
<1>4. \A i \in Int : PartAt(Due, i)' = PartAt(Due, i)
  BY <1>2 DEF PartAt, Chunked
<1>5. Position(c)'
  BY <1>1, <1>2, <1>3, <1>4 DEF Position
<1>6. QED
  BY <1>1, <1>5
\* What InStep says of a connection on which something was asked.
LEMMA PlaceInAnswer ==
  ASSUME EInv, cpc # "gone", asked # <<>>
  PROVE  \E c \in 0 .. 6 : Position(c) /\ ServerPlace(c)
BY DEF EInv, InStep

-----------------------------------------------------------------------------
(* The server's steps. *)

\* The server sends the next parts of the due answer, or ends the one before.
LEMMA SendsInStep ==
  ASSUME EInv, ServerSends
  PROVE  ETypeOK' /\ InStep'
<1>1. pc \in Active /\ plan \in Answers /\ pc \notin {"idle", "closed"}
  BY DEF ServerSends, InitiateResponse, WriteAll, Flush, Complete, EInv, HInv, InProgress, Active
<1>2. UNCHANGED <<pending, asked, seen, cpc, want, cur>> /\ wire' = wire \o Output
  BY DEF ServerSends
<1>3. /\ Output \in Seq(WireParts)
      /\ Len(Output) = IF pc = "head" THEN 1
                       ELSE IF pc = "body" THEN IF Chunked(plan) THEN 3 ELSE Parts(plan) - 1
                       ELSE IF pc = "complete" /\ Chunked(plan) THEN 2 ELSE 0
      /\ \A i \in 1 .. Len(Output) : Output[i] = PartAt(plan, PartsSent(plan) + i)
  BY <1>1, OutputParts
<1>4. \/ pc = "head" /\ pc' = "body" /\ plan' = plan
      \/ pc = "body" /\ pc' = "flush" /\ plan' = plan
      \/ pc = "flush" /\ pc' = "complete" /\ plan' = plan
      \/ pc = "complete" /\ pc' = "idle"
  BY DEF ServerSends, InitiateResponse, WriteAll, Flush, Complete
<1>5. wire \in Seq(WireParts) /\ Len(wire) \in Nat
  BY LenProperties DEF EInv, ETypeOK
<1>6. wire' \in Seq(WireParts)
  BY <1>2, <1>3, <1>5, ConcatProperties
<1>7. ETypeOK'
  BY <1>2, <1>6 DEF EInv, ETypeOK
<1>8. InStep'
  <2> SUFFICES ASSUME cpc # "gone"
               PROVE  InStep'
    BY <1>2 DEF InStep
  <2>1. asked # <<>>
    BY <1>1 DEF EInv, InStep
  <2>2. PICK c \in 0 .. 6 : Position(c) /\ ServerPlace(c)
    BY <2>1, PlaceInAnswer
  <2>3. Due' = Due /\ ClientPlace' /\ Parts(Due) \in 1 .. 6
    BY <1>2, <2>1, DueAnswers DEF Due, ClientPlace, EInv, InStep, Chunked
  <2>4. Position(c)' /\ ServerPlace(c)'
    <3>1. CASE pending # None
      <4>1. ~Chunked(plan) /\ (pc = "body" => Parts(plan) = 1) /\ pc # "head"
        BY <1>1, <2>2, <3>1 DEF ServerPlace, Active, Parts
      <4>2. Len(Output) = 0
        BY <1>1, <1>3, <4>1 DEF Active
      <4>3. Output = <<>>
        BY <1>3, <4>2, EmptySeq
      <4>4. wire' = wire
        BY <1>2, <1>5, <4>3, ConcatEmptySeq
      <4>5. Position(c)'
        BY <1>2, <2>2, <2>3, <4>4 DEF Position, PartsRead, Parts, PartAt, Chunked
      <4>6. ServerPlace(c)'
        BY <1>2, <1>4, <2>2, <3>1, <4>1, <4>4 DEF ServerPlace, Chunked
      <4>7. QED
        BY <4>5, <4>6
    <3>2. CASE pending = None
      <4>1. plan = Due /\ c + Len(wire) = PartsSent(Due)
        BY <1>1, <2>2, <3>2 DEF ServerPlace
      <4>2. c + Len(wire) + Len(Output) <= Parts(Due)
        BY <1>1, <1>3, <1>5, <2>3, <4>1 DEF Active, PartsSent, Parts
      <4>3. Position(c)' /\ Len(wire') = Len(wire) + Len(Output)
        BY <1>2, <1>3, <1>5, <2>2, <4>1, <4>2, WireGrows
      <4>4. c + Len(wire') = PartsSent(Due)'
        BY <1>3, <1>4, <1>5, <2>3, <4>1, <4>3 DEF PartsSent, Parts, Chunked
      <4>5. ServerPlace(c)'
        BY <1>2, <1>4, <2>3, <3>2, <4>1, <4>4 DEF ServerPlace
      <4>6. QED
        BY <4>3, <4>5
    <3>3. QED
      BY <3>1, <3>2
  <2>5. Len(asked) = Len(seen) + (IF cpc = "idle" THEN 0 ELSE 1)
    BY <2>1 DEF EInv, InStep
  <2>6. QED
    BY <1>2, <2>1, <2>3, <2>4, <2>5 DEF InStep
<1>9. QED
  BY <1>7, <1>8

\* An await of the server fails with a part of its output sent.
LEMMA FailsInStep ==
  ASSUME EInv, ServerFails
  PROVE  ETypeOK' /\ InStep'
<1>1. pc \in Active /\ plan \in Answers /\ pc' = "closed" /\ pc \notin {"idle", "closed"}
  BY DEF ServerFails, StepFails, EInv, HInv, InProgress, Active
<1>2. UNCHANGED <<pending, asked, seen, cpc, want, cur>>
  BY DEF ServerFails
<1>3. /\ Output \in Seq(WireParts) /\ Len(Output) \in Nat
      /\ Len(Output) = IF pc = "head" THEN 1
                       ELSE IF pc = "body" THEN IF Chunked(plan) THEN 3 ELSE Parts(plan) - 1
                       ELSE IF pc = "complete" /\ Chunked(plan) THEN 2 ELSE 0
      /\ \A i \in 1 .. Len(Output) : Output[i] = PartAt(plan, PartsSent(plan) + i)
  BY <1>1, OutputParts, LenProperties
<1>4. PICK k \in 0 .. Len(Output) : wire' = wire \o SubSeq(Output, 1, k)
  BY DEF ServerFails
<1> DEFINE out == SubSeq(Output, 1, k)
<1>k. k \in Nat /\ k <= Len(Output)
  BY <1>3, <1>4
<1>5. /\ out \in Seq(WireParts) /\ Len(out) = k
      /\ \A i \in 1 .. k : out[i] = Output[i]
  <2>1. \A i \in 1 .. k : Output[i] \in WireParts
    BY <1>3, <1>k, ElementOfSeq
  <2>2. k \in Int /\ 1 \in Int
    BY <1>k
  <2>3. /\ out \in Seq(WireParts) /\ Len(out) = (IF 1 <= k THEN k - 1 + 1 ELSE 0)
        /\ \A i \in 1 .. k - 1 + 1 : out[i] = Output[1 + i - 1]
    BY <2>1, <2>2, SubSeqProperties
  <2> HIDE DEF out
  <2>4. QED
    BY <1>k, <2>3
<1> HIDE DEF out
<1>6. wire \in Seq(WireParts) /\ Len(wire) \in Nat
  BY LenProperties DEF EInv, ETypeOK
<1>7. wire' = wire \o out
  BY <1>4 DEF out
<1>8. ETypeOK'
  BY <1>2, <1>5, <1>6, <1>7, ConcatProperties DEF EInv, ETypeOK
<1>9. InStep'
  <2> SUFFICES ASSUME cpc # "gone"
               PROVE  InStep'
    BY <1>2 DEF InStep
  <2>1. asked # <<>>
    BY <1>1 DEF EInv, InStep
  <2>2. PICK c \in 0 .. 6 : Position(c) /\ ServerPlace(c)
    BY <2>1, PlaceInAnswer
  <2>3. Due' = Due /\ ClientPlace' /\ Parts(Due) \in 1 .. 6
    BY <1>2, <2>1, DueAnswers DEF Due, ClientPlace, EInv, InStep, Chunked
  <2>4. Position(c)' /\ ServerPlace(c)'
    <3>1. CASE pending # None
      <4>1. ~Chunked(plan) /\ (pc = "body" => Parts(plan) = 1) /\ pc # "head"
        BY <1>1, <2>2, <3>1 DEF ServerPlace, Active, Parts
      <4>2. Len(out) = 0
        BY <1>1, <1>3, <1>4, <1>5, <4>1 DEF Active
      <4>3. out = <<>>
        BY <1>5, <4>2, EmptySeq
      <4>4. wire' = wire
        BY <1>6, <1>7, <4>3, ConcatEmptySeq
      <4>5. Position(c)'
        BY <1>2, <2>2, <2>3, <4>4 DEF Position, PartsRead, Parts, PartAt, Chunked
      <4>6. ServerPlace(c)'
        BY <1>1, <1>2, <2>2, <3>1, <4>4 DEF ServerPlace
      <4>7. QED
        BY <4>5, <4>6
    <3>2. CASE pending = None
      <4>1. plan = Due /\ c + Len(wire) = PartsSent(Due)
        BY <1>1, <2>2, <3>2 DEF ServerPlace
      <4>2. c + Len(wire) + Len(Output) <= Parts(Due)
        BY <1>1, <1>3, <1>6, <2>3, <4>1 DEF Active, PartsSent, Parts
      <4>3. c + Len(wire) + Len(out) <= Parts(Due)
        BY <1>3, <1>k, <1>5, <1>6, <2>3, <4>2
      <4>4. \A i \in 1 .. Len(out) : out[i] = PartAt(Due, c + Len(wire) + i)
        BY <1>3, <1>k, <1>5, <4>1
      <4>5. Position(c)'
        BY <1>2, <1>5, <1>6, <1>7, <2>2, <4>3, <4>4, WireGrows
      <4>6. ServerPlace(c)'
        BY <1>1, <1>2, <3>2 DEF ServerPlace
      <4>7. QED
        BY <4>5, <4>6
    <3>3. QED
      BY <3>1, <3>2
  <2>5. Len(asked) = Len(seen) + (IF cpc = "idle" THEN 0 ELSE 1)
    BY <2>1 DEF EInv, InStep
  <2>6. QED
    BY <1>2, <2>1, <2>3, <2>4, <2>5 DEF InStep
<1>10. QED
  BY <1>8, <1>9

\* The server takes the request on its way, or ends the idle connection.
LEMMA ReceivesInStep ==
  ASSUME EInv, ServerReceives \/ ServerEnds
  PROVE  ETypeOK' /\ InStep'
<1>1. UNCHANGED <<wire, asked, seen, cpc, want, cur>> /\ pc = "idle"
  BY DEF ServerReceives, Receive, ServerEnds, ConnectionEnds, evars
<1>2. ETypeOK'
  BY <1>1 DEF EInv, ETypeOK, ServerReceives, ServerEnds, evars
<1>3. InStep'
  <2> SUFFICES ASSUME cpc # "gone"
               PROVE  InStep'
    BY <1>1 DEF InStep
  <2>1. CASE asked = <<>>
    BY <1>1, <2>1 DEF EInv, InStep, ServerReceives, ServerEnds, ConnectionEnds, evars
  <2>2. CASE asked # <<>>
    <3>1. PICK c \in 0 .. 6 : Position(c) /\ ServerPlace(c)
      BY <2>2, PlaceInAnswer
    <3>2. Due' = Due /\ ClientPlace' /\ Position(c)'
      BY <1>1, <2>2, <3>1 DEF Due, ClientPlace, Chunked, EInv, InStep, Position, PartsRead,
                              Parts, PartAt
    <3>3. ServerPlace(c)'
      <4>1. CASE ServerReceives
        <5>1. pending' = None /\ pc' = "head" /\ plan' = Dispatch(pending) /\ pending # None
          BY <4>1 DEF ServerReceives, Receive
        <5>2. plan' = Due /\ c + Len(wire) = 0
          BY <3>1, <5>1 DEF ServerPlace, Due
        <5>3. QED
          BY <1>1, <3>2, <5>1, <5>2 DEF ServerPlace, PartsSent
      <4>2. CASE ServerEnds
        BY <1>1, <3>1, <4>2 DEF ServerEnds, ConnectionEnds, evars, ServerPlace
      <4>3. QED
        BY <4>1, <4>2
    <3>4. QED
      BY <1>1, <2>2, <3>2, <3>3 DEF EInv, InStep
  <2>3. QED
    BY <2>1, <2>2
<1>4. QED
  BY <1>2, <1>3
-----------------------------------------------------------------------------
(* The client's steps. *)

\* The client takes d parts off the wire.
LEMMA TakeParts ==
  ASSUME EInv, asked # <<>>, NEW c \in 0 .. 6, Position(c), ServerPlace(c),
         NEW d \in 0 .. Len(wire), wire' = SubSeq(wire, d + 1, Len(wire)),
         UNCHANGED <<hvars, pending, asked>>, c + d \in PartsRead(Due)'
  PROVE  /\ wire' \in Seq(WireParts) /\ c + d \in 0 .. 6
         /\ Position(c + d)' /\ ServerPlace(c + d)'
<1>1. wire \in Seq(WireParts) /\ Len(wire) \in Nat
  BY LenProperties DEF EInv, ETypeOK
<1>2. d \in Nat /\ d <= Len(wire)
  BY <1>1
<1>3. Due' = Due /\ Parts(Due) \in 1 .. 6
  BY DueAnswers DEF Due, EInv
<1>4. /\ wire' \in Seq(WireParts) /\ Len(wire') = Len(wire) - d
      /\ \A i \in 1 .. Len(wire) - d : wire'[i] = wire[d + i]
  <2>1. \A i \in d + 1 .. Len(wire) : wire[i] \in WireParts
    BY <1>1, <1>2, ElementOfSeq
  <2>2. d + 1 \in Int /\ Len(wire) \in Int
    BY <1>1, <1>2
  <2>3. /\ wire' \in Seq(WireParts)
        /\ Len(wire') = (IF d + 1 <= Len(wire) THEN Len(wire) - (d + 1) + 1 ELSE 0)
        /\ \A i \in 1 .. Len(wire) - (d + 1) + 1 : wire'[i] = wire[d + 1 + i - 1]
    BY <2>1, <2>2, SubSeqProperties
  <2>4. QED
    BY <1>1, <1>2, <2>3
<1>5. c + Len(wire) <= Parts(Due) /\ \A i \in 1 .. Len(wire) : wire[i] = PartAt(Due, c + i)
  BY DEF Position
<1>6. c + d \in 0 .. 6 /\ (c + d) + Len(wire') = c + Len(wire)
  BY <1>1, <1>2, <1>3, <1>4, <1>5
<1>7. ASSUME NEW i \in 1 .. Len(wire')
      PROVE  wire'[i] = PartAt(Due, (c + d) + i)
  <2>1. i \in 1 .. Len(wire) - d
    BY <1>4
  <2>2. wire'[i] = wire[d + i]
    BY <1>4, <2>1
  <2>3. d + i \in 1 .. Len(wire) /\ c + (d + i) = (c + d) + i
    BY <1>1, <1>2, <2>1
  <2>4. QED
    BY <1>5, <2>2, <2>3
<1>8. \A i \in Int : PartAt(Due, i)' = PartAt(Due, i) /\ Parts(Due)' = Parts(Due)
  BY <1>3 DEF PartAt, Chunked, Parts
<1>9. Position(c + d)'
  BY <1>1, <1>3, <1>4, <1>5, <1>6, <1>7, <1>8 DEF Position
<1>10. ServerPlace(c + d)'
  BY <1>3, <1>6 DEF ServerPlace, hvars, PartsSent
<1>11. QED
  BY <1>4, <1>6, <1>9, <1>10

\* read_response goes on to its next read ...
LEMMA AwaitsInStep ==
  ASSUME EInv, asked # <<>>, cpc \notin {"idle", "gone"},
         NEW c \in 0 .. 6, Position(c), ServerPlace(c),
         NEW d \in 0 .. Len(wire), wire' = SubSeq(wire, d + 1, Len(wire)),
         UNCHANGED <<hvars, pending, asked>>, c + d \in PartsRead(Due)',
         NEW read \in {"body", "size", "data", "last", "trailer"}, NEW n,
         Awaits(read, n, Due.status), ClientPlace'
  PROVE  ETypeOK' /\ InStep' /\ seen' = seen
<1>1. /\ wire' \in Seq(WireParts)
      /\ \E e \in 0 .. 6 : Position(e)' /\ ServerPlace(e)'
  BY TakeParts
<1>2. cpc' = read /\ seen' = seen
  BY DEF Awaits
<1>3. ETypeOK'
  BY <1>1, <1>2 DEF EInv, ETypeOK
<1>4. InStep'
  BY <1>1, <1>2 DEF EInv, InStep
<1>5. QED
  BY <1>2, <1>3, <1>4

\* ... or returns the status line of the due answer.
LEMMA ReturnsInStep ==
  ASSUME EInv, asked # <<>>, cpc \notin {"idle", "gone"},
         NEW c \in 0 .. 6, Position(c), ServerPlace(c),
         NEW d \in 0 .. Len(wire), wire' = SubSeq(wire, d + 1, Len(wire)),
         UNCHANGED <<hvars, pending, asked>>, c + d = Parts(Due),
         Returns(Due.status)
  PROVE  ETypeOK' /\ InStep' /\ Len(seen) < Len(asked) /\ seen' = Append(seen, Due.status)
<1>1. /\ cpc' = "idle" /\ seen' = Append(seen, Due.status)
  BY DEF Returns
<1>2. Due' = Due /\ Due.status \in {200, 404, 405}
  BY DueAnswers DEF Due, EInv, Answers
<1>3. c + d \in PartsRead(Due)'
  BY <1>1, <1>2 DEF PartsRead
<1>4. /\ wire' \in Seq(WireParts)
      /\ \E e \in 0 .. 6 : Position(e)' /\ ServerPlace(e)'
  BY <1>3, TakeParts
<1>5. seen' \in Seq({200, 404, 405, "garbled"}) /\ Len(seen') = Len(seen) + 1 /\ Len(seen) \in Nat
  BY <1>1, <1>2, AppendProperties, LenProperties DEF EInv, ETypeOK
<1>6. Len(asked) = Len(seen) + 1
  BY DEF EInv, InStep
<1>7. ETypeOK'
  BY <1>1, <1>4, <1>5 DEF EInv, ETypeOK
<1>8. ClientPlace'
  BY <1>1 DEF ClientPlace
<1>9. InStep'
  BY <1>1, <1>4, <1>5, <1>6, <1>8 DEF InStep
<1>10. QED
  BY <1>1, <1>5, <1>6, <1>7, <1>9

LEMMA TailIsRest ==
  ASSUME wire \in Seq(WireParts), wire # <<>>
  PROVE  Tail(wire) = SubSeq(wire, 1 + 1, Len(wire)) /\ 1 \in 0 .. Len(wire) /\ 1 \in 1 .. Len(wire)
BY TailIsSubSeq, EmptySeq

\* Each read takes the part of the due answer it is meant for.
LEMMA ReadsInStep ==
  ASSUME EInv, ClientReads
  PROVE  /\ ETypeOK' /\ InStep'
         /\ seen' = seen \/ (Len(seen) < Len(asked) /\ seen' = Append(seen, Due.status))
<1>1. cpc \notin {"idle", "gone"} /\ UNCHANGED <<hvars, pending, asked>>
  BY DEF ClientReads, ReadHead, ReadBody, ReadSize, ReadData, ReadLast, ReadTrailer
<1>2. asked # <<>>
  BY <1>1 DEF EInv, InStep
<1>3. PICK c \in 0 .. 6 : Position(c) /\ ServerPlace(c)
  BY <1>1, <1>2, PlaceInAnswer
<1>4. wire \in Seq(WireParts) /\ Len(wire) \in Nat
  BY LenProperties DEF EInv, ETypeOK
<1>5. /\ Due \in Answers /\ Due' = Due /\ None \notin Nat
      /\ Due.bytes \in Nat /\ Parts(Due) \in 1 .. 6
  BY <1>1, <1>2, DueAnswers, RoutesAssumption DEF Due, EInv, Answers
<1>6. /\ c \in PartsRead(Due) /\ c + Len(wire) <= Parts(Due)
      /\ \A i \in 1 .. Len(wire) : wire[i] = PartAt(Due, c + i)
  BY <1>3 DEF Position
<1>7. ClientPlace
  BY <1>1, <1>2 DEF EInv, InStep
<1>8. CASE ReadHead
  <2>1. cpc = "head" /\ c = 0
    BY <1>6, <1>8 DEF ReadHead, PartsRead
  <2>2. PICK k \in 1 .. Len(wire) :
          /\ wire[k].part = "head"
          /\ wire' = SubSeq(wire, k + 1, Len(wire))
          /\ LET status == IF k = 1 THEN wire[k].status ELSE "garbled"
                 n == wire[k].len
             IN  CASE n = None -> Awaits("size", 0, status)
                   [] n = 0 -> Returns(status)
                   [] OTHER -> Awaits("body", n, status)
    BY <1>8 DEF ReadHead
  <2>3. k = 1 /\ k \in 0 .. Len(wire) /\ wire[k] = ResponseHead(Due)
    <3>1. wire[k] = PartAt(Due, k) /\ k \in Nat
      BY <1>4, <1>6, <2>1, <2>2
    <3>2. k # 1 => PartAt(Due, k).part # "head"
      BY <3>1 DEF PartAt, Body, Size, Crlf
    <3>3. QED
      BY <1>4, <2>2, <3>1, <3>2 DEF PartAt
  <2>4. wire[k].status = Due.status /\ wire[k].len = Due.declared
    BY <2>3 DEF ResponseHead
  <2>5. CASE Due.declared = None
    <3>1. Awaits("size", 0, Due.status)
      BY <1>5, <2>2, <2>3, <2>4, <2>5
    <3>2. cpc' = "size" /\ cur' = Due.status
      BY <3>1 DEF Awaits
    <3>3. c + k \in PartsRead(Due)' /\ ClientPlace'
      BY <1>5, <2>1, <2>3, <2>5, <3>2 DEF PartsRead, ClientPlace, Chunked
    <3>4. QED
      BY <1>1, <1>2, <1>3, <2>2, <2>3, <3>1, <3>3, AwaitsInStep
  <2>6. CASE Due.declared = 0
    <3>1. Returns(Due.status)
      BY <1>5, <2>2, <2>3, <2>4, <2>6
    <3>2. c + k = Parts(Due)
      BY <1>5, <2>1, <2>3, <2>6 DEF Parts, Chunked, Answers
    <3>3. QED
      BY <1>1, <1>2, <1>3, <2>2, <2>3, <3>1, <3>2, ReturnsInStep
  <2>7. CASE Due.declared # None /\ Due.declared # 0
    <3>1. Awaits("body", Due.declared, Due.status)
      BY <2>2, <2>3, <2>4, <2>7
    <3>2. cpc' = "body" /\ cur' = Due.status /\ want' = Due.declared
      BY <3>1 DEF Awaits
    <3>3. c + k \in PartsRead(Due)' /\ ClientPlace'
      BY <1>5, <2>1, <2>3, <2>7, <3>2 DEF PartsRead, ClientPlace, Chunked, Answers
    <3>4. QED
      BY <1>1, <1>2, <1>3, <2>2, <2>3, <3>1, <3>3, AwaitsInStep
  <2>8. QED
    BY <2>5, <2>6, <2>7
<1>9. CASE ReadBody
  <2>1. /\ cpc = "body" /\ c = 1 /\ ~Chunked(Due) /\ want = Due.bytes /\ cur = Due.status
        /\ Due.bytes > 0 /\ wire # <<>> /\ Returns(cur)
    BY <1>6, <1>7, <1>9 DEF ReadBody, PartsRead, ClientPlace, NextIs
  <2>2. wire[1] = Body(Due.bytes)
    BY <1>4, <1>6, <2>1, TailIsRest DEF PartAt
  <2>3. wire' = <<>> \o Tail(wire)
    BY <1>9, <2>1, <2>2 DEF ReadBody, Body
  <2>4. wire' = Tail(wire)
    BY <1>4, <2>1, <2>3, HeadTailProperties, ConcatEmptySeq
  <2>5. c + 1 = Parts(Due)
    BY <2>1 DEF Parts
  <2>6. QED
    BY <1>1, <1>2, <1>3, <1>4, <2>1, <2>4, <2>5, TailIsRest, ReturnsInStep
<1>10. CASE ReadSize
  <2>1. /\ cpc = "size" /\ c \in {1, 4} /\ Chunked(Due) /\ cur = Due.status
        /\ Due.bytes > 0 /\ wire # <<>> /\ wire' = Tail(wire)
    BY <1>5, <1>6, <1>7, <1>10 DEF ReadSize, PartsRead, ClientPlace, NextIs, Take, Chunked, Answers
  <2>2. wire[1] = Size(IF c = 1 THEN Due.bytes ELSE 0)
    BY <1>4, <1>6, <2>1, TailIsRest DEF PartAt
  <2>3. CASE c = 4
    <3>1. Awaits("last", 0, Due.status)
      BY <1>10, <2>1, <2>2, <2>3 DEF ReadSize, Size
    <3>2. cpc' = "last" /\ cur' = Due.status
      BY <3>1 DEF Awaits
    <3>3. c + 1 \in PartsRead(Due)' /\ ClientPlace'
      BY <1>5, <2>1, <2>3, <3>2 DEF PartsRead, ClientPlace, Chunked
    <3>4. QED
      BY <1>1, <1>2, <1>3, <1>4, <2>1, <3>1, <3>3, TailIsRest, AwaitsInStep
  <2>4. CASE c = 1
    <3>1. Awaits("data", Due.bytes, Due.status)
      BY <1>5, <1>10, <2>1, <2>2, <2>4 DEF ReadSize, Size
    <3>2. cpc' = "data" /\ cur' = Due.status /\ want' = Due.bytes
      BY <3>1 DEF Awaits
    <3>3. c + 1 \in PartsRead(Due)' /\ ClientPlace'
      BY <1>5, <2>1, <2>4, <3>2 DEF PartsRead, ClientPlace, Chunked
    <3>4. QED
      BY <1>1, <1>2, <1>3, <1>4, <2>1, <3>1, <3>3, TailIsRest, AwaitsInStep
  <2>5. QED
    BY <2>1, <2>3, <2>4
<1>11. CASE ReadData
  <2>1. /\ cpc = "data" /\ c = 2 /\ Chunked(Due) /\ cur = Due.status
        /\ Awaits("size", 0, Due.status) /\ wire' = SubSeq(wire, 2 + 1, Len(wire))
        /\ 2 \in 0 .. Len(wire)
    BY <1>4, <1>6, <1>7, <1>11 DEF ReadData, PartsRead, ClientPlace
  <2>2. cpc' = "size" /\ cur' = Due.status
    BY <2>1 DEF Awaits
  <2>3. c + 2 \in PartsRead(Due)' /\ ClientPlace'
    BY <1>5, <2>1, <2>2 DEF PartsRead, ClientPlace, Chunked
  <2>4. QED
    BY <1>1, <1>2, <1>3, <2>1, <2>3, AwaitsInStep
<1>12. CASE ReadLast
  <2>1. /\ cpc = "last" /\ c = 5 /\ Chunked(Due) /\ cur = Due.status
        /\ Awaits("trailer", 0, Due.status) /\ wire' = Tail(wire) /\ wire # <<>>
    BY <1>6, <1>7, <1>12 DEF ReadLast, PartsRead, ClientPlace, NextIs, Take
  <2>2. cpc' = "trailer" /\ cur' = Due.status
    BY <2>1 DEF Awaits
  <2>3. c + 1 \in PartsRead(Due)' /\ ClientPlace'
    BY <1>5, <2>1, <2>2 DEF PartsRead, ClientPlace, Chunked, Parts
  <2>4. QED
    BY <1>1, <1>2, <1>3, <1>4, <2>1, <2>3, TailIsRest, AwaitsInStep
<1>13. CASE ReadTrailer
  <2>1. cpc = "trailer" /\ c = Parts(Due) /\ cur = Due.status /\ Returns(Due.status)
    BY <1>6, <1>7, <1>13 DEF ReadTrailer, PartsRead, ClientPlace
  <2>2. Len(wire) = 0
    BY <1>4, <1>5, <1>6, <2>1
  <2>3. wire = <<>>
    BY <1>4, <2>2, EmptySeq
  <2>4. wire' = wire
    BY <1>13, <2>3 DEF ReadTrailer, NextIs
  <2>5. wire' = SubSeq(wire, 0 + 1, Len(wire)) /\ 0 \in 0 .. Len(wire) /\ c + 0 = Parts(Due)
    BY <1>4, <1>5, <2>1, <2>4, SubSeqFull
  <2>6. QED
    BY <1>1, <1>2, <1>3, <2>1, <2>5, ReturnsInStep
<1>14. QED
  BY <1>8, <1>9, <1>10, <1>11, <1>12, <1>13 DEF ClientReads
\* The client asks again only when it has read all of the answer before, so that what
\* the server has still to do about that one is silent.
LEMMA AsksInStep ==
  ASSUME EInv, NEW r \in Request, ClientSends(r)
  PROVE  /\ ETypeOK' /\ InStep'
         /\ Len(seen) = Len(asked) /\ asked' = Append(asked, r) /\ UNCHANGED seen
<1>1. /\ cpc = "idle" /\ cpc' = "head" /\ pending' = r /\ asked' = Append(asked, r)
      /\ UNCHANGED <<pc, plan, requests, responses, wire, seen, want, cur>>
  BY DEF ClientSends, hvars
<1>2. /\ asked' \in Seq(Request) /\ asked' # <<>> /\ Len(asked') = Len(asked) + 1
      /\ asked'[Len(asked')] = r /\ Len(asked) \in Nat
  BY <1>1, AppendProperties, LenProperties DEF EInv, ETypeOK
<1>3. ETypeOK'
  BY <1>1, <1>2 DEF EInv, ETypeOK
<1>4. r # None
  BY ExchangeAssumption
<1>5. wire \in Seq(WireParts) /\ Len(wire) \in Nat
  BY LenProperties DEF EInv, ETypeOK
<1>6. /\ Len(seen) = Len(asked) /\ wire = <<>> /\ pc # "head"
      /\ pc \in {"body", "flush", "complete"} => ~Chunked(plan)
      /\ pc = "body" => plan.bytes = 0
  <2>1. CASE asked = <<>>
    BY <1>1, <2>1, EmptySeq DEF EInv, InStep
  <2>2. CASE asked # <<>>
    <3>1. PICK c \in 0 .. 6 : Position(c) /\ ServerPlace(c)
      BY <1>1, <2>2, PlaceInAnswer
    <3>2. Parts(Due) \in 1 .. 6 /\ Due \in Answers
      BY <2>2, DueAnswers DEF EInv
    <3>3. c = Parts(Due) /\ Len(wire) = 0
      BY <1>1, <1>5, <3>1, <3>2 DEF Position, PartsRead
    <3>4. pending = None
      BY <1>5, <3>1, <3>2, <3>3 DEF ServerPlace
    <3>5. pc # "closed" => PartsSent(Due) = Parts(Due) /\ (pc # "idle" => plan = Due)
      BY <3>1, <3>2, <3>3, <3>4 DEF ServerPlace
    <3>6. /\ pc # "head"
          /\ pc \in {"body", "flush", "complete"} => ~Chunked(Due)
          /\ pc = "body" => ~(Due.bytes > 0)
      BY <3>5 DEF PartsSent, Parts
    <3>7. Due.bytes \in Nat
      BY <3>2 DEF Answers
    <3>8. Len(seen) = Len(asked)
      <4>1. Len(asked) = Len(seen) + 0
        BY <1>1, <2>2 DEF EInv, InStep
      <4>2. Len(seen) \in Nat
        BY LenProperties DEF EInv, ETypeOK
      <4>3. QED
        BY <4>1, <4>2
    <3>9. wire = <<>>
      BY <1>5, <3>3, EmptySeq
    <3>10. QED
      BY <3>5, <3>6, <3>7, <3>8, <3>9
  <2>3. QED
    BY <2>1, <2>2
<1>7. Position(0)'
  <2>1. Len(wire') = 0
    BY <1>1, <1>6, EmptySeq
  <2>2. 0 \in PartsRead(Due)'
    BY <1>1 DEF PartsRead
  <2>3. Parts(Due)' \in 1 .. 6
    BY DEF Parts
  <2>4. QED
    BY <2>1, <2>2, <2>3 DEF Position
<1>8. ServerPlace(0)'
  <2>1. 0 + Len(wire') = 0
    BY <1>1, <1>6, EmptySeq
  <2>2. QED
    BY <1>1, <1>2, <1>4, <1>6, <2>1 DEF ServerPlace, Chunked
<1>9. ClientPlace'
  BY <1>1 DEF ClientPlace
<1>10. Len(asked') = Len(seen') + 1 /\ 0 \in 0 .. 6
  BY <1>1, <1>2, <1>6
<1>11. InStep'
  BY <1>1, <1>2, <1>7, <1>8, <1>9, <1>10 DEF InStep
<1>12. QED
  BY <1>1, <1>3, <1>6, <1>11

-----------------------------------------------------------------------------

\* A step of the exchange is a step of the handler or leaves it alone.
LEMMA HandlerSteps ==
  ASSUME EInv, [ENext]_xvars
  PROVE  [HNext]_hvars
<1>1. CASE ServerReceives
  <2>1. pending \in Request /\ Receive(pending)
    BY <1>1 DEF ServerReceives, EInv, ETypeOK
  <2>2. QED
    BY <2>1 DEF HNext
<1>2. CASE ServerSends \/ ServerFails \/ ServerEnds
  BY <1>2 DEF ServerSends, ServerFails, ServerEnds, HNext, HandlerStep
<1>3. CASE Client
  BY <1>3 DEF Client, ClientSends, ClientReads, ClientFails, ClientLeaves
<1>4. CASE UNCHANGED xvars
  BY <1>4 DEF xvars
<1>5. QED
  BY <1>1, <1>2, <1>3, <1>4 DEF ENext, Server

LEMMA EInductive == EInv /\ [ENext]_xvars => EInv'
<1> SUFFICES ASSUME EInv, [ENext]_xvars
             PROVE  EInv'
  OBVIOUS
<1>0. HInv'
  BY HandlerSteps, HInductive DEF EInv
<1>1. CASE Server \/ ServerFails \/ ServerEnds
  BY <1>0, <1>1, SendsInStep, FailsInStep, ReceivesInStep DEF Server, EInv
<1>2. CASE \E r \in Request : ClientSends(r)
  BY <1>0, <1>2, AsksInStep DEF EInv
<1>3. CASE ClientReads
  BY <1>0, <1>3, ReadsInStep DEF EInv
<1>4. CASE ClientFails \/ ClientLeaves
  <2>1. ETypeOK' /\ InStep'
    BY <1>4 DEF ClientFails, ClientLeaves, EInv, ETypeOK, InStep
  <2>2. QED
    BY <1>0, <2>1 DEF EInv
<1>5. CASE UNCHANGED xvars
  <2>1. ETypeOK'
    BY <1>5 DEF xvars, evars, EInv, ETypeOK
  <2>2. InStep'
    BY <1>5 DEF xvars, evars, hvars, EInv, InStep, ClientPlace, Position, ServerPlace, Due,
                PartsRead, PartsSent, Parts, PartAt, Chunked
  <2>3. QED
    BY <1>0, <2>1, <2>2 DEF EInv
<1>6. QED
  BY <1>1, <1>2, <1>3, <1>4, <1>5 DEF ENext, Client

LEMMA EInitial == EInit => EInv
<1> SUFFICES ASSUME EInit
             PROVE  EInv
  OBVIOUS
<1>1. HInv
  BY HInitial DEF EInit
<1>2. ETypeOK
  BY EmptySeq DEF EInit, ETypeOK
<1>3. InStep
  BY DEF EInit, InStep, HInit
<1>4. QED
  BY <1>1, <1>2, <1>3 DEF EInv

\* Each step of the exchange is a question, its answer or a stutter of RequestReply.
LEMMA ExchangeSteps ==
  ASSUME EInv, [ENext]_xvars
  PROVE  [Pairing!RRNext]_<<asked, seen>>
<1>1. CASE \E r \in Request : ClientSends(r)
  <2>1. PICK r \in Request : ClientSends(r)
    BY <1>1
  <2>2. Len(seen) = Len(asked) /\ asked' = Append(asked, r) /\ UNCHANGED seen
    BY <2>1, AsksInStep
  <2>3. Pairing!Ask(r)
    BY <2>2 DEF Pairing!Ask
  <2>4. QED
    BY <2>3 DEF Pairing!RRNext
<1>2. CASE ClientReads
  <2>1. UNCHANGED asked
    BY <1>2 DEF ClientReads
  <2>2. CASE seen' = seen
    BY <2>1, <2>2
  <2>3. CASE Len(seen) < Len(asked) /\ seen' = Append(seen, Due.status)
    <3>1. asked # <<>>
      <4>1. Len(seen) \in Nat
        BY LenProperties DEF EInv, ETypeOK
      <4>2. QED
        BY <2>3, <4>1, EmptySeq
    <3>2. Due.status = StatusFor(asked[Len(asked)])
      BY <3>1, DueAnswers DEF EInv
    <3>3. Pairing!Reply
      BY <2>1, <2>3, <3>2 DEF Pairing!Reply
    <3>4. QED
      BY <3>3 DEF Pairing!RRNext
  <2>4. QED
    BY <1>2, <2>2, <2>3, ReadsInStep
<1>3. CASE ServerReceives \/ ServerSends \/ ServerFails \/ ServerEnds \/ ClientFails \/ ClientLeaves
  BY <1>3 DEF ServerReceives, ServerSends, ServerFails, ServerEnds, evars, ClientFails, ClientLeaves
<1>4. CASE UNCHANGED xvars
  BY <1>4 DEF xvars, evars
<1>5. QED
  BY <1>1, <1>2, <1>3, <1>4 DEF ENext, Server, Client

\* The connection implements RequestReply: whatever fails and whenever the client asks
\* again, its n-th status line is what its n-th request deserves.
THEOREM ExchangeAnswersMatch == ESpec => AnswersMatch
<1>1. EInit => Pairing!RRInit
  BY DEF EInit, Pairing!RRInit
<1>2. EInv /\ [ENext]_xvars => [Pairing!RRNext]_<<asked, seen>>
  BY ExchangeSteps
<1>3. QED
  BY <1>1, <1>2, EInitial, EInductive, PTL DEF ESpec, AnswersMatch, Pairing!RRSpec

\* With a client at the other end, and whatever it does, the handlers still go through
\* the steps that HttpHandler describes.
THEOREM ExchangeIsHandled == ESpec => HSpec
<1>1. EInit => HInit
  BY DEF EInit
<1>2. EInv /\ [ENext]_xvars => [HNext]_hvars
  BY HandlerSteps
<1>3. QED
  BY <1>1, <1>2, EInitial, EInductive, PTL DEF ESpec, HSpec

-----------------------------------------------------------------------------
(* The firmware. *)

\* A step of the firmware is one of the exchange or leaves it alone.
LEMMA DemoSteps == [PNext]_pvars => [ENext]_xvars
<1> SUFFICES ASSUME [PNext]_pvars
             PROVE  [ENext]_xvars
  OBVIOUS
<1>1. CASE CoreStep \/ JoinFails
  BY <1>1 DEF CoreStep, JoinFails, Boot, StackGuardFails, CreateDriver, DriverCreated,
              ControlInitialised, PowerManagementSet, Joined, LinkIsUp, ConfigIsUp,
              TakeConfig, Core
<1>2. CASE RunServer \/ Bound \/ BindFails \/ ServerRunEnds
  BY <1>2 DEF RunServer, Bound, BindFails, Binding, ServerRunEnds, ServerTask
<1>3. CASE DemoServer \/ DemoClient \/ DemoConnectionEnds
  BY <1>3 DEF DemoServer, DemoClient, DemoConnectionEnds, ENext, Client
<1>4. CASE Network \/ LinkGoesDown
  BY <1>4 DEF Network, LinkComesUp, DhcpAnswers, LinkGoesDown
<1>5. CASE UNCHANGED pvars
  BY <1>5 DEF pvars
<1>6. QED
  BY <1>1, <1>2, <1>3, <1>4, <1>5 DEF PNext

\* The firmware serves its connection as HttpExchange describes, so what is proved of
\* the exchange and of the handlers holds of it.
THEOREM DemoIsExchange == PSpec => ESpec
<1>1. PInit => EInit
  BY DEF PInit
<1>2. QED
  BY <1>1, DemoSteps, PTL DEF PSpec, ESpec

\* In the firmware, too, the client's n-th answer belongs to its n-th request.
THEOREM DemoAnswersMatch == PSpec => AnswersMatch
BY DemoIsExchange, ExchangeAnswersMatch

\* The firmware's responses follow the requests of the connection one by one, over a link
\* that comes and goes and with handlers that fail at any await.
THEOREM DemoResponsesPairUp == PSpec => []ResponsesPairUp
BY DemoIsExchange, ExchangeIsHandled, PairingCorrect

\* The firmware's responses have the length they declare.
THEOREM DemoLengthsDeclared == PSpec => []DeclaredIsSent
BY DemoIsExchange, ExchangeIsHandled, LengthsDeclared

\* What main, core_0_task and run_server_task have not done yet at each of their
\* awaits: no cell they are about to take is taken and no task they are about to spawn runs.
Untouched ==
  /\ core = "main" => "EXECUTOR0" \notin cells /\ "core_0_task" \notin running
  /\ core \in {"main", "start"} => {"Peripherals", "CY43_STATE"} \cap cells = {}
  /\ core \in {"main", "start", "cyw43::new"} => "wifi_runner_task" \notin running
  /\ core \in {"main", "start", "cyw43::new", "control.init", "set_power_management",
               "join"} =>
       "NETWORK_RESOURCES" \notin cells /\ "wifi_network_runner" \notin running
  /\ core # "done" => "run_server_task" \notin running

\* core_0_task takes the configuration that wait_config_up has seen.
ConfigHeld == core = "config_v4" => config

PanicInv == PanicsExplained /\ Untouched /\ ConfigHeld

LEMMA PanicInductive == PanicInv /\ [PNext]_pvars => PanicInv'
<1> SUFFICES ASSUME PanicInv, [PNext]_pvars
             PROVE  PanicInv'
  OBVIOUS
<1> USE DEF PanicInv, PanicsExplained, Untouched, ConfigHeld
<1>1. CASE Boot \/ CreateDriver
  BY <1>1 DEF Boot, CreateDriver, Core, Proceed
<1>2. CASE StackGuardFails
  BY <1>2 DEF StackGuardFails, Core, Panics
<1>3. CASE DriverCreated
  BY <1>3 DEF DriverCreated, Core, Proceed
<1>4. CASE ControlInitialised
  BY <1>4 DEF ControlInitialised, Core, Proceed
<1>5. ASSUME NEW s \in SsidLens, NEW p \in PasswordLens, PowerManagementSet(s, p)
      PROVE  PanicInv'
  BY <1>5 DEF PowerManagementSet, Core, Proceed, Panics
<1>6. CASE JoinFails
  BY <1>6 DEF JoinFails, Core, Proceed
<1>7. CASE Joined
  BY <1>7 DEF Joined, Core, Proceed
<1>8. CASE LinkIsUp
  BY <1>8 DEF LinkIsUp, Core, Proceed
<1>9. CASE ConfigIsUp
  BY <1>9 DEF ConfigIsUp, Core, Proceed
\* No None of config_v4(): the poll has not been interrupted.
<1>10. CASE TakeConfig
  BY <1>10 DEF TakeConfig, Core, Proceed
<1>11. CASE RunServer \/ Bound
  BY <1>11 DEF RunServer, Bound, Binding, ServerTask, Proceed
<1>12. CASE BindFails \/ ServerRunEnds
  BY <1>12 DEF BindFails, ServerRunEnds, Binding, ServerTask, Panics
<1>13. CASE Network \/ LinkGoesDown
  BY <1>13 DEF Network, LinkComesUp, DhcpAnswers, LinkGoesDown, StackRuns, ExecutorFree
<1>14. CASE UNCHANGED dvars
  BY <1>14 DEF dvars
<1>15. DemoServer \/ DemoClient \/ DemoConnectionEnds \/ UNCHANGED pvars => UNCHANGED dvars
  BY DEF DemoServer, DemoClient, DemoConnectionEnds, pvars
<1>16. QED
  BY <1>1, <1>2, <1>3, <1>4, <1>5, <1>6, <1>7, <1>8, <1>9, <1>10, <1>11, <1>12, <1>13,
     <1>14, <1>15
  DEF PNext, CoreStep

\* Whatever the access point, the link and DHCP do while the firmware starts, it takes no
\* StaticCell twice, spawns no task twice and finds the configuration it has waited for:
\* what panics is the stack guard, the credentials, bind or the end of Server::run.
THEOREM StartUpDoesNotPanic == PSpec => []PanicsExplained
<1>1. PInit => PanicInv
  BY DEF PInit, PanicInv, PanicsExplained, Untouched, ConfigHeld
<1>2. PanicInv => PanicsExplained
  BY DEF PanicInv
<1>3. QED
  BY <1>1, <1>2, PanicInductive, PTL DEF PSpec
=============================================================================
