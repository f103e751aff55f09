-------------------------- MODULE HttpHandlerProofs --------------------------
(***************************************************************************)
(* Proofs about HttpHandler, for every table of routes, every content and   *)
(* any number of requests: responses pair up with requests, and a declared  *)
(* length is the length of the body.                                        *)
(***************************************************************************)
EXTENDS HttpHandler, SequenceTheorems, WellFoundedInduction, TLAPS

\* What a handler may decide to answer: a declared length is that of the body, and a
\* response sent in chunks has a body.
Answers ==
  {a \in [status : {200, 404, 405}, declared : Nat \cup {None}, bytes : Nat] :
     IF a.declared = None THEN a.bytes > 0 ELSE a.declared = a.bytes}

Response ==
  [status : {200, 404, 405}, declared : Nat \cup {None}, sent : Nat, complete : BOOLEAN]

\* Every nonempty set of natural numbers has a least element.
LEMMA LeastNatural ==
  ASSUME NEW T \in SUBSET Nat, T # {}
  PROVE  \E k \in T : \A j \in T : k <= j
<1> DEFINE R == OpToRel(<, Nat)
<1>1. PICK k \in T : \A j \in T : ~(<<j, k>> \in R)
  BY NatLessThanWellFounded, WFMin
<1>2. ASSUME NEW j \in Nat, NEW i \in Nat, j < i
      PROVE  <<j, i>> \in R
  <2>1. <<j, i>> \in Nat \X Nat /\ <<j, i>>[1] < <<j, i>>[2]
    BY <1>2
  <2>2. QED
    BY <2>1, Zenon DEF OpToRel
<1> HIDE DEF R
<1>3. ASSUME NEW j \in T
      PROVE  k <= j
  <2>1. j \in Nat /\ k \in Nat /\ <<j, k>> \notin R
    BY <1>1
  <2>2. ~(j < k)
    BY <1>2, <2>1, Zenon
  <2>3. QED
    BY <2>1, <2>2
<1>4. QED
  BY <1>3

\* The arm of `match h.path` that is taken is one that matches.
LEMMA FirstMatchMatches ==
  ASSUME NEW path, Matching(path) # {}
  PROVE  /\ FirstMatch(path) \in 1 .. Len(Routes)
         /\ Routes[FirstMatch(path)].path = path
         /\ Routes[FirstMatch(path)].handler \in HandlerInstance
<1>1. /\ Len(Routes) \in Nat
      /\ \A k \in 1 .. Len(Routes) : Routes[k] \in [path : Paths, handler : HandlerInstance]
  BY RoutesAssumption, LenProperties, ElementOfSeq
<1>2. Matching(path) \in SUBSET Nat
  BY <1>1 DEF Matching
<1>3. \E k \in Matching(path) : \A j \in Matching(path) : k <= j
  BY <1>2, LeastNatural
<1>4. FirstMatch(path) \in Matching(path)
  BY <1>3 DEF FirstMatch
<1>5. QED
  BY <1>1, <1>4 DEF Matching

\* What an endpoint handler answers.
LEMMA HandleAnswers ==
  ASSUME NEW h \in HandlerInstance
  PROVE  Handle(h) \in Answers /\ Handle(h).status = 200
<1>1. h.bytes \in Nat /\ None \notin Nat
  BY RoutesAssumption DEF HandlerInstance
<1>2. Handle(h) \in {Answer(200, 3, 3), Answer(200, h.bytes, h.bytes), Answer(200, 30, 30)}
  BY DEF Handle, DefaultRootResponse, FaviconHandler, PlainTextHandler, HelloWorldHandler,
         HtmlHandler
<1>3. ASSUME NEW n \in Nat
      PROVE  Answer(200, n, n) \in Answers /\ Answer(200, n, n).status = 200
  BY <1>1 DEF Answer, Answers
<1>4. QED
  BY <1>1, <1>2, <1>3

\* What the generated handler answers to a request.
LEMMA DispatchAnswers ==
  ASSUME NEW r \in Request
  PROVE  /\ Dispatch(r) \in Answers
         /\ Dispatch(r).status = IF Matching(r.path) = {} THEN 404
                                 ELSE IF r.method = "Get" THEN 200 ELSE 405
<1>1. /\ NotFound \in Answers /\ NotFound.status = 404
      /\ MethodNotAllowed \in Answers /\ MethodNotAllowed.status = 405
  BY DEF NotFound, MethodNotAllowed, Answer, Answers
<1>2. CASE Matching(r.path) = {}
  BY <1>1, <1>2 DEF Dispatch
<1>3. CASE Matching(r.path) # {}
  <2> DEFINE h == Routes[FirstMatch(r.path)].handler
  <2>1. h \in HandlerInstance
    BY <1>3, FirstMatchMatches
  <2>2. Handle(h) \in Answers /\ Handle(h).status = 200
    BY <2>1, HandleAnswers
  <2>3. Dispatch(r) = IF r.method = "Get" THEN Handle(h) ELSE MethodNotAllowed
    BY <1>3 DEF Dispatch, supported_methods
  <2> HIDE DEF h
  <2>4. QED
    BY <1>1, <1>3, <2>2, <2>3
<1>4. QED
  BY <1>2, <1>3
-----------------------------------------------------------------------------

Active == {"head", "body", "flush", "complete"}

HTypeOK ==
  /\ pc \in Active \cup {"idle", "closed"}
  /\ plan \in Answers \cup {None}
  /\ requests \in Seq(Request)
  /\ responses \in Seq(Response)

\* The response in progress is the last one begun, and it is as far as the await at pc
\* says: it declares what the plan declares, and has the body once that is written.
InProgress ==
  /\ pc \in Active => plan \in Answers
  /\ pc \in {"body", "flush", "complete"} =>
       /\ Len(responses) > 0
       /\ responses[Len(responses)].declared = plan.declared
       /\ ~responses[Len(responses)].complete
       /\ responses[Len(responses)].sent = IF pc = "body" THEN 0 ELSE plan.bytes

\* Which requests have a response, and which of these is complete.
Counts ==
  /\ Len(requests) = Len(responses) + (IF pc = "head" THEN 1 ELSE 0)
       \/ (pc = "closed" /\ Len(requests) >= Len(responses))
  /\ \A i \in 1 .. Len(responses) : i < Len(requests) \/ pc = "idle" => responses[i].complete

HInv == HTypeOK /\ InProgress /\ Counts /\ DeclaredIsSent

\* The response begun last is changed and the others are not.
LEMMA ChangeLast ==
  ASSUME HTypeOK, Len(responses) > 0, NEW e \in Response
  PROVE  LET after == [responses EXCEPT ![Len(responses)] = e]
         IN  /\ after \in Seq(Response) /\ Len(after) = Len(responses)
             /\ \A i \in 1 .. Len(responses) :
                  after[i] = IF i = Len(responses) THEN e ELSE responses[i]
<1>1. responses \in Seq(Response) /\ Len(responses) \in 1 .. Len(responses)
  BY LenProperties DEF HTypeOK
<1>2. QED
  BY <1>1, ExceptSeq

LEMMA AppendResponse ==
  ASSUME HTypeOK, NEW e \in Response
  PROVE  LET after == Append(responses, e)
         IN  /\ after \in Seq(Response) /\ Len(after) = Len(responses) + 1
             /\ \A i \in 1 .. Len(responses) : after[i] = responses[i]
             /\ after[Len(responses) + 1] = e
BY AppendProperties DEF HTypeOK

LEMMA HFacts ==
  ASSUME HInv
  PROVE  /\ Len(responses) \in Nat /\ Len(requests) \in Nat /\ None \notin Nat
         /\ \A i \in 1 .. Len(responses) : responses[i] \in Response
BY RoutesAssumption, LenProperties, ElementOfSeq DEF HInv, HTypeOK

\* The head of a response goes out (or part of it, if the await fails).
LEMMA BeginInv ==
  ASSUME HInv, pc = "head", responses' = Append(responses, Begun(plan)),
         UNCHANGED requests,
         \/ pc' = "body" /\ plan' = plan
         \/ pc' = "closed" /\ plan' = None
  PROVE  HInv'
<1>1. plan \in Answers /\ Begun(plan) \in Response
  BY DEF HInv, InProgress, Active, Answers, Begun, Response
<1>2. /\ responses' \in Seq(Response) /\ Len(responses') = Len(responses) + 1
      /\ \A i \in 1 .. Len(responses) : responses'[i] = responses[i]
      /\ responses'[Len(responses) + 1] = Begun(plan)
  BY <1>1, AppendResponse DEF HInv
<1>3. HTypeOK'
  BY <1>1, <1>2 DEF HInv, HTypeOK, Active
<1>4. InProgress'
  BY <1>1, <1>2, HFacts DEF InProgress, Begun, Active
<1>5. Counts'
  BY <1>2, HFacts DEF HInv, Counts
<1>6. DeclaredIsSent'
  <2> SUFFICES ASSUME NEW i \in 1 .. Len(responses'), responses'[i].declared # None
               PROVE  /\ responses'[i].sent <= responses'[i].declared
                      /\ responses'[i].complete => responses'[i].sent = responses'[i].declared
    BY DEF DeclaredIsSent
  <2>1. CASE i \in 1 .. Len(responses)
    BY <1>2, <2>1 DEF HInv, DeclaredIsSent
  <2>2. CASE i = Len(responses) + 1
    BY <1>1, <1>2, <2>2 DEF Begun, Answers
  <2>3. QED
    BY <1>2, <2>1, <2>2, HFacts
<1>7. QED
  BY <1>3, <1>4, <1>5, <1>6 DEF HInv

\* k bytes of the body are written.
Writes(k) == responses' = [responses EXCEPT ![Last].sent = k]

\* Bytes of the body go out: all of them, or k before the await fails.
LEMMA BodyInv ==
  ASSUME HInv, pc = "body", NEW k \in 0 .. plan.bytes,
         Writes(k), UNCHANGED requests,
         \/ pc' = "flush" /\ plan' = plan /\ k = plan.bytes
         \/ pc' = "closed" /\ plan' = None
  PROVE  HInv'
<1> DEFINE n == Len(responses)
           e == [responses[n] EXCEPT !.sent = k]
<1>0. /\ n > 0 /\ n \in Nat /\ responses[n] \in Response /\ plan \in Answers /\ k \in Nat
      /\ plan.bytes \in Nat /\ k <= plan.bytes
  BY HFacts DEF HInv, InProgress, Active, Answers
<1>1. /\ e \in Response /\ e.sent = k /\ e.declared = plan.declared /\ ~e.complete
  BY <1>0 DEF HInv, InProgress, Response
<1>2. responses' = [responses EXCEPT ![n] = e]
  BY DEF Last, Writes
<1> HIDE DEF e
<1>3. /\ responses' \in Seq(Response) /\ Len(responses') = n
      /\ \A i \in 1 .. n : responses'[i] = IF i = n THEN e ELSE responses[i]
  BY <1>0, <1>1, <1>2, ChangeLast DEF HInv
<1>4. HTypeOK'
  BY <1>0, <1>3 DEF HInv, HTypeOK, Active
<1>5. InProgress'
  BY <1>0, <1>1, <1>3 DEF InProgress, Active
<1>6. Counts'
  BY <1>0, <1>3, HFacts DEF HInv, Counts
<1>7. DeclaredIsSent'
  <2> SUFFICES ASSUME NEW i \in 1 .. n, responses'[i].declared # None
               PROVE  /\ responses'[i].sent <= responses'[i].declared
                      /\ responses'[i].complete => responses'[i].sent = responses'[i].declared
    BY <1>3 DEF DeclaredIsSent
  <2>1. CASE i # n
    BY <1>3, <2>1 DEF HInv, DeclaredIsSent
  <2>2. CASE i = n
    BY <1>0, <1>1, <1>3, <2>2 DEF Answers
  <2>3. QED
    BY <2>1, <2>2
<1>8. QED
  BY <1>4, <1>5, <1>6, <1>7 DEF HInv

LEMMA CompleteInv ==
  ASSUME HInv, Complete
  PROVE  HInv'
<1> DEFINE n == Len(responses)
           e == [responses[n] EXCEPT !.complete = TRUE]
<1>0. /\ n > 0 /\ n \in Nat /\ responses[n] \in Response /\ plan \in Answers /\ pc = "complete"
  BY HFacts DEF HInv, InProgress, Active, Complete
<1>1. /\ e \in Response /\ e.sent = plan.bytes /\ e.declared = plan.declared /\ e.complete
  BY <1>0 DEF HInv, InProgress, Response
<1>2. responses' = [responses EXCEPT ![n] = e]
  BY DEF Last, Complete
<1> HIDE DEF e
<1>3. /\ responses' \in Seq(Response) /\ Len(responses') = n
      /\ \A i \in 1 .. n : responses'[i] = IF i = n THEN e ELSE responses[i]
  BY <1>0, <1>1, <1>2, ChangeLast DEF HInv
<1>4. HTypeOK'
  BY <1>0, <1>3 DEF HInv, HTypeOK, Active, Complete
<1>5. InProgress'
  BY DEF InProgress, Active, Complete
<1>6. Counts'
  BY <1>0, <1>1, <1>3, HFacts DEF HInv, Counts, Complete
<1>7. DeclaredIsSent'
  <2> SUFFICES ASSUME NEW i \in 1 .. n, responses'[i].declared # None
               PROVE  /\ responses'[i].sent <= responses'[i].declared
                      /\ responses'[i].complete => responses'[i].sent = responses'[i].declared
    BY <1>3 DEF DeclaredIsSent
  <2>1. CASE i # n
    BY <1>3, <2>1 DEF HInv, DeclaredIsSent
  <2>2. CASE i = n
    BY <1>0, <1>1, <1>3, <2>2 DEF Answers
  <2>3. QED
    BY <2>1, <2>2
<1>8. QED
  BY <1>4, <1>5, <1>6, <1>7 DEF HInv

\* A step that begins no response and writes none.
LEMMA QuietInv ==
  ASSUME HInv, UNCHANGED responses,
         \/ \E r \in Request : Receive(r)
         \/ Flush
         \/ pc' = "closed" /\ plan' = None /\ UNCHANGED requests
         \/ ConnectionEnds
  PROVE  HInv'
<1>1. CASE \E r \in Request : Receive(r)
  <2>1. PICK r \in Request : Receive(r)
    BY <1>1
  <2>2. plan' \in Answers /\ pc = "idle" /\ pc' = "head" /\ requests' = Append(requests, r)
    BY <2>1, DispatchAnswers DEF Receive
  <2>3. requests' \in Seq(Request) /\ Len(requests') = Len(requests) + 1
    BY <2>2, AppendProperties DEF HInv, HTypeOK
  <2>4. HTypeOK' /\ InProgress'
    BY <2>2, <2>3 DEF HInv, HTypeOK, InProgress, Active
  <2>5. Counts'
    BY <2>2, <2>3, HFacts DEF HInv, Counts
  <2>6. DeclaredIsSent'
    BY DEF HInv, DeclaredIsSent
  <2>7. QED
    BY <2>4, <2>5, <2>6 DEF HInv
<1>2. CASE Flush
  BY <1>2, HFacts DEF HInv, HTypeOK, InProgress, Counts, DeclaredIsSent, Flush, Active
<1>3. CASE pc' = "closed" /\ plan' = None /\ UNCHANGED requests
  <2>1. HTypeOK' /\ InProgress'
    BY <1>3 DEF HInv, HTypeOK, InProgress, Active
  <2>2. Counts'
    BY <1>3, HFacts DEF HInv, Counts
  <2>3. DeclaredIsSent'
    BY DEF HInv, DeclaredIsSent
  <2>4. QED
    BY <2>1, <2>2, <2>3 DEF HInv
<1>4. CASE ConnectionEnds
  <2>1. HTypeOK' /\ InProgress'
    BY <1>4 DEF HInv, HTypeOK, InProgress, Active, ConnectionEnds
  <2>2. Counts'
    BY <1>4, HFacts DEF HInv, Counts, ConnectionEnds
  <2>3. DeclaredIsSent'
    BY DEF HInv, DeclaredIsSent
  <2>4. QED
    BY <2>1, <2>2, <2>3 DEF HInv
<1>5. QED
  BY <1>1, <1>2, <1>3, <1>4

LEMMA HInductive == HInv /\ [HNext]_hvars => HInv'
<1> SUFFICES ASSUME HInv, [HNext]_hvars
             PROVE  HInv'
  OBVIOUS
<1>1. CASE \E r \in Request : Receive(r)
  BY <1>1, QuietInv DEF Receive
<1>2. CASE InitiateResponse
  BY <1>2, BeginInv DEF InitiateResponse
<1>3. CASE WriteAll
  <2>1. plan.bytes \in 0 .. plan.bytes
    BY <1>3 DEF WriteAll, HInv, InProgress, Active, Answers
  <2>2. QED
    BY <1>3, <2>1, BodyInv DEF WriteAll, Writes
<1>4. CASE Flush
  BY <1>4, QuietInv DEF Flush
<1>5. CASE Complete
  BY <1>5, CompleteInv
<1>6. CASE StepFails
  <2>1. pc' = "closed" /\ plan' = None /\ UNCHANGED requests /\ PartOf
    BY <1>6 DEF StepFails
  <2>2. CASE UNCHANGED responses
    BY <2>1, <2>2, QuietInv
  <2>3. CASE pc = "head" /\ responses' = Append(responses, Begun(plan))
    BY <2>1, <2>3, BeginInv
  <2>4. CASE pc = "body" /\ \E k \in 0 .. plan.bytes : responses' = [responses EXCEPT ![Last].sent = k]
    BY <2>1, <2>4, BodyInv DEF Writes
  <2>5. QED
    BY <2>1, <2>2, <2>3, <2>4 DEF PartOf
<1>7. CASE ConnectionEnds
  BY <1>7, QuietInv DEF ConnectionEnds
<1>8. CASE UNCHANGED hvars
  BY <1>8 DEF hvars, HInv, HTypeOK, InProgress, Counts, DeclaredIsSent
<1>9. QED
  BY <1>1, <1>2, <1>3, <1>4, <1>5, <1>6, <1>7, <1>8 DEF HNext, HandlerStep

LEMMA HInitial == HInit => HInv
BY EmptySeq DEF HInit, HInv, HTypeOK, InProgress, Counts, DeclaredIsSent, Active

LEMMA HInvariant == HSpec => []HInv
BY HInitial, HInductive, PTL DEF HSpec

\* Responses pair up with requests, though each of the four awaits of a handler may fail
\* with a part of its output written.
THEOREM PairingCorrect == HSpec => []ResponsesPairUp
<1>1. HInv => ResponsesPairUp
  BY HFacts DEF HInv, Counts, ResponsesPairUp
<1>2. QED
  BY <1>1, HInvariant, PTL

\* No response carries more bytes than its Content-Length says, a complete one as many.
THEOREM LengthsDeclared == HSpec => []DeclaredIsSent
<1>1. HInv => DeclaredIsSent
  BY DEF HInv
<1>2. QED
  BY <1>1, HInvariant, PTL
=============================================================================
