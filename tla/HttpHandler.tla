----------------------------- MODULE HttpHandler -----------------------------
(***************************************************************************)
(* handler/: the handler that map_handler! generates and the endpoint       *)
(* handlers of the crate, serving the requests of one connection.  Handlers *)
(* are shared by reference and keep no state (their arena is local to the   *)
(* call), so connections served by different tasks do not meet here.        *)
(*                                                                          *)
(* The Connection is edge_http's (external): after a handler that returned  *)
(* Ok it reads the next request of a kept-alive connection, after one that  *)
(* failed the connection ends.  Of the response headers only Content-Length *)
(* is kept.                                                                 *)
(***************************************************************************)
EXTENDS Integers, Sequences

CONSTANTS
  None,          \* no Content-Length header
  Routes,        \* the entries of map_handler!: [path, handler]
  Methods, Paths,
  MaxRequests    \* bound: requests on the connection

Kinds == {"DefaultRootResponse", "FaviconHandler", "PlainTextHandler", "HtmlText",
          "HtmlGzip", "HelloWorldHandler"}

\* A handler and its content, of `bytes` bytes that make `chars` characters.
HandlerInstance == [kind : Kinds, bytes : Nat, chars : Nat]

ASSUME RoutesAssumption ==
  /\ Routes \in Seq([path : Paths, handler : HandlerInstance])
  /\ None \notin Nat
  /\ MaxRequests \in Nat

VARIABLES
  pc,         \* "idle", the await the handler is suspended at, or "closed"
  plan,       \* the response the handler in progress is making
  requests,   \* history: the requests read
  responses   \* history: the responses begun: [status, declared, sent, complete]

hvars == <<pc, plan, requests, responses>>

Request == [path : Paths, method : Methods]

HInit ==
  /\ pc = "idle"
  /\ plan = None
  /\ requests = <<>>
  /\ responses = <<>>

-----------------------------------------------------------------------------
(* What each handler answers: status, Content-Length and body length.  The   *)
(* 16-character string for the length holds the length of anything that fits *)
(* in memory, so formatting it does not fail.                                *)

Answer(status, declared, n) == [status |-> status, declared |-> declared, bytes |-> n]

supported_methods(h) == {"Get"}

DefaultRootResponse == Answer(200, 3, 3)

FaviconHandler(h) == Answer(200, h.bytes, h.bytes)

\* Mutant: characters are counted instead of bytes.
PlainTextHandlerCountsChars(h) == Answer(200, h.chars, h.bytes)

PlainTextHandler(h) == Answer(200, h.bytes, h.bytes)

\* Mutant: the branch for compressed content never writes it.
HtmlHandlerGzipUnsent(h) == Answer(200, h.bytes, IF h.kind = "HtmlGzip" THEN 0 ELSE h.bytes)

\* Both encodings declare the length of the stored content.
HtmlHandler(h) == Answer(200, h.bytes, h.bytes)

\* The handler the Pico W demo adds, with a text of its own.
HelloWorldHandler == Answer(200, 30, 30)

Handle(h) ==
  CASE h.kind = "DefaultRootResponse" -> DefaultRootResponse
    [] h.kind = "FaviconHandler" -> FaviconHandler(h)
    [] h.kind = "PlainTextHandler" -> PlainTextHandler(h)
    [] h.kind = "HelloWorldHandler" -> HelloWorldHandler
    [] OTHER -> HtmlHandler(h)

\* Responses of the generated handler itself: no Content-Length, a fixed text.
MethodNotAllowed == Answer(405, None, 18)

NotFound == Answer(404, None, 9)

\* The arms of `match h.path` are tried in order.
Matching(path) == {k \in 1 .. Len(Routes) : Routes[k].path = path}
FirstMatch(path) == CHOOSE k \in Matching(path) : \A j \in Matching(path) : k <= j

\* Mutant: the method is not looked at.
DispatchAnyMethod(r) ==
  IF Matching(r.path) = {} THEN NotFound ELSE Handle(Routes[FirstMatch(r.path)].handler)

Dispatch(r) ==
  IF Matching(r.path) = {} THEN NotFound
  ELSE LET h == Routes[FirstMatch(r.path)].handler
       IN  IF r.method \in supported_methods(h) THEN Handle(h) ELSE MethodNotAllowed

-----------------------------------------------------------------------------
(* Every handler awaits initiate_response, write_all, flush and complete.    *)

\* conn.headers()? may fail before the path is matched: nothing is written then, which
\* is StepFails at the first await of the response.
Receive(r) ==
  /\ pc = "idle" /\ Len(requests) < MaxRequests
  /\ requests' = Append(requests, r)
  /\ plan' = Dispatch(r)
  /\ pc' = "head"
  /\ UNCHANGED responses

Begun(a) == [status |-> a.status, declared |-> a.declared, sent |-> 0, complete |-> FALSE]

InitiateResponse ==
  /\ pc = "head"
  /\ responses' = Append(responses, Begun(plan))
  /\ pc' = "body"
  /\ UNCHANGED <<plan, requests>>

Last == Len(responses)

WriteAll ==
  /\ pc = "body"
  /\ responses' = [responses EXCEPT ![Last].sent = plan.bytes]
  /\ pc' = "flush"
  /\ UNCHANGED <<plan, requests>>

Flush ==
  /\ pc = "flush"
  /\ pc' = "complete"
  /\ UNCHANGED <<plan, requests, responses>>

Complete ==
  /\ pc = "complete"
  /\ responses' = [responses EXCEPT ![Last].complete = TRUE]
  /\ pc' = "idle" /\ plan' = None
  /\ UNCHANGED requests

\* What an await that fails may have written.
PartOf ==
  \/ UNCHANGED responses
  \/ pc = "head" /\ responses' = Append(responses, Begun(plan))
  \/ pc = "body" /\ \E k \in 0 .. plan.bytes : responses' = [responses EXCEPT ![Last].sent = k]

\* Mutant: the error of an await is dropped and the handler returns Ok.
StepFailsSilently ==
  /\ pc \in {"head", "body", "flush", "complete"}
  /\ PartOf
  /\ pc' = "idle" /\ plan' = None
  /\ UNCHANGED requests

\* One of the awaits fails: `?` leaves the handler and the connection ends.
StepFails ==
  /\ pc \in {"head", "body", "flush", "complete"}
  /\ PartOf
  /\ pc' = "closed" /\ plan' = None
  /\ UNCHANGED requests

\* The peer closes, or the keepalive timeout expires, between two requests.
ConnectionEnds ==
  /\ pc = "idle"
  /\ pc' = "closed"
  /\ UNCHANGED <<plan, requests, responses>>

HandlerStep == InitiateResponse \/ WriteAll \/ Flush \/ Complete \/ StepFails

HNext == (\E r \in Request : Receive(r)) \/ HandlerStep \/ ConnectionEnds

HSpec == HInit /\ [][HNext]_hvars

-----------------------------------------------------------------------------
(* Properties. *)

\* The n-th response on a connection belongs to the n-th request: no request is
\* skipped or answered twice, and only complete responses are followed by others,
\* so a client that keeps the connection alive can pair them.
ResponsesPairUp ==
  /\ Len(responses) <= Len(requests)
  /\ pc = "idle" => Len(responses) = Len(requests)
  /\ \A i \in 1 .. Len(responses) : i < Len(requests) \/ pc = "idle" => responses[i].complete

\* A complete response carries as many bytes as its Content-Length says, and no
\* response ever more.
DeclaredIsSent ==
  \A i \in 1 .. Len(responses) :
    responses[i].declared # None =>
      /\ responses[i].sent <= responses[i].declared
      /\ responses[i].complete => responses[i].sent = responses[i].declared
=============================================================================
