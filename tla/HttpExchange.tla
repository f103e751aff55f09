----------------------------- MODULE HttpExchange ----------------------------
(***************************************************************************)
(* One kept-alive connection between the handlers of HttpHandler and a      *)
(* client that reads responses as read_response and run_connection of       *)
(* scripts/hold_open_load.py do.  On the wire a response is a sequence of   *)
(* parts: the head, stretches of body bytes, chunk size lines and empty     *)
(* lines.  edge_http (external) sends a response without Content-Length in  *)
(* chunks.                                                                  *)
(*                                                                          *)
(* The load tester repeats one GET; here the client sends any request, so   *)
(* that responses of every kind follow each other on a connection.          *)
(***************************************************************************)
EXTENDS HttpHandler

\* "No request" is not a request.
ASSUME ExchangeAssumption == None \notin Request

VARIABLES
  pending,   \* the request the client has sent and the server not yet read
  wire,      \* what the server has sent and the client not yet read
  asked,     \* history: the requests the client has sent
  seen,      \* the status lines read_response has returned
  cpc,       \* the read the client is suspended at, "idle" or "gone"
  want,      \* the bytes it has asked readexactly for
  cur        \* the status line of the response it is reading

evars == <<pending, wire, asked, seen, cpc, want, cur>>

xvars == <<hvars, evars>>

EInit ==
  /\ HInit
  /\ pending = None
  /\ wire = <<>>
  /\ asked = <<>> /\ seen = <<>>
  /\ cpc = "idle" /\ want = 0 /\ cur = None

-----------------------------------------------------------------------------
(* The server's side of the wire. *)

ResponseHead(a) == [part |-> "head", status |-> a.status, len |-> a.declared]
Body(n) == [part |-> "body", len |-> n]
Size(n) == [part |-> "size", len |-> n]
Crlf == [part |-> "crlf"]

Chunked(a) == a.declared = None

\* What the await at pc sends.
Output ==
  CASE pc = "head" -> <<ResponseHead(plan)>>
    [] pc = "body" /\ Chunked(plan) -> <<Size(plan.bytes), Body(plan.bytes), Crlf>>
    [] pc = "body" /\ ~Chunked(plan) /\ plan.bytes > 0 -> <<Body(plan.bytes)>>
    [] pc = "complete" /\ Chunked(plan) -> <<Size(0), Crlf>>
    [] OTHER -> <<>>

ServerReceives ==
  /\ pending # None
  /\ Receive(pending)
  /\ pending' = None
  /\ UNCHANGED <<wire, asked, seen, cpc, want, cur>>

ServerSends ==
  /\ InitiateResponse \/ WriteAll \/ Flush \/ Complete
  /\ wire' = wire \o Output
  /\ UNCHANGED <<pending, asked, seen, cpc, want, cur>>

\* An await fails; some of what it was to send may still arrive.
ServerFails ==
  /\ StepFails
  /\ \E k \in 0 .. Len(Output) : wire' = wire \o SubSeq(Output, 1, k)
  /\ UNCHANGED <<pending, asked, seen, cpc, want, cur>>

\* The keepalive timeout may expire while a request is on its way.
ServerEnds == ConnectionEnds /\ UNCHANGED evars

Server == ServerReceives \/ ServerSends

-----------------------------------------------------------------------------
(* run_connection and read_response. *)

ClientSends(r) ==
  /\ cpc = "idle" /\ Len(asked) < MaxRequests
  /\ pending' = r
  /\ asked' = Append(asked, r)
  /\ cpc' = "head"
  /\ UNCHANGED <<hvars, wire, seen, want, cur>>

\* read_response returns the status line.
Returns(status) ==
  /\ seen' = Append(seen, status)
  /\ cpc' = "idle" /\ want' = 0 /\ cur' = None

Awaits(read, n, status) ==
  /\ cpc' = read /\ want' = n /\ cur' = status
  /\ UNCHANGED seen

NextIs(part) == wire # <<>> /\ wire[1].part = part

Take == wire' = Tail(wire)

\* readuntil(CRLF CRLF): what is left of an earlier response would pass for the
\* status line.
ReadHead ==
  /\ cpc = "head"
  /\ \E k \in 1 .. Len(wire) :
        /\ wire[k].part = "head" /\ \A j \in 1 .. k - 1 : wire[j].part # "head"
        /\ wire' = SubSeq(wire, k + 1, Len(wire))
        /\ LET status == IF k = 1 THEN wire[k].status ELSE "garbled"
               n == wire[k].len
           IN  CASE n = None -> Awaits("size", 0, status)
                 [] n = 0 -> Returns(status)
                 [] OTHER -> Awaits("body", n, status)

\* readexactly(content_length)
ReadBody ==
  /\ cpc = "body" /\ NextIs("body") /\ wire[1].len >= want
  /\ wire' = (IF wire[1].len = want THEN <<>> ELSE <<Body(wire[1].len - want)>>) \o Tail(wire)
  /\ Returns(cur)

ReadSize ==
  /\ cpc = "size" /\ NextIs("size")
  /\ Take
  /\ IF wire[1].len = 0 THEN Awaits("last", 0, cur) ELSE Awaits("data", wire[1].len, cur)

\* readexactly(chunk_size + 2)
ReadData ==
  /\ cpc = "data" /\ Len(wire) >= 2 /\ wire[1] = Body(want) /\ wire[2] = Crlf
  /\ wire' = SubSeq(wire, 3, Len(wire))
  /\ Awaits("size", 0, cur)

\* readexactly(2) after the last size line.
ReadLast ==
  /\ cpc = "last" /\ NextIs("crlf")
  /\ Take
  /\ Awaits("trailer", 0, cur)

\* readline() until an empty line or the end of the stream.
ReadTrailer ==
  /\ cpc = "trailer"
  /\ \/ NextIs("crlf") /\ Take
     \/ wire = <<>> /\ pc = "closed" /\ UNCHANGED wire
  /\ Returns(cur)

ClientReads ==
  /\ ReadHead \/ ReadBody \/ ReadSize \/ ReadData \/ ReadLast \/ ReadTrailer
  /\ UNCHANGED <<hvars, pending, asked>>

\* The request times out, or the connection is reset or ends inside a response.
ClientFails ==
  /\ cpc \notin {"idle", "gone"}
  /\ cpc' = "gone" /\ want' = 0 /\ cur' = None
  /\ UNCHANGED <<hvars, pending, wire, asked, seen>>

\* A single shot connection, or the end of the test.
ClientLeaves ==
  /\ cpc = "idle"
  /\ cpc' = "gone"
  /\ UNCHANGED <<hvars, pending, wire, asked, seen, want, cur>>

Client == (\E r \in Request : ClientSends(r)) \/ ClientReads \/ ClientFails \/ ClientLeaves

ENext == Server \/ ServerFails \/ ServerEnds \/ Client

ESpec == EInit /\ [][ENext]_xvars

-----------------------------------------------------------------------------
(* Properties. *)

\* What a request deserves: 404 for a path that is not mapped, 405 for a method the
\* endpoint does not have, else the endpoint's answer.
StatusFor(r) ==
  IF \A k \in 1 .. Len(Routes) : Routes[k].path # r.path THEN 404
  ELSE IF r.method = "Get" THEN 200 ELSE 405

Pairing == INSTANCE RequestReply WITH
  Questions <- Request, Expected <- StatusFor, asked <- asked, answers <- seen

\* The n-th status line the client gets belongs to its n-th request, though the server
\* may fail between any two awaits, close the idle connection while a request is on
\* its way, or mix responses with and without a length on one connection.
AnswersMatch == Pairing!RRSpec

\* The client waits for a response, and nothing that could arrive is under way.
Stuck ==
  /\ cpc \notin {"idle", "gone"}
  /\ pc = "idle" /\ pending = None /\ wire = <<>>

\* "Read one complete HTTP/1.x response; return the status line.": a client does not
\* wait on when the server has completed its response.
CompleteResponseIsRead == ~Stuck
=============================================================================
