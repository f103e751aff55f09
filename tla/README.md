# Verification of nanooctopus

nanooctopus is a `no_std` HTTP and WebSocket server crate for embedded and
desktop targets. This directory holds TLA+ models of its own logic, TLC
configurations that check them on small instances, and TLAPS proofs of the
results that hold for every instance. Paths below are relative to `src/`;
`ws/` abbreviates `nanooctopus_server/src/web_socket/`.

## The system

| part | state | operations | interacts with |
|---|---|---|---|
| `FrameController` (`ws/frame_controller.rs`) | `is_wait_for_pong`, `is_wait_for_close_response` | `process_control_frames`, `wait_data_frame`, `send_ping`, `send_close` | reads headers and answers control frames on the socket |
| `FrameReader` (same file) | `payload_len`, `is_final`, `frame_type`, `masker` of the message being read | `receive_frame_payload`, `is_finished` | calls the controller for the next fragment, the masker for each chunk |
| `WebSocket` (`ws/mod.rs`) | `active_frame_reader`, `send_frame_type`, `socket_state` | `wait_message`, `read`, `write`, `flush`, `close_handshake`, `close`, `abort`, readiness probes | owns the socket, the controller and the reader |
| `PayloadMasker` (`ws/masker.rs`) | `offset`, `mask_key` | `mask_small_chank`, `mask_chank`, `mask_chank_simd` | called with each chunk a read returns |
| endpoint handlers, `map_handler!` (`nanooctopus_server/src/handler/`) | none of their own | routing by path and method, one response per request | `edge_http` `Connection` |
| `Server` (`nanooctopus_server/src/server.rs`) | the `edge_http` server | `run` | forwards to `edge_http` |
| load tester (`scripts/hold_open_load.py`) | `Stats`, one task per slot | connect, send, receive, reconnect, report | the server, over TCP |
| Pico W demo (`demos/raspberry_pico_w/`) | `StaticCell`s, spawned tasks, Wi-Fi link and DHCP configuration | `init_wifi_network_driver`, `init_network`, `run_server_task` | drivers, `Server`, the handlers |
| desktop example, build scripts | - | - | - |

What is hard here: every method of the WebSocket is an `async fn` that can be
suspended, fail or be dropped at each socket operation; control frames may come
between any two frames; both sides may close at once; the position in the byte
stream is kept by agreement between four functions; the masker works on words
but is fed with chunks of any length at any address. The load tester is a set of
concurrent tasks over shared counters, and its reader and the server must agree
where a response ends, or each waits for the other. The demo's start-up awaits
drivers that only move if their runner tasks are there, over a link that comes
and goes.

What makes the parts correct: a header is parsed only where a frame begins;
messages arrive whole, in order and once; Pings are answered; a close handshake
is complete only if both Closes were exchanged, ends, and frees the socket;
partial writes are reported; bytes are unmasked by position; the n-th answer a
client reads belongs to its n-th request; the firmware comes up and does not
panic on the way; the statistics agree with what happened.

## Modules

* `Transport` - **external**: the socket and `edge_ws`, from how `ws/` uses them.
  Inbound bytes are frames with payload counts; `rest` payload bytes of the
  current frame are unread. A header parsed elsewhere than at a frame boundary
  sets `lost`: from then on any header of `PeerFrames` may be read. Outbound
  frames are collected in `outbox`; `outstate` says whether the stream ends
  inside a frame (`partial`) or went on behind one (`torn`). Interrupted
  operations (`HeaderCut`, `PayloadCut`, `SendCut`) consume or write a part.
* `FrameController` - `pc` is the await the running function is suspended at
  (`hdr`, `echo_recv`, `echo_send`, `payload`, `send`), `fcall` the function the
  caller called. `ReceiveHeader` is one turn of the loop in
  `process_control_frames` with one operator per arm of its match; `SendBack*`
  is `send_back`; `Payload*` is `receive_frame_payload`; `SendFrame` serves
  `send_ping` and `send_close`. `payload_len as usize` is `% UsizeMod`. `FSpec`
  drives it with a caller that reads each message to its end.
* `WebSocket` - `Spec`: an application that calls any method in any order, an
  arbitrary peer, failing socket operations (`Faults`) and dropped futures
  (`Cancel`). `op` is the method in progress, `ret` its result. A `*Call`
  action is the part of a method before its first await, early returns included.
  History variables: `errored` (the application saw a failure or dropped a call
  that had begun something) and `closing`.
* `MessageStream` - abstract: a sequence of messages sent and a sequence
  received, in pieces. No frames, buffers or control frames.
* `WsConnection` - `WebSocket` with a client that follows the protocol and an
  application that stops at the first error and may drop a call that waits and
  has consumed nothing of a frame (`Harmless`). It is shown to implement
  `MessageStream` (`DeliversMessages`), the messages the application saw (`got`)
  being a history variable. Client and application are external.
* `PayloadMasker` - a byte is masked by XOR with one byte of the key, so the
  model records for each byte of a chunk the *index* of that key byte. `Prefix`
  and `Aligned` are `align_to_mut`; the address of a chunk is any residue of the
  word size.
* `MaskedReader` - `PayloadMasker` composed with the `FrameReader` that owns it:
  messages of several frames, masked or not, buffers of `BufLens` bytes, and reads
  that return any multiple of `ReadUnit` bytes (or the rest of the frame). It is
  shown to implement `PayloadMasker` with `Disciplined` true when buffers and
  reads are multiples of four (`ReaderIsDisciplined`), which is the hypothesis of
  the proof; with `ReadUnit = 1` it is not, and masking goes wrong.
* `LoadTester` - the asyncio tasks of the script; a step is what a slot does
  between two awaits. The `Stats` lock is held across no await and so never
  suspends. The mode (`single_shot_connection`) is chosen initially. The history
  variable `ends` counts the connections left with a request outstanding, by cause:
  ended by the remote side, or given up by the tester (timeout, unreadable answer).
* `HttpHandler` - the handler `map_handler!` generates and the endpoint handlers,
  on one connection. `pc` is the await the handler is suspended at; each await
  may fail (`StepFails`) after writing a part. The `Connection` (reading the next
  request, ending) is external. Handlers keep no state, so connections do not
  interact here and one is enough.
* `RequestReply` - abstract: one question at a time, and the n-th answer answers
  the n-th question.
* `HttpExchange` - `HttpHandler` at one end of a connection and the load tester's
  `run_connection`/`read_response` at the other, one action per read. The wire
  carries parts (head, body bytes, chunk size, empty line); `edge_http` frames a
  response without Content-Length in chunks (external). The server may fail at
  any await and leave a part of its output, or close the idle connection while a
  request is on its way (the keepalive timeout of `Config`); the client may time
  out or leave. Implements `RequestReply` (`AnswersMatch`).
* `PicoDemo` - the firmware: `core` is the await `core_0_task` is suspended at,
  `cells` the `StaticCell`s taken, `running` the tasks spawned. A step is what a
  task does between two awaits (one cooperative executor), with one exception:
  `config_v4()` is a step of its own behind `wait_config_up` (`TakeConfig`), and
  `ExecutorFree` keeps the stack's runner from being polled in between, so that the
  absence of an await there is something the model says and a mutant can take away.
  What panics: a stack guard the hardware refuses, a cell taken or a task spawned
  twice, credentials that do not fit, a missing configuration, a failing `bind`, a
  `Server::run` that comes back. `cyw43`, `embassy-net` and the network are external; a
  driver call comes back only if its runner task is there. The code joins once, at
  start-up: that a lost link comes up again is an assumption about the Wi-Fi chip.
  Once the server runs, `HttpExchange` goes on under a link that may go down.
* `MC*` - the instances for TLC.
* `FrameControllerProofs`, `WebSocketProofs` (extends it), `WsConnectionProofs`
  (extends that), `PayloadMaskerProofs`, `MaskedReaderProofs` (extends it),
  `HttpHandlerProofs`, `PicoDemoProofs` (extends it; also about `HttpExchange`),
  `LoadTesterProofs` - proofs about the module they are named after.

Operators introduced by a comment "Mutant" are wrong variants of the definition
that follows. No specification uses them; they serve to confirm that a property
fails when the code is changed that way.

## Runs

Runs expected to pass (times are for a few cores):

| run | checks | result |
|---|---|---|
| `frame_controller` | types; no second Ping before an answer (`OnePingOutstanding`); every Close sent answers one received or is the one awaited (`ClosesBalance`); no successful call loses the position (`FramingKept`) | 1.7 M states |
| `web_socket` | types; `WsClosed` only after a Close in each direction (`HandshakeBothWays`); `Closed` only with a shut socket (`ClosedIsShut`); position kept until a failure or a close (`FramingKeptUnlessClosing`); torn frames are reported (`TornIsReported`); without a failure the Pongs sent answer the Pings received one by one, in order and with their lengths (`PongsEchoPings`); no data behind a Close without a failure seen (`SilentAfterClose`); `socket_state` never goes back (`StateOnlyAdvances`) | 4.9 M states, about a minute |
| `connection` | refinement of `MessageStream` (`DeliversMessages`); handshake done only if the client closed (`CloseIsGenuine`); `PongsEchoPings` with Pings between fragments; `close()`/`close_handshake()` from `Ready` come back (`CloseTerminates`); every finished message arrives although calls are dropped while they wait (`MessagesArrive`) | 0.6 M states, two minutes |
| `masked_reader` | every byte of a masked frame is masked once (`EachByteOnce`) and by its position (`MaskedByPosition`, `OffsetTracksPos`); the reader is a disciplined caller of the masker (`ReaderIsDisciplined`) | 716 states |
| `load_tester` | `open_now` is the number of open connections (`OpenNowIsOpen`); each connection left with a request outstanding, by the remote side or a timeout, is counted as dropped once and loses one request (`LossesAreDrops`); in single-shot mode every request is counted (`RequestsAccounted`); the test ends (`TestEnds`) | 0.3 M states |
| `pico_demo` | the n-th response answers the n-th request and follows only complete ones (`ResponsesPairUp`); bodies have their declared length (`DeclaredIsSent`); refinement of `RequestReply`: the client's n-th status line is the 404, 405 or 200 its n-th request deserves (`AnswersMatch`); the firmware comes up (`DemoServes`), panics only over a refused stack guard, credentials, a failing `bind` or a `Server::run` that ends, never over a cell, a task or the configuration (`PanicsExplained`), and answers with a declared length arrive without a timeout (`AnswersArrive`) | 0.4 M states, a minute |

Runs in which the code disagrees with what its documentation or comments say
(TLC shows the trace):

| run | property | disagreement |
|---|---|---|
| `close_after_peer_close` | `CloseFreesSocket` | `close()` in `WsClosed` starts a second handshake and waits for a Close that never comes (`ws/mod.rs:370`) |
| `close_between_fragments` | `CloseIsRemembered` | a Close met between fragments leaves the state `Ready` (`ws/mod.rs:307`) |
| `truncated_message` | `ZeroMeansComplete` | end of stream inside a message is `Ok(0)` (`ws/frame_controller.rs:366`) |
| `length_overflow` | `OversizeRefused` | the length check never fires; on 32-bit targets the length is truncated (`ws/frame_controller.rs:476`) |
| `masker_chunked` | `MaskedByPosition` | the offset is assigned from the current chunk only (`ws/masker.rs:138`); one short read of the socket is enough |
| `chunked_response` | `CompleteResponseIsRead` | `read_response` consumes the end of a chunked response and then waits for another line (`scripts/hold_open_load.py:142`); the 404 and 405 of `map_handler!` are such responses |

Also met while modelling, without a run of their own:

* a connection that the load tester gives up itself, after its timeout or over an
  answer it cannot parse, is counted in `connections_dropped`
  (`scripts/hold_open_load.py:210-213`), which is documented as "connections closed /
  reset by the remote side" (line 18) and "remote side sent EOF / RST" (line 59).
  `LossesAreDrops` states what the code counts: both causes in `ends`;
* a data frame that was in flight when the server began to close makes
  `close_handshake` fail (`ws/mod.rs:226`). After a failed handshake the comment on
  `ConnectionAborted` calls the connection "effectively closed" (`ws/mod.rs:24-25`),
  but that error is never returned, the state stays `Ready`, and a `write` sends data
  behind the Close;
* a frame error "will cause the connection to be reset"
  (`ws/frame_controller.rs:71`), but after `InvalidFrame` the state stays `Ready`;
* the payload of an expected Pong is not read (`ws/frame_controller.rs:194`; the
  passing runs give Pongs the empty payload of the Ping they answer, and `send_ping`
  is not called inside the crate, so `WebSocket` never expects one);
* in keep-alive mode a first request that cannot be sent is not part of
  `requests_sent` (`scripts/hold_open_load.py:195`); `run_slot` promises a "tiny
  back-off" but its default delay is zero (line 250); the demo's README gives 5
  sockets where the code has 4 (`demos/raspberry_pico_w/src/main.rs:50`).

The properties of the passing runs state what remains true next to these
disagreements, and their conditions are wide where the code promises nothing:
`errored` covers what follows a failure that was reported (data behind a failed
close, a frame behind an unfinished one, a header behind an invalid frame) and a call
dropped in the middle of a frame; `closing` covers a close in the middle of a message,
whose unread payload the code then parses as headers. Such cases are listed as hazards
without a property.

### Bounds

* Frames: one per arm of the match and per length that a check tells apart, with
  `MaxControlPayload = 1` for 125 so that 0, 1 and 2 are below, at and above.
  `MaxFrames` headers per behaviour: 2 in `web_socket`, where every call and
  every fault may come between them, 3 in `frame_controller` (a fragmented
  message and a header behind it), 4 with the client (fragments, a control frame
  between them, a Close).
* `MaxOut`: sending calls begin only below this many outbound frames; 2 lets a
  frame follow a Close or an unfinished frame, 3 a second Close.
* `UsizeMod = 16` exceeds all lengths used except in `length_overflow`, where 4
  stands for 2^32.
* Buffers of 0, 1 and 2 bytes are empty, shorter than and as long as a fragment.
* Masked reader: frames of 0 to 24 bytes cover every mix of prefix, words and
  suffix of an 8-byte word; buffers of 4, 8, 12 and 24 bytes. A new frame resets
  the masker, so the states after it are those after the first.
* Load tester: three slots, `MaxRequests` and `MaxConnects` are reached before
  the clock runs out at the latest; at the bound a slot waits for the clock.
* Demo: two requests on a connection (every kind of response followed by every
  other), one route per kind of handler and a path without a route, `Get` and
  `Post`; the texts have more bytes than characters, the favicon is empty. The
  link goes down twice at most: once in each wait of the start-up, or while
  requests are served. Credentials: not set, as long as fits, one byte longer.

Runs that say `CHECK_DEADLOCK FALSE` do so because a bounded peer falls silent
and a call then waits for it (connection models), or because the program ends
(load tester), or the connection or the firmware (demo).

### Fairness

`MessagesArrive` assumes `Patient`: the application drops only finitely many
calls, since one that drops each call before it is woken reads nothing.
`CFairSpec`: weak fairness of the server's steps (an executor polls a woken task
and the socket delivers what has arrived), of the client reading what was sent
to it, and of an application that goes on reading. No fairness is assumed of the
client sending anything except its answer to a Close, which is part of reading
it. `LSpec`: time passes, and the event loop runs tasks that are ready; connects
and responses have timeouts in the code, and `drain`/`wait_closed` cannot block
on the single small request that may be outstanding. 
`PFairSpec`: a task of the firmware that can go on is polled, the access point at
last accepts it, a link that is down comes up (the chip's doing: the code does not
join again) and DHCP answers, the server's
awaits go on while the stack is configured, and the client reads what arrives.
No fairness of the client's timeout is assumed: `AnswersArrive` would be hollow
with it.

## Proofs

Every safety property and every refinement that the passing runs check is also a
theorem, for every value of the constants: any set of peer frames, any buffer
sizes, routes, texts and numbers of slots, any bounds, with or without faults and
dropped calls.

| module | theorems | of |
|---|---|---|
| `FrameControllerProofs` | `ControllerTypes` (`FControllerTypeOK`), `PingsAreAnswered` (`OnePingOutstanding`), `ClosesAreBalanced` (`ClosesBalance`), `PositionKept` (`FramingKept`, if `CountablePeer`) | `FSpec` |
| `WebSocketProofs` | `TypeCorrect` (`TypeOK`), `HandshakeIsDone` (`HandshakeBothWays`), `ClosedFreesSocket` (`ClosedIsShut`), `CutsAreReported` (`TornIsReported`), `SilenceAfterClose` (`SilentAfterClose`), `PingsAreEchoed` (`PongsEchoPings`), `StateAdvances` (`StateOnlyAdvances`), `PositionKeptUnlessClosing` (`FramingKeptUnlessClosing`, if `CountableFrames`) | `Spec` |
| `WsConnectionProofs` | `ClientPingsAreEchoed` (`PongsEchoPings`), `ClosesAreGenuine` (`CloseIsGenuine`), `ConnectionDelivers` (`DeliversMessages`: refinement of `MessageStream`, if `CountableSizes`) | `CSpec` |
| `PayloadMaskerProofs` | `MaskingCorrect` (`MaskedByPosition`, `OffsetTracksPos`, if `Disciplined`) | `MSpec` |
| `MaskedReaderProofs` | `ReaderTypes` (`MTypeOK`), `BytesMaskedOnce` (`EachByteOnce`); if `FourAligned`: `ReaderMasksByPosition` (`MaskedByPosition`), `ReaderOffsetTracksPos` (`OffsetTracksPos`), `ReaderRefinesMasker` (`ReaderIsDisciplined`: refinement of `PayloadMasker`) | `MRSpec` |
| `HttpHandlerProofs` | `PairingCorrect` (`ResponsesPairUp`), `LengthsDeclared` (`DeclaredIsSent`) | `HSpec` |
| `PicoDemoProofs` | `ExchangeIsHandled` (`ESpec => HSpec`), `ExchangeAnswersMatch` (`AnswersMatch`: refinement of `RequestReply`) | `ESpec` |
| `PicoDemoProofs` | `DemoIsExchange` (`PSpec => ESpec`), `DemoAnswersMatch`, `DemoResponsesPairUp`, `DemoLengthsDeclared`, `StartUpDoesNotPanic` (`PanicsExplained`) | `PSpec` |
| `LoadTesterProofs` | `LTypeCorrect` (`LTypeOK`), `OpenConnectionsCounted` (`OpenNowIsOpen`), `LossesCounted` (`LossesAreDrops`), `RequestsCounted` (`RequestsAccounted`) | `LSpec` |

### Hypotheses

The named `ASSUME`s type the constants and keep `None` apart from the values it
stands beside (`NoneAssumption`, `OpsAssumption`, `ExchangeAssumption`); TLC
evaluates them in every run. Some theorems have a hypothesis of their own:

* `CountableFrames`, `CountableSizes` and the first half of `CountablePeer`: a
  payload length fits `usize`. It always does where `usize` has 64 bits; what
  happens on a 32-bit target is the run `length_overflow`.
* the second half of `CountablePeer`: Pongs are empty, like the Pings the crate
  sends. `process_control_frames` does not read the payload of an expected Pong,
  so the position would be lost behind another one. `WebSocket` calls no
  `send_ping`: a Pong is then an error, and its theorem needs no such hypothesis.
* `FourAligned`: buffers and reads are multiples of four bytes. The run
  `masker_chunked` shows that it cannot be dropped: it is the condition under which
  the masker is right, and the socket does not guarantee it.

### Arguments

*Types and shape.* Types alone are not inductive: `fhdr.len` is read where only
the place of suspension says that `fhdr` is a frame. `FShape`, `Shape` and
`CallShape` say which `op`, `fcall`, `fhdr` and `reader` go with which `pc`. The
lemmas of `WebSocketProofs` are stated for `OpenNext`, in which the peer sends any
frame, so that they hold of the client of `WsConnection` as well; `TransportStep`,
`TransportHistory` and `StepTransport` collect what an action does to the transport
so that the other lemmas need not open it.

*Closing.* `CloseEvidence` carries `HandshakeBothWays` over the steps between a
Close on the wire and the change of state: a pending Close response means a Close
was sent, a Close being echoed was received, a result `ClosedByPeer` means both.
`Balance` adds to `ClosesBalance` the Close that `send_back` is still answering, and
`SendsFresh` that the check before a send still holds when the frame is written.
`SilentInv`: once a Close is out and no call has failed, the WebSocket is not
`Ready`, or the call that sent the Close has not returned yet. `GenuineInv`: each
Close on the wire, in `fhdr` or in a result came from the client, or from bytes read
after framing was lost.

*Failures.* `CutReported`: an unfinished frame leaves either `errored` set or a
failing result on its way to the caller. `EchoInv` keeps a witness of the matching
between Pings and Pongs; a Ping extends its domain when its Pong is written.

*Position.* `Aligned` relates the bytes left of the frame in the transport (`rest`)
to those the suspended function will still read (`Due`): the payload of the control
frame being echoed, or `reader.payload_len`. Fewer are left only where the stream
ends. A header is awaited only with nothing left of the reader's fragment, hence at
a frame boundary.

*Messages.* The refinement of `MessageStream` rests on `StreamInv`: there is a
sequence of steps, one per frame on the wire, that leads from the messages as far as
their headers were received (`Received`: what the application was shown plus what
the reader holds) to the messages sent, and each of them is a beginning of what was
sent (`Begun`). A frame sent appends a step, a header read removes the first, and a
piece delivered to the application moves bytes inside `Received`.

*Masking.* Lemmas of `PayloadMaskerProofs`: the prefix and the words of a chunk lie
inside it, the words are a multiple of four bytes, masking a word with the repeated
rotated key is bytewise masking. `DInv` of the reader: between two chunks of a frame
the position is a multiple of four.

*Requests and answers.* `HInv`: the response in progress is the last one begun and
is as far as `pc` says (`InProgress`), and which requests have a response
(`Counts`). `EInv` adds that client, wire and server are at places of the *same*
answer (`InStep`): some number of its parts was read, the wire holds the parts that
follow, and the server has sent exactly these. So the next status line the client
parses belongs to its last request. `PicoDemo` only restricts the exchange, hence the
theorems about the firmware.

*Start-up.* `Untouched`: at each await of `core_0_task` the cells still to be taken
are free and the tasks still to be spawned do not run.
`ConfigHeld`: between `wait_config_up` and `config_v4()` the configuration is there,
for the runner that could take it away is not polled.

*Statistics.* The properties of the load tester with its types are inductive; the
work is in the cardinality of the set of slots that hold a connection.

The proof of the refinement of `RequestReply` found an error in the model: two arms
of the `CASE` in `Output` overlapped for a response in chunks, where the value of `CASE`
is not determined (TLC takes the first arm); they are disjoint now.

### Only model-checked

The liveness properties `CloseTerminates`, `MessagesArrive`, `TestEnds`, `DemoServes`
and `AnswersArrive`: they rest on fairness and `ENABLED`, about which the installed
provers do not reason. The six runs with a disagreement are counterexamples and need no
proof.

## Not modelled

Payload contents, close codes, log output, `Display`/`kind` conversions and
getters; `PayloadMasker::new_with_offset` (tests and benchmarks only); a failing
`conn.headers()` as a step of its own (it is `StepFails` before anything is written); `split`, `connect`, `bind` and `accept` of the sockets; the server's
task pool and socket queue (in `edge_http`, outside the repository; `Server::run`
only forwards to it, and its keepalive timeout is modelled for one connection);
the demo's peripherals, memory report and HardFault handler; the desktop example,
whose handler does not have the signature `EndpointHandler` asks for; tests and
benchmarks.

## Plan

1. Done: `Transport`, `FrameController`, `WebSocket`, `WsConnection` over
   `MessageStream`, `PayloadMasker` and `MaskedReader`, `LoadTester`,
   `HttpHandler`, `HttpExchange` over `RequestReply`, `PicoDemo`; the proofs above.
2. Left: an abstract specification of the close handshake that `WsConnection`
   implements; the safety part of `CloseTerminates`, that no step of a closing call
   goes back to an earlier await except over a frame the client sent; lemmas shared
   by the proofs about `FSpec`, `Spec` and `CSpec` stated once.
