# A verification of FlintPlugin

FlintPlugin is a FireBreath browser plugin (C++): it gives a page's JavaScript
objects for HTTP loads, WebSockets and SSDP discovery. All of them are built on
asynchronous I/O with completion handlers, on threads that are not the browser's,
and that is where their difficulty lies. This directory holds TLA+ modules of
those objects, TLC configurations that check them on small instances, and proofs,
checked by TLAPS, of theorems for every value of the constants. Every definition
is translated from the source; `PROJECT.json` maps each one to its lines.

## 1. Inventory

### Components and their state

| component | source | state | operations |
|---|---|---|---|
| FlintPlugin | `FlintPlugin.cpp/.h` | `ioService_`, `holderWork_`, a detached thread in `ioService_.run()` | `createJSAPI`, `onPluginReady`, `shutdown`, destructor |
| FlintPluginAPI | `FlintPluginAPI.cpp/.h` | weak reference to the plugin, reference to its `io_service` | `createHttpRequest`, `createXmlHttpRequest`, `createWebSocket`, `createSSDPResponder`, `httpGet` |
| FlintXmlHttpRequestAPI | `FlintXmlHttpRequestAPI.cpp/.h` | `state_`, `aborted_`, URL, `requestBuf_`, `responseBuf_`, status, header maps, callback, resolver, socket | `open`, `send`, `setRequestHeader`, getters, six completion handlers, `changeState` |
| FlintHttpRequestAPI | `FlintHttpRequestAPI.cpp/.h` | `request_`, `response_`, resolver, socket | `open`, six completion handlers |
| FlintWebSocketAPI | `FlintWebSocketAPI.cpp/.h` | a websocketpp client, a connection handle, handlers of the script | `open`, `close`, `send`, the posts behind them, four handlers |
| websocketpp client connection | `websocketpp/impl/connection_impl.hpp`, `transport/asio/*.hpp` | session state, internal state, handshake timer, send queue, current messages, write flag, read buffer | handlers of connect, handshake, frames, writes, timers; `terminate` |
| websocketpp reading path | `processors/hybi13.hpp`, `frame.hpp`, `utf8_validator.hpp`, `http/impl/*.hpp` | parser state, bytes needed, partial headers, data and control message, validator | `response::consume`, `handle_read_http_response`, `hybi13::consume`, `handle_read_frame` |
| FlintSSDPResponderAPI | `FlintSSDPResponderAPI.cpp/.h` | UDP socket, buffer | `search`, `handleReceivedFrom`; `start`, `stop`, `setMaxResponseTime` are empty |
| Factory, Poco, rest of websocketpp, packaging | | | vendored, generated or without behaviour of their own |

### How they interact

- The browser owns the plugin; the page owns the API objects. `FlintPluginAPI`
  makes the HTTP and SSDP objects on the plugin's one `io_service`. Their handlers
  run on the plugin's detached io thread, in the order of completion, while the
  page calls methods on the main thread. No lock protects an object's members.
- `FlintXmlHttpRequestAPI::changeState` calls the page's callback with a
  synchronous `Invoke`. On the io thread it blocks until the main thread has run the
  callback; on the main thread it nests, and the callback may call any method again.
- `FlintWebSocketAPI` has an `io_service` and a detached thread of its own.
  `close` and `send` post to that thread; the page learns of the session by events
  fired from it (`fire_open` and the others), which do not block it.
- Destroying an object, `open()` during a load, and `terminate` of a websocketpp
  connection all cancel operations whose completions may be queued already.

### What is hard

1. Completions of a cancelled load are handled after the next `open()`; a cancelled
   connect is taken for a failed one, and the retry goes on for the old load.
2. The io thread blocked in `Invoke`, while callbacks nest on the main thread.
3. Buffers and sockets shared by overlapping loads, and by successive ones.
4. Timers whose handlers are queued when they are cancelled; operations that race
   their timers.
5. A script's `close()` that crosses frames of the peer; frames cut anywhere, or
   arriving with the handshake response.
6. Message batching: a flag, a queue and posts that must together serve every
   message, once, in order.
7. The plugin destroyed around its thread; objects destroyed around their handlers.
8. Two parsers, one after the other, that must stay in step with the sender over one stream
   of bytes that the network cuts anywhere: between the two bytes of a header, inside
   a code point, right behind a frame without payload.
9. Overlapping UDP receives of one object, on one socket and into one buffer.

`PROJECT.json` lists the single hazards, each at its line and with the properties
that would catch it.

### What makes each component correct

- XMLHttpRequest: a completion is handled once; the two threads agree on each
  Invoke and the io thread is released; a chain of handlers ends; for a script that
  makes one load after another, each request goes out at most once and to its own
  host, what the script sees is the response to its last request, and the
  readyState takes the course its header describes.
- HttpRequest: as above for completions, requests and chains; what is printed as
  content is the body of one response.
- WebSocket: handlers are called as websocketpp's comments promise; one read at a
  time, one write at a time; no message forgotten or out of order; each attempt,
  closing handshake and thread ends even if the network and the peer stay silent.
- The reading path: what is accepted, handed on and refused depends on what the
  server sent and never on how it was cut; no frame waits for a byte that need not
  come; limits hold for messages in fragments.
- FlintPlugin: its thread serves while it is up, and ends afterwards.
- SSDP: each answer is printed once, in order of arrival, and each search has its
  receive.

## 2. Modules

| module | what it is |
|---|---|
| `CompletionQueue` | lemmas on the io_service's queue, for the proofs of the next two |
| `XmlHttpRequest` | FlintXmlHttpRequestAPI, its two threads and any script; `XmlHttpRequestProofs` has the theorems |
| `XhrSequential` | the same object with a script that makes one load after another; refines `XhrPromise`; proved in `XmlHttpRequestProofs` too |
| `XhrHeaders` | that script with `setRequestHeader` and the headers requests carry |
| `XhrPromise` | abstract: the readyStates and what is visible in them, from the header's comments |
| `XhrClaims` | a comment of the header the code does not keep |
| `WebSocket` | FlintWebSocketAPI, websocketpp's client connection, timers, network and peer; refines `WsSession`; `WebSocketProofs` has the theorems on reads, writes and the thread, `WebSocketOrderProofs` those on order and the refinement |
| `WsSession` | abstract: which handlers are called in which order |
| `WsClaims` | a comment of websocketpp that does not hold |
| `Frame` | the header of a frame: `prepare_header` and the accessors |
| `Utf8` | the table-driven validator, and UTF-8 without it as a reference |
| `Hybi13` | the loops of `hybi13::consume` and `handle_read_frame`; `ReadPathProofs` has their lemmas |
| `ReadPath` | the response to the handshake, then `Hybi13` on what follows; refines `FrameStream`; `ReadPathProofs` has the theorems |
| `Base64` | `base64_encode` and `base64_decode`, in which the handshake writes its key and the digest |
| `BytesProofs` | the theorems on `Frame`, `Base64` and `Utf8`: functions on bytes, without state |
| `FrameStream` | abstract: frames are taken one at a time, with no bytes and no reads |
| `MCReadPath` | the streams that the run of `ReadPath` takes, and `Base64` over short bytes |
| `HttpRequest` | FlintHttpRequestAPI; `HttpRequestProofs` has the theorems, `HttpClaims` a comment it does not keep |
| `FlintPlugin` | the plugin's life, its io thread, objects that come and go; `FlintPluginProofs`, `PluginClaims` |
| `SsdpResponder` | FlintSSDPResponderAPI, as objects of that plugin; proved in `FlintPluginProofs` |

A definition whose comment begins with "Mutant" is the code with a plausible bug.
It is used by nothing: putting it in the place of the definition it is named
after shows that the property listed with it in `PROJECT.json` is able to fail.

### Common abstractions

Data is reduced to its origin. A URL is the number of the `open()` that set it. A
request is the number of the `send()` (or `open()`) that wrote it, a piece of a
response the request it answers, a WebSocket message its number. Buffers are
sequences of these, so that mixed, lost, repeated or left-over data can be seen.

`ready` is the queue of an `io_service`: completions and posts, taken in FIFO order
by one thread. An asynchronous operation is `pending` until the network completes it
(`ok`, `fail`, `eof`), or has its outcome at once (`AtOnce`: a delimiter is
buffered already; a connect is refused on a socket in use). Closing a socket turns
every pending operation on it into a queued failure, in any order, behind what is
queued; completed operations are not recalled. A handler is one step, except where
it waits for the other thread.

### XmlHttpRequest

State: the object's members under their names; `socket`, `host`, `answering`,
`left`, `outgoing` for the connection; `op`, `result`, `endpoints` for the chain of
each `send()`; `ready`, `io`, `call` for the io thread; `stack` for the main thread,
one frame per call of this object that is under way. `opens`, `sends`, `target`,
`handed` are history.

| action | code |
|---|---|
| `Open`, `FinishOpen` | `jsOpen` before and after `changeState(Unsent)`: a callback may run between |
| `Send`, `GetResponseText`, `GetResponseHeader`, `SetCallback` | the script's other calls that change state |
| `RunIoCallback`, `Return`, `Resume` | the synchronous `Invoke`: the callback runs, returns, the handler goes on |
| `HandleResolve` ... `HandleReadContent` | the completion handlers, with `HandleError` for their error branches |
| `HandleConnectNext` | `handleConnect` with an error: close the socket, connect to the next endpoint |
| `Resolved`, `Connected`, `Written`, `Arrive`, `Eof`, `Fail` | the network and the server (external) |

The constructor sets neither `state_` nor `aborted_`, so `Init` lets them be
anything. The script's abort (`jsAbort`) only logs and is no action; the private `abort()`
is called by `jsOpen` alone and is part of `Open`. The server
answers only the first request of a connection, as the code's
`Connection: close` asks, with a response or with something that is no HTTP. It may
close early: the eof of a status or header read is an error there.

`XhrSequential` restricts only the script: it sends once after `open()`, reads
headers when there are some, and opens again when the load is Done and the text
is taken. System actions are untouched. `XhrPromise` sees `readyState`,
the load, whether `send()` was called, the load whose status and header are
visible and the loads whose bytes are in the text. Each step of `SeqSpec` is a step of it or
a stutter. `XhrHeaders` adds one request header: `setRequestHeader` inserts, and so keeps
the first value given (`insert` of a map), `jsOpen` clears, `send` writes what is there
into the request.

### WebSocket

State: `state`, `internal`, `timer`, `sendQueue`, `current`, `writeFlag` are members
of websocketpp's connection; `buf` and `looping` are the loop of
`handle_read_frame`; `deadline` is the timer around resolve and connect; `orphans`
counts close timers whose pointer `send_close_frame` has overwritten. `process` is
"up" until the code brings the process down: a null `io_service`, a null connection
or an exception on the thread that nothing catches.

The script's `Open`, `Close`, `Send` are those of `FlintWebSocketAPI`; `CloseImpl`
and `SendImpl` run on the io thread together with the websocketpp call they make.
`SendImpl` has what `send` of websocketpp does: nothing unless the session is open, and
nothing for a text that `prepare_data_frame` finds is not UTF-8 (`NotUtf8` says which
messages are): `SendImpl` does not look at the error and the script is not told.
The handlers follow `connection_impl.hpp`. `terminate`, the shutdown of the socket
and the handler that follows are one operator, `Terminate`: with the plain socket
policy that the client uses each of them calls the next directly. Frames arrive in pieces of any size, with the
response too. A timer that has expired has its handler queued and can no longer be
cancelled: `timer' = "off"` in a handler does not take the entry from `ready`.
A resolve that the session has given up stays in `pending` until `getaddrinfo` returns, because
`resolver.cancel()` cannot interrupt it, and `run()` stays with it.

### The reading path

`WebSocket` takes a frame as a unit; `ReadPath` is what is below it. `stream` is
what the server of this connection sends; `pos` and `avail` bound what `m_buf` holds of it.
`state`, `needed`, `basic`, `extended`, `dataMsg`, `controlMsg`, `current` are the
members of `hybi13` under short names (`m_cursor` is `Len(extended)`); `hstate`,
`mRead`, `buf`, `status`, `upgrades`, `length` those of `http::parser::response`.

| action | code |
|---|---|
| `ReadResponse` | a read completes: `handle_read_http_response` and the size check of `consume` |
| `OutOfBytes`, `ParseLine`, `HeaderComplete` | one turn of the loop of `response::consume`: no delimiter, a line, the blank line with the validation of the handshake |
| `Receive` | `async_read_at_least(1, ...)` completes with 1 to `ReadSize` bytes |
| `BasicHeader`, `ExtendedHeader`, `Payload` | one turn of the loop of `hybi13::consume`, by its state, with every check and its error |
| `Dispatch` | the `ready()` branch of `handle_read_frame`: `get_message`, and the session state after a Close |
| `ReadFrame` | the loop is over: `read_frame` arms the next read |
| `LocalClose`, `Terminate` | `close()` and the end of the connection, which the io thread runs between two handlers |

A line of the response is one byte that says what the line is, before its CR and LF (a
Content-Length is a value up to 9, or `NoNumber`, which `HeaderComplete` refuses);
frames are bytes in full. The sizes of a header are constants (`BasicLimit`, `Code16`,
`Code64`, `ExtendedLimit`), because 125, 126, 127 and 65535 would take streams of 64 kB
to reach every case. `SizeT` is the number of values of a `size_t`, where the sum of
`message_too_big` wraps and from which on a size is refused (`requires_64bit`, the last case
of `BadSize`; on 64 bits there is no such size). `Utf8` has the validator as the table it is, byte class by byte
class. Payload bytes of a client's reads carry no mask: a masked frame is refused.

`FrameStream` is told the frames and takes them one at a time: it fails at a wrong
one, whatever the cuts, and at no other. Two things it does not promise, because the
code does not keep them: that a text in several frames ends with a whole code point,
and that a response shorter than `max_header_size` is accepted when frames come in the
same read (section 6).

### HttpRequest

As XmlHttpRequest without callbacks and without `abort`: each `open()` starts a
chain at once, `open()` never closes the socket, and what is read is printed
(`printed`). `overlapped` records whether the script opened before the last chain
had ended; the properties of a careful script are stated under `~overlapped`.
`skipped` counts endpoints passed over because the socket was still connected.

### FlintPlugin

`plugin` goes through the calls of the browser, `work` is `holderWork_`, `thread`
the detached thread, `object` the API objects on the io_service, `pending` and
`ready` what they have under way. `misused` records a use of a destroyed
`io_service` or object. An object stands for any of the kinds: its call
starts operations, its handlers may start another. Those in `Responders` receive
datagrams, which nobody is bound to send.

### SsdpResponder

A responder is such an object; starting an operation is `search()`, which multicasts and arms one receive,
and `started` counts the searches. `Answer` puts a datagram into the queue of the object's
socket, `Receive` gives the oldest to the receive armed first and overwrites the one
`buffer`, `ReceiveFails` ends a receive with an error, which `handleReceivedFrom` does
not look at. A datagram is its size, one of `Sizes`. The handler prints the size that came
with the completion (`results`; 0 with an error) and
`data()` of a streambuf that nothing commits, which is empty: `printed` therefore holds
sizes, not datagrams, and the mutant prints the size of what the buffer holds. The handler arms no receive,
so a step of `HandlerEnds` that starts an operation is excluded for responders.

## 3. Runs

| run | bounds | what it shows |
|---|---|---|
| `xhr_any` | 2 opens, 2 sends, callbacks 2 deep, 1 endpoint | any script, from callbacks too: types, each completion queued once (`CompletionsQueuedOnce`), the two threads agree on Invoke (`InvokeAgrees`) |
| `xhr_live` | 2 opens, 1 send, 2 endpoints, body without line end, fairness | every chain ends (`ChainEnds`), the io thread is released from every Invoke (`IoReleased`) |
| `xhr_sequential` | 3 loads, 3 headers, 2 endpoints | `XhrPromise` is implemented (`KeepsPromise`); `OwnResponse`, `RightHost`, `RequestSentAtMostOnce`, `OwnRequestHeaders`; the callback finds the state it is told of (`CallbackSeesItsState`) |
| `ws_script` | 3 messages, the second not UTF-8, 1 close, 1 frame | writes do not overlap (`WriteFlagRight`), no message is forgotten (`QueueServed`), order on the wire (`OutgoingInOrder`), between two messages that arrive only those are missing that are not UTF-8 (`NoGap`) |
| `ws_peer` | 1 close, 2 frames, fairness | one reader (`OneReader`), the thread stays while the session lives (`RunsWhileAlive`), `WsSession` is implemented (`KeepsSession`); attempts, closing handshakes and the thread end (`AttemptEnds`, `CloseEnds`, `ThreadReturns`) |
| `read_path` | up to 3 frames of 23 kinds, 11 responses, reads of any length, limits scaled down | `FrameStream` is implemented (`DeliveredFrameByFrame`); the processor is in step with the sender (`InSync`), waits for nothing it has (`Prompt`), keeps the limit (`MessageFits`); the validator accepts UTF-8 and nothing else (`ValidatorAgrees`) |
| `http` | 2 opens, 2 endpoints, fairness | completions once, chains end, requests at most once, content is the body (`ContentIsBody`) |
| `plugin` | an object on a connection and a responder, 2 operations each, 3 answers of 2 sizes, fairness | the thread serves while the plugin is up (`ThreadServes`, `Served`) and returns after shutdown (`ThreadReturns`); the sizes of the answers are printed once and in order (`SizesPrintedOnce`), by the receive of a search each (`ReceivePerSearch`), and a waiting search gets one (`AnswerServed`) |

Four runs expect a violation; section 6.

Why the bounds are enough. Two opens and two sends let a load be cancelled at every
point of its chain while another runs; a third load in `xhr_sequential` follows one
that followed another, so what two loads leave behind is seen. Callbacks two deep
let an `open()` interrupt an `open()`. Two endpoints give one retry, which is what
the iterator's end and the cancelled-connect case need. Two messages are the least that can
be out of order or wait in the queue during a write, and a third between them, which is not
UTF-8, is dropped while the session goes on; two frames of the peer are the
least that can be cut apart or follow a Close. Each bound counts calls of the
script or frames of the peer in a guard (`MaxOpens`, `MaxSends`, `MaxDepth`,
`MaxEndpoints`, `MaxTexts`, `MaxCloses`, `MaxFrames`, `MaxOps`, `MaxAnswers`,
`MaxHeaders`); none cuts a step of
the code short, with one exception: a handler of `FlintPlugin` starts no further
operation once `MaxOps` are used. Deadlock is not checked: all these systems come
to rest when the script has nothing more to call.

`Base64` has no state; `Base64Agrees` in `MCReadPath`, which TLC evaluates in this run,
decodes what it encoded for bytes of up to seven with bits at the borders of the characters.
In `read_path` a size is basic up to 2, in two bytes up to 3 and in eight from 4, a
message has at most 4 bytes and a header of a response 15. So every branch on a size is
taken with payloads of up to five bytes, the longest stream fits one read
(`ReadSize` 32), and a read may end after each byte of it. Three frames are a message in two
fragments with a third between or after them. The texts are, for every length of a code point, the first and the
last that is legal and their illegal neighbours, in one frame and cut at every byte. What
the scaling cannot reach, sizes up to 2^64 in their real encoding, is the theorem
`HeaderRoundTrip`. In `plugin`, three answers for two searches leave one that no
receive is there for.

### Fairness

- `XmlHttpRequest`, `HttpRequest`: the io thread runs what is ready (one thread in
  `run()`); callbacks return and the browser's loop goes on; **and the network ends
  each operation**. The last is asked of the peer and not given by the code, which sets
  no timeout anywhere: with a server that stays silent a load stays for ever.
- `WebSocket`: the io thread, the timers, and that `getaddrinfo` returns from a resolve that
  was given up (it has a timeout of its own, and nothing else ends it). Nothing more is
  asked of network and peer, because websocketpp's timers are there to do without.
- `FlintPlugin`: the io thread, and completion of the operations on connections. The
  second matters as above. Nobody ends a UDP receive, so nothing is asked for one:
  `ThreadReturns` is stated for when no responder waits.
- `SsdpResponder`: also, a receive gets the datagram that is in its socket's queue
  (the kernel's and asio's part). No device is asked to answer.
- `ReadPath` states safety only, with `Prompt` for what would be lost by waiting.

Nothing is ever asked of a script.

## 4. Proofs

| theorem | says | argument |
|---|---|---|
| `TypeCorrect` | `Spec => []TypeOK` of XmlHttpRequest | `TypeOK` is inductive: besides types it says that a resolve that succeeded left an endpoint to take, that bytes come only from an answer, and that only an operation under way has an outcome. One lemma per part (object, connection, io, script, operations), one step per action |
| `CompletionsCorrect` | `Spec => []CompletionsQueuedOnce` | inductive with `TypeOK`. A handler takes the head of `ready` and its outcome with it; a completion sets one and appends one; `socket_.close()` appends exactly the pending operations, by lemma `OrderNames` of `CompletionQueue` (an enumeration of a set names each member once, by counting) |
| `InvokeCorrect` | `Spec => []InvokeAgrees` | inductive with `TypeOK` and the facts on `call` it contains: only `RunIoCallback` puts a frame "io" on the stack, and only on an empty one |
| `OwnResponseCorrect`, `RightHostCorrect`, `SentOnceCorrect`, `CallbackCorrect` | `SeqSpec => []OwnResponse`, `[]RightHost`, `[]RequestSentAtMostOnce`, `CallbackSeesItsState` of XhrSequential | by `SeqInv`, on top of the invariants of XmlHttpRequest (a careful script is a script: `SeqIsScript`). `ScriptInv`: `jsOpen` is the innermost call exactly while the state is Unsent, and a posted callback is about the state it will find. `LoadInv`: only the chain of the last `send()` can be under way (`LastSend`). Before that `send()` nothing is left of the load before (`Idle`). While the request is not written (`EarlyInv`) the buffer holds it alone and no server has it; then (`LateInv`) what is buffered followed by what is still to come is the rest of its response, from the part that the chain has reached on (`Whole`), or is no response at all (`Garbled`); the lemmas `ReadMove` and `ReadTake` keep that when bytes arrive and when a part is taken |
| `PromiseKept` | `SeqSpec => KeepsPromise`: XhrSequential implements XhrPromise | `ViewInv`, from `SeqInv`: what is visible is the last load, or nothing. Five steps of the object are steps of the promise (`jsOpen` up to its callback, its rest, `send()`, the headers, the end of the content), taking the text is the sixth, and every other step shows nothing |
| `HeadersCorrect` | `HeadersSpec => []OwnRequestHeaders` of XhrHeaders | `HeaderInv`: until its `send()` the object holds what the last load asked for first, and each request holds what its own load did; by `SeqInv` a request that is being written is alone, on a connection to its own host |
| `TypeCorrect` | `Spec => []TypeOK` of WebSocket | inductive; a message of the peer is numbered at most `MaxFrames` because its first frame is its response, which `CallType` says |
| `ReaderCorrect` | `Spec => []OneReader` | `OneReader` alone is not inductive: nothing in it keeps a resolve, a connect and a read from being under way together. `ReadInv` says that they are one chain, of which at most one link exists, pending, queued or as the loop over frames (`OneStage`), and which link goes with which state (`StageFits`) |
| `WritesCorrect`, `QueueCorrect` | `Spec => []WriteFlagRight`, `Spec => []QueueServed` | together by `WriteInv`: flag, messages being written, queued completion and posted `write_frame` determine each other until the session closes. It needs `ReadInv`: the loop over frames pushes replies, and must not run once the session is closed |
| `AliveCorrect` | `Spec => []RunsWhileAlive` | `AliveInv`: a session that is connecting has a link of the chain (a resolve or connect only under its own timer), or the timer's handler queued, and one that is closing has a close timer. A resolve whose timer has expired is dropped (`HandleLate`), so the link alone would not do. It needs `ReadInv`: a connect handled while closing would overwrite the close timer |
| `OrderCorrect`, `GapCorrect` | `Spec => []OutgoingInOrder`, `Spec => []NoGap` | both are about one line of messages: received, being written, in the send queue, and posted by `send` but not taken yet. `PostInv`: posts are in the order of the calls and all later than what was taken. `OrderInv`: received, current and queue in this order are sorted, with nothing but Close frames behind a Close. `GapInv`: nothing that is not UTF-8 is kept; what is received, and while the session is not closed what is sent or queued, has no hole but these, and until it closes none up to the last call either. Each action is a step of one of eight kinds (`Quiet`, `PushesMark`, `TakesIn`, `Drops`, `Asks`, `Moves`, `MovesOut`, `Writes`), and one lemma per kind keeps all three |
| `SessionCorrect` | `Spec => KeepsSession`: WebSocket implements WsSession | `FiredInv` ties the handlers that were called to the session's state, so each step calls none or the next legal one. `FlowInv` is for the messages: exactly one of the loop's buffer, a queued read and nobody holds bytes of the peer (by `ReadInv`), and what is held, followed by what the network has, are the messages after the delivered ones, in order. So whatever is handed to the script is message `Len(delivered) + 1` |
| `TypeCorrect`, `CompletionsCorrect` | `Spec => []TypeOK`, `[]CompletionsQueuedOnce` of HttpRequest | together with `StageInv` (a chain belongs to one `open()`; one that is over has no outcome; a resolve that succeeded found an endpoint). Every handler starts the next operation, ends its chain or retries (`HandlerCases`), and the queue names exactly the completed operations after each (`QueueStep`) |
| `SentCorrect` | `Spec => []RequestSentAtMostOnce` of HttpRequest | `SentInv`: while a script waits for its chains, only the last one is under way, `request_` holds no request twice and none that was sent, and a write sends the whole of it, so its completion leaves nothing |
| `ContentCorrect` | `Spec => []ContentIsBody` of HttpRequest | `ReadInv`: for a script that waits, what the one active chain has read and what is still to come go on with the response from the part that it has reached (`Reads`); what a chain leaves in `response_` when it ends early has no line "200" (`NoStatus`), so that the next one, which finds it there, cannot take it for its own |
| `PathTypes`, `PathSynchronised`, `PathPrompt` | `PathSpec => []PathTypeOK`, `[]InSync`, `[]Prompt` of ReadPath | by `PathInv`: while the response is read, `buf` and `pos` say where in it the parser is, and as a response is lines of three bytes its next delimiter is where the line ends (`LineAt`, `DelimiterIs`); the blank line leaves `pos` at the first frame. From there the reader's invariant `IInv`: the bytes in the partial headers are a prefix of the frame's own header, and what is needed is what is left of the part being read, so that each part ends where the frame says |
| `PathLimit` | `NoWrap => (PathSpec => []MessageFits)` | inductive with the above; `NoWrap` excludes sizes within `MaxMessage` of 2^64, where the sum in `message_too_big` wraps |
| `HeaderRoundTrip` | a header that `basic_header` and `copy_payload` wrote for any fin, reserved bits, opcode and mask bit and any size below 2^64 is read back as just these | the first byte by its three fields (`HeaderByte`), the rest by cases of the size; for eight bytes, `JumboRoundTrip` divides by 256 seven times |
| `Base64RoundTrip`, `AcceptsOwnDigest` | `base64_decode` gives back what `base64_encode` wrote, for bytes of every number; so no two digests are written alike | a group of three bytes is read from the four characters it was written as, and a byte from its own character and the next (`Groups`), so a last group that is not full loses nothing; decoding stops at the padding (`DigitsAre`); the rest is counting places in groups (`Places`) |
| `DecodeConcat` | the validator comes out the same however its bytes are cut, from any of its states | induction over the bytes that follow (`FromEach`): a run is the chain of the states after each byte (`OneRun`), and two chains that begin alike are alike |
| `AcceptsText`, `RejectsNoBeginning` | the table accepts exactly what is UTF-8, and gives up exactly when no text begins like the bytes so far | the state after some bytes says what follows of the last code point (`Pending`, `EndsBy`): one case for each state and class of byte, out of the table. `Point1` to `Point4` say what UTF-8's own definition means for one byte to four, overlong forms and surrogates excluded; induction over the code points from the front (`TextEnds`) and from the back (`Ends`) puts the two together; what is rejected stays so (`RejectStays`) and what is not can be completed (`Completed`) |
| `PathValidates` | `PathSpec => []ValidatorAgrees` of ReadPath | `Validated`: the validator of a text stands where one run over all of its payload would stand, whatever control frames came between (`ExtendedDecodes`, from `DecodeConcat`), and not where it has given up, since the connection stops then; the two theorems above say what that means |
| `PathImplements` | `NoWrap => (PathSpec => DeliveredFrameByFrame)`: ReadPath implements FrameStream | `Read`, on top of all the above. `ReadInv` says what the processor knows of the frame it is in: behind a header part nothing in it was wrong, and the message being read is what `FrameStream` has of it followed by the part of this frame that is there, so `WholeFrames` moves only where a frame ends. `ResponseRead` says that the status, the headers seen and the first Content-Length are those of the lines before the next one, and that `mRead` counts what came. A step inside a frame or a line shows nothing (`DataReadsOn`, `UndecidedShows`); one that ends it takes the frame (`ControlPayload`, `DataTaken`, `DispatchShows`, `HeaderCompleteShows`); and one that gives up does so where the frame or the response is wrong as a whole. A validator that gives up in mid-frame needs `RejectsNoBeginning` for that: no continuation of the bytes so far is a text |
| `ServesCorrect` | `Spec => []ThreadServes` of FlintPlugin | `ThreadServes` is not inductive, as `run()` returns when it has nothing to do; `WorkHolds` adds that `holderWork_` is set exactly while the plugin is up, which disables that step |
| `TypeCorrect` | `Spec => []TypeOK` of FlintPlugin | inductive. Its last part counts: a freed object leaves in the queue exactly what it had under way (`EntriesFreed`, by a bijection from `OrderNames`), and a completion or a handler moves one |
| `SsdpIsPlugin` | `SsdpSpec => Spec`: SsdpResponder implements FlintPlugin | step by step; so `ThreadServes` and `TypeOK` hold of it too |
| `SizesCorrect`, `ReceivesCorrect` | `SsdpSpec => []SizesPrintedOnce`, `[]ReceivePerSearch` of SsdpResponder | `LineInv`: the sizes printed, waiting and in the socket are one line, in which each datagram that arrived has its place; an answer comes last, a receive or a handler only moves the border between two queues (`MoveBetween`), an error inserts a 0, which is the size of none (`InOrderFailure`). `CountInv`: an object starts from nothing, and each action moves one receive between the three places where it can be; a handler of a living object therefore finds its result |

The theorems hold for all values of the constants under `BoundsAssumption` (the
numbers are naturals, most of them positive), hence for any number of calls,
endpoints and nested callbacks. For WebSocket they
are the calls of `send` and `close` and the frames of the peer. Those of FlintPlugin
and SsdpResponder hold for every finite set of objects. Those of the reading path hold
for every set of streams
that begin with lines and a blank one and go on with whole frames
(`ResponseAssumption`, `StreamAssumption`: the frames' own headers say where they end,
right or wrong as they may be), for all read sizes and limits, the real ones included.
`MeaningAssumption` adds what `FrameStream` is told of such a stream: the frames are those its
bytes spell, and its response is an acceptance when its lines are those of one. It defines the
two sides' common input and says nothing of the reader. `NoneAssumption` says that no message is
the null pointer.

The properties of WebSocket count queue entries; lemmas on queues (`HasAppend`, `HasTail`,
`QueuedCount`) turn the counts into "at most one" (`Once`), which is what a step can be shown
to keep. Those of the HTTP objects relate a queue to a set of operations (`Names`).

The proofs about bytes need induction over their number. It is done from the library's
well-foundedness of the order on the naturals (`SetInduction`: a set of naturals that has
every number whose predecessors it has is all of them), and the recursive functions are
shown to have the values their equations say (`GoesExists`, `DecodeIsRun`).

Only model-checked: everything temporal under fairness, which is out of the
prover's reach. Every other property of a passing run is a theorem.

## 5. How the properties can fail

Each property of a passing run has a mutant of the code that breaks it, listed in
`PROJECT.json`. Examples: the receive registered and run at once
(`HandleWriteRequestPosts`), the request formed anew for each endpoint
(`HandleConnectForms`), a write flag that stays set (`HandleWriteKeepsFlag`), a
pushed message nobody is posted for (`PushSilent`), a `terminate` that calls the
handler twice (`TerminateAgain`), an `io_service` without work
(`OnPluginReadyIdle`), a loop that ends with the bytes (`ConsumingBytes`: the frame
without payload waits), a fragment measured alone (`TooBigAlone`), frames dropped that
came with the response (`HeaderCompleteDrops`).

## 6. Where the code and its comments part

Checked, each by a run that finds the violation:

- `ws_claim_close` — a `close()` that a script makes between `onopen` and `onclose`
  runs after a frame of the peer has begun the closing handshake: websocketpp's
  throwing `close()` is called on the detached thread, nothing catches, and the
  process ends; `onclose` is never called (`connection.hpp:66`).
- `xhr_claim_done` — of a script that sends once per `open()` and opens again only when
  the answer has begun: the end of stream of the aborted load, queued before `open()`, makes
  the next load Done while that is under way (in TLC's trace before its host is resolved;
  `FlintXmlHttpRequestAPI.h:27`).
- `http_claim_endpoint` — nothing closes a socket after a load, so the next one's
  first connect is refused and its first endpoint passed over
  (`FlintHttpRequestAPI.cpp:57`).
- `plugin_claim_destroy` — `shutdown()` does not end the thread before the
  `io_service` is destroyed (`FlintPlugin.cpp:71`).

Read in the code, without a run:

- `FlintXmlHttpRequestAPI.cpp:15` leaves `state_` and `aborted_` uninitialised, while
  `FlintXmlHttpRequestAPI.h:23` has every object begin as Unsent (modelled in `Init`).
- The comment at `FlintXmlHttpRequestAPI.cpp:71` speaks of clearing the response;
  line 72 keeps `responseBuf_` (modelled: `Open` leaves it).
- `Loading` (`.h:26`) is entered only by a branch that `transfer_all()` never takes;
  `HandleReadContent` has it and no run reaches it.
- `HeadersReceived` (`.h:25`) is announced at `.cpp:263` for whatever load the handler
  was started for, also after an `open()` that has sent nothing yet.
- An open-handshake timer that expires just before the response is handled has its
  handler queued, and terminates the session after `onopen`, through the close handler,
  where `connection.hpp:472` speaks of the fail handler
  (`impl/connection_impl.hpp:1389`; in the model, `KeepsSession` allows it).
- "ensure that text messages end on a valid UTF8 code point"
  (`processors/hybi13.hpp:422`) looks at the opcode of the frame, and the last of several
  frames is a continuation: a text in fragments may end inside a code point
  (modelled in `Unfinished`; `FrameStream` promises it of one-frame texts only).
- `http/impl/response.hpp:47` counts every byte of a read as header, so frames that come
  with a response near `max_header_size` make it fail (modelled in `ReadResponse`).
- A 101 with a positive Content-Length has `consume` take frame bytes for a body
  (`ResponseAssumption` excludes such a server).
- A line of a response without ": " makes `FlintXmlHttpRequestAPI.cpp:250` advance an
  iterator past the end: undefined, and not modelled.
- `FlintWebSocketAPI.cpp:79` ignores what `send` returns: a text that is not UTF-8 is dropped
  while the session goes on, and the next one is sent (`NoGap` allows just this).
- `FlintWebSocketAPI.cpp:65` and `:74` before `open()` use a client that has no
  `io_service` yet; `close()` while connecting throws (both in `process`).

## 7. Not modelled

- The text of requests: formatting; `overrideMimeType`,
  `withCredentials`, `timeout` and the like store values nothing reads.
- `echo`, `testEvent` of FlintPluginAPI (no state); `httpGet`/`httpCallback`, whose
  work is done by FireBreath's stream helper. Whether the header map it builds keeps
  several values of a name depends on whether FireBreath's `variant::cast` gives a
  reference or a copy, and FireBreath is not in the repository.
- `start`, `stop`, `setMaxResponseTime` of the SSDP object: empty bodies.
- Data races inside a `streambuf` or a map used by both threads: methods and handlers
  are taken as atomic. What a torn buffer does has no bounded set of outcomes.
- Release of an XMLHttpRequest or WebSocket object during its operations: modelled
  once, for all objects on the io_service, in `FlintPlugin`.
- websocketpp's server role, TLS, iostream transport, older protocol versions,
  compression, loggers: vendored, and never on the path of the plugin's
  one client configuration. SHA-1 is on it (`hybi13.hpp:633`): a function of bytes that no
  property looks into; the Base64 around it is modelled. Of the headers below `src/websocketpp`, the client's
  connection and what it reads are modelled; the payload of what it writes is not.
- Poco: about four fifths of the repository's lines are the headers of this library.
  The plugin includes some of them and calls none, so there is no behaviour of this system in them to
  translate. A share of the repository's lines therefore says little here; of the
  plugin's own sources nearly all that has behaviour is mapped.
- The build files and installers.

## 8. Plan

Done, in this order: XmlHttpRequest with its proofs; XhrSequential and XhrPromise;
WebSocket with its proofs and WsSession; HttpRequest; FlintPlugin with its proof; the claims;
the reading path with FrameStream and its proofs; SsdpResponder; XhrHeaders; the order of
messages and the refinement of WsSession proved; the proofs of HttpRequest; the properties of
XhrSequential and XhrHeaders and the refinement of XhrPromise proved; `ContentIsBody` of
HttpRequest, and the invariants of FlintPlugin and SsdpResponder proved; Base64 with its proof; the
validator proved, and the refinement of FrameStream. Every property of a passing run is now a
theorem, but for liveness.

Next, extending the model:

1. `PluginObjects`: FlintPlugin composed with HttpRequest, so that release and
   destruction meet real chains of handlers and not counted operations.
2. WebSocket: release of the object while its thread runs; a second object.
