# qtalk in TLA+

A verification project for qtalk: RPC over *qmux*, a protocol that multiplexes many
duplex channels over one connection (`spec/qmux.md`). There are three implementations,
which are meant to speak to each other: Go (`golang`), TypeScript (`javascript`) and an older
TypeScript one that the demo runs on (`javascript/legacy`). All paths below are under `src/`.

## 1. The system

### Components

| Component | State | Operations | Correct when |
|---|---|---|---|
| **Go mux: session** (`golang/mux/session.go`) | `conn`, `chanList`, `incomingChannels` (16 places), `closeCh` (1 place), `err` | `Open`, `Accept`, `Close`, `Wait`; the read loop (`loop`, `onePacket`, `handleOpen`) | a message reaches the channel it was sent on; `Open` and `Accept` return; the end of a session reaches everyone who waits |
| **Go mux: chanList** (`util.go` 15-71) | `chans`: index is channel number | `add` (first free place), `getChan`, `remove`, `dropAll` | no two channels in use share a number; no channel is left out of `dropAll` |
| **Go mux: channel** (`channel.go`) | `localId`, `remoteId`, `remoteWin`, `myWindow`, `pending`, `msg`, `sentEOF`, `sentClose` | `Write`, `Read`, `adjustWindow`, `CloseWrite`, `Close`; `handle`, `handleData`, `close` | the other end reads a prefix of what was written, in order; flow control never fails between two ends that run this code |
| **Go mux: window, buffer** (`util.go` 73-220) | `win`, `closed`; a linked list, `closed`; a `sync.Cond` each | `add`, `reserve`, `close`; `write`, `Read`, `eof` | nobody who waits is forgotten |
| **Codecs and conns** (`golang/mux/codec`, `javascript/mux/codec`, `mux/transport/websocket.ts`, `legacy/qmux/src/qmux_*.ts`) | what has arrived and not been read | `Encode`, `Decode`, `conn.read` | message boundaries survive however the bytes are cut up |
| **Go transport** (`golang/mux/transport`) | `accepted`, `closer`, `errs` | listeners and dialers for tcp, unix, websocket, stdio | `Close` ends `Accept` |
| **Go RPC** (`golang/rpc`) | handler table under a lock | `Call`, `Respond`, `Return`, `Hijack`, `Bind`, `Serve` | one reply per call, no call left waiting, a hijacked channel stays open |
| **Go RPC: object manager** (`rpc/object`) | `values` under a lock | `Register`, `Object`, `Dispose`, `ServeRPC` | one object per id |
| **JavaScript mux** (`javascript/mux`, `legacy/qmux/src/qmux.ts`) | `channels`, `incoming` queue; `readBuf`, `readers`, `ready` | as in Go, with promises for goroutines | as in Go, and interoperates with Go |
| **JavaScript RPC** (`javascript/rpc`) | handler table | as in Go | as in Go |
| **qrpc** (`legacy/qrpc/src/qrpc.ts`) | `handlers` of `API`; `ObjectManager.values`, `mountPath` | `Client.call`, `Export`, `serveAPI`, `Server.serve`, `register`, `dispose` | as in Go; the handle of an object reaches it |
| **Mock transport** (`legacy/qrpc/demo/_demo_mock.js`) | two sessions, pairs of channels, no wire | `open`, `accept`, `read`, `write`, `close` | calls behave over it as over a connection |
| **Listeners of the legacy code** (`qmux_node.ts`, `qrpc.ts`) | the `pending` queue | `ListenTCP`, `ListenWebsocket`, `accept`, `close` | each session is served once, loops return |
| **Bus, Python client, bundles, examples** | | | not modelled |

### Interactions

The two ends of a connection run the same code. At each end one *read loop* decodes
messages and calls `channel.handle`; the application's goroutines call `Write`, `Read`,
`Close` and `Open`, and write to the connection through one encoder lock. The loop and
the application share `chanList`, `remoteWin`, `pending` (each under its own lock),
`myWindow` (`windowMu`), `sentEOF` (no lock), and Go channels: `ch.msg`,
`incomingChannels`, `closeCh`. RPC opens one mux channel per call, with the responder in
a goroutine per accepted channel.

In JavaScript there is one thread per end. The loop, the application's calls and the handlers
of events interleave only where they `await`: at a write to the connection, at a read that
cannot be answered, at `accept`, and at the queue `ready` where `open` waits for its
confirmation and `close` for the peer's. A promise that is resolved resumes its waiter after
the code that resolved it. What a decoder gets from the connection depends on the transport:
a `net.Conn`, a Node socket with its own read buffer, or a list that `onmessage` fills.

### What is hard

- **Four goroutines per channel and end.** `myWindow`, `remoteWin` and what is on the
  wire are three counts of one credit, each under a different lock.
- **End of a channel.** `Close` does not touch `Write`; each end may close first, or both
  at once; one message for a forgotten channel kills the whole session.
- **Numbers.** A number is reused at once, while messages for its last owner may be under
  way; the acceptor may use a channel before the opener has its confirmation.
- **End of a session.** Readers, writers, Opens and Accept wait on six different things,
  and the loop's exit must reach all of them.
- **Awaits.** In JavaScript `close` sets `sentClose` inside a `send` that `handle` may be
  waiting in, and a `shift` of `ready` may be taken by `open` or by `close`.
- **Bytes.** Each of the five conns answers `read(n)` from a buffer of its own, and each
  treats zero bytes, the end of the stream, and an end within a message differently.
- **A reply of two frames.** Whoever has an error stops listening after the first; whoever
  answers early is closed while arguments are still being written.

The hazards are listed line by line in `PROJECT.json`.

## 2. The modules

| Module | What it is |
|---|---|
| `Stream` | abstract: the "ordered, reliable, flow-controlled, duplex stream" of `api.go` |
| `Channel` | detailed: the two ends of one established channel in Go and what is between them |
| `ChannelInvariant` | the inductive invariant of `Channel` |
| `ChannelProofs` | theorems about `Channel`: that it implements `Stream`, and what can end a session |
| `Session` | two sessions in Go, their channel lists, opening and closing, end of a session |
| `SessionInvariant` | the inductive invariants of `Session`: of one end's list, and of the two ends |
| `SessionProofs` | theorems about one end's list, and about the two ends: routing, and what Open returns |
| `JsMux` | two sessions in JavaScript with their channels, each end either implementation |
| `JsMuxInvariant` | the inductive invariant of `JsMux` that needs nothing of the peer |
| `JsMuxProofs` | theorems about what needs nothing of the peer |
| `JsMuxPaired` | the inductive invariant that joins the two ends of `JsMux` |
| `JsMuxPairedProofs` | theorems about the two ends |
| `Framing` | messages to bytes, bytes through a conn, and back, in all three implementations |
| `FramingInvariant` | the inductive invariant of `Framing` |
| `FramingProofs` | theorems about `Framing` |
| `Rpc` | calls between the RPC implementations, over a mux channel or a mock one |
| `RpcInvariant` | the inductive invariant of `Rpc` |
| `RpcCallProofs` | what the steps of `Rpc` leave true of one call |
| `RpcProofs` | theorems about `Rpc` |
| `Serving` | dialers, listeners, and the loops that accept sessions and channels |
| `ServingInvariant` | the inductive invariant of `Serving` |
| `ServingProofs` | theorems about `Serving` |
| `MCChannel`, `MCSession`, `MCJsMux`, `MCFraming`, `MCRpc`, `MCServing` | instances for TLC |

The modules meet at interfaces rather than by one product of state spaces. `Framing` shows
that what is decoded is what was sent, so `Channel`, `Session` and `JsMux` have a FIFO of
messages. `Channel` and `JsMux` show what a channel does, so `Rpc` has, for each call, two
streams of frames with a `Close` each. `Session` and `JsMux` show that channels reach
`accept`, so `Serving` has a queue of them at each end. Where an implementation fails to
give what the next module would like (an `io.EOF` in the middle of a reply, a `Close` that
nobody completes) the next module has the failure, not the ideal.

### Channel

Variables are the fields of `channel`, `window` and `buffer`, as functions of the end;
`wire[e]` is what `e` has written and the other end has not decoded. `writer`, `reader`
and `loop` say where a goroutine is. `sent`, `fin`, `got`, `eof`, `adjusted` and `acked`
are history.

A step is what happens under one lock, or one message written:

| Code | Actions |
|---|---|
| `Write` (channel.go 77-104) | `WriteCall` (sentEOF), `Reserve` (window.reserve), `WriteData` (Encode), and round again |
| `Read` (107-119), `buffer.Read`, `adjustWindow` | `ReadData` or `ReadEOF`, `AdjustWindow` (myWindow), `SendAdjust` |
| `CloseWrite`, `Close`, `session.Close` | one action each |
| `handle` (164-221), `handleData`, `window.add` | `HandleData`, `HandleEOF`, `HandleWindowAdjust`, `HandleClose` |
| `chanList.remove`, `channel.close` (152-162) | `BufferEOF`, `MarkClosed`, `ReleaseWriter` |
| `onePacket`'s errors, `loop`'s exit | `InvalidChannel`, `ConnError`, `DropAll`, `LoopExit` |

`HandleClose` is one step although it reads `sentClose`, writes the answer and sets
`sentClose`: `channel.send` does the three under `writeMu`. `HandleData` charges `myWindow`
and fills the buffer in one step: the reader takes the buffer's lock only, and adds to
`myWindow` what it has already taken, so the two halves commute with all it does. Bytes are abstracted to their
offset in the writer's stream, so that order, loss and repetition are visible. A message
carries the writer's offset `at` and the credit given back so far `adj`; no guard reads
them. The connection is a FIFO that loses what is under way when either end closes it.

Bounds: `MaxBytes` bytes written by an end, `MaxInFlight` messages before `Write` waits
for the connection, one `EOF` in flight per end (`CloseWrite` may be called for ever), one
writer and one reader per end, `MayCloseSession` the ends that may call `session.Close`.
`Word` stands for 2^32 and is small in the runs, so that a wrap-around would happen.

### Session

Variables are the fields of `session` and `chanList` and, per channel, its ids, `msg` and
`sentClose`. A channel is named by its opener and its rank among that end's Opens; the
program knows numbers only, and messages are routed by number only; the name travels in
`of` as history. `Open` is `OpenCall`, `SendOpen`, `OpenReturn`; `Accept` is
`AcceptChannel` and `AcceptEOF`, the two cases of its select; `handleOpen` is
`RefuseOpen`, or `HandleOpen`, `Offer` (into `incomingChannels`, where the loop may wait)
and `Confirm`; a Close from the peer is `HandleClose`, `RemoveChannel`, `FinishChannel`;
the loop's exit is `DropAll`, `FinishDropped` once per channel, `ShutConn`, `Report`. What
`dropAll` has taken out of the list waits in `doomed`, a set: nothing depends on the order in
which the loop ends these channels.
A data message only has to find its channel, so it has no content here: `Channel` is the
model of the rest. Closing `ch.msg` twice is a panic in Go and `err = "panic"` here.

Bounds: `MaxOpens` Opens per end, `ChanSize` for `chanSize` (16 in the code, 1 in the runs,
so that it fills), `MaxInFlight` as above, one data message per channel and end. A run goes
through a set of *settings*; `setting` is chosen in `Init` and never changes. Its
`acceptable` are the ends that announce a `MaxPacketSize` the other accepts, `opens` how
often an end calls `Open`, `mayClose` the ends that may call `session.Close`, and `habits`
what the users of a channel do: with `{}` the acceptor touches a channel only once its
confirmation is written and nobody writes after `Close`; `"closeEarly"` and `"writeLate"`
let them, as the code does.

### JsMux

Both JavaScript implementations in one module: `setting.impl` says which an end runs, and
operators that differ come in two (`TryReadMux`, `TryReadQmux`; `RmChMux`, `RmChQmux`).
An action is what runs between two awaits. `chan[e]` has every channel `e` ever made, with the
fields of `Channel`; `channels[e]` is the session's array, in which a removed channel is a
*hole* or is set to `undefined` (`addCh`, `rmCh`, and the `forEach` at the end of a session
treat the two differently); `pending[e]` has the continuations that await the write of a
message.

| Code | Actions |
|---|---|
| `session.open`, `accept`, `close` | `Open`, `Accept`, `CloseSession` |
| `channel.read`, `write`, `closeWrite`, `close` | `Read`, `Write`, `CloseWrite`, `Close` |
| what follows an awaited `conn.write` | `Wrote` |
| `loop`, `onePacket`, `handleOpen`, `handle` and what it calls | `Receive`, one disjunct per message: `HandleOpen` and `Refuse`, `HandleConfirm`, `HandleFailure`, `ReceiveData`, `HandleEOF`, `HandleClose`, `InvalidChannel` |
| the loop's end | `LoopEnds`, `LoopBroken`; `Terminate` is a connection that ends within a message |

The queue `ready` is modelled whole (`Push`, `Shift`, `CloseQueue`): `open` and `close` share it.
The remote window is left out because nothing reads it: JavaScript writes what it likes, and
`over` records that it was more than the peer takes in. Numbers begin at 1.

`Open` has no guard, as `open()` has none: one that comes after the session was closed, or its
loop has ended, still adds a channel. Its write resolves, because the conns swallow what is
written to them once they are closed (`websocket.ts` 68-71, `qmux_node.ts` 192-197), and as the
loop that shuts channels down at its end is gone, it waits at `ready` for ever: the JavaScript
twin of `openHang`. `CallsReturn` leaves it out, and only it: an open that is under way when the
session is closed, or that comes between `close` and the end of the loop, does return.

Bounds: `Window` and `MaxPayload` of 2 units, `MaxInFlight` of 2 messages, and in each
setting the number of opens (`opens`), bytes (`bytes`), read lengths (`lengths`), and whether
applications call `closeWrite`, call `close` twice, or the connection breaks (`habits`).

### Framing

One writing end, one reading end. `coder` is whose encoder writes, `kind` whose conn and
decoder read: `websocket.ts`, the legacy browser conn, `WebsocketConn` and `TCPConn` of Node,
and `net.Conn`. A unit on the wire is the byte that names the message, a `uint32`, or one
piece of payload; the tables of field orders and sizes are those of each encoder and
decoder. `Encode` writes; `Message` delivers any piece of what is under way (a superset of
what a websocket does, which keeps packets whole); `OnClose`, `OnEnd`, `OnError` are the
handlers of events; `Close` is the reading end's own; `DecodeStep` is what the decoder does
between two reads and `Answered` is a read that waited. `EventLoopFree` says when events can
come: in JavaScript only while no code runs. `Read*(len)` give what each conn answers,
`ReadPacket*` the decoder's use of them.

Bounds: `MaxMessages` messages, of one of each kind, data of 0 to 2 units.

### Rpc

A call has its record in `call[i]`: the caller's place in `Call`, the responder's in
`Respond`, and both directions of the channel. `setting.impl` says who runs what ("go",
"rpc" or "qrpc"; the first two speak the same JSON), `setting.mock` that the sessions are
those of the demo. What a frame is made of matters only for who reads it: a length
(`SizePart`), a body in one part or more (`BodyPart`, `MorePart`), raw bytes after a hijack
(`RawPart`).

| Code | Actions |
|---|---|
| `Call` of caller.go and caller.ts, `Client.call` | `Call`, `Request`, `Opened` or `OpenFails`, `CallerWrites`, `GotHeader`, `GotReply` |
| frame codecs | `ReadSize`, `ReadBody`, `ReadEnd`, `ReadLoop` (qrpc and rpc read ahead; Go reads when asked) |
| `Respond`, `RespondMux`, `API.handler`, `Return`, `Hijack` | `Dispatch`, `GotArgs`, `ResponderWrites`, `HijackWrites`, `HijackCloses` |
| `Bind`, `Export`, `ObjectManager` | `BindNext`, `Mount`, `Register`, `Dispose`, and `ObjectHandler`, `Handlers` for the lookup |
| the mux, or `MockSession` and `MockChannel` | `Accept`, `Deliver`, `Finish`, `InvalidChannel`, `EndSession`, `LoopEnds`; `MockWritten`, `MockClosed`, `MockEnds`, `Meet` |

`setting.nothing` says that handlers give nothing: `undefined` in JavaScript, of which `rpc` makes an
empty frame (`responder.ts` 40) and `qrpc` does not, and `nil` in Go, which is encoded. An error is
always followed by `null`. `Answer` has these cases. Of an empty frame a caller in `rpc` never
settles, as its `readLoop` throws, and a caller in Go makes `io.EOF`. `setting.wanted` is FALSE for a
caller in Go with `reply == nil`: `Received` decodes into a `[]byte` then, which fails for a value that
is not JSON of bytes, and takes `io.EOF` for a reply (`caller.go` 113-121). A call in JavaScript whose
session has been closed is left `"hanging"`, as `JsMux` shows of its `open`.

Paths are sequences of words and slashes, because binding by prefix, the dropped first slash
and the cut at the last one are where they go wrong. What a handler does is one of
`Outcomes`; thrown values are told apart by type, as `exportFunc` does.

Bounds: one call at a time in each setting (`Calls`; the handler table and the session are all
that calls share), `MaxRaw` messages by a handler that has hijacked its channel.

### Serving

`listener` and `closes` follow a listener from `listen` to the return of each `close`;
`pending` is its queue, or in Go the goroutines (`accepted`) that wait to hand a session to
`Accept` and the values in `closer` and `errs`. The goroutine that accepts stops at any error of the
socket's `Accept` (listeners.go 31-35), when the listener is closed (`AcceptFails`) or while it is
still open (`AcceptBreaks`): whoever connects afterwards is not served, which `SessionsServed` excepts. `serve` has the place of each loop that
accepts sessions (`Server.serve`, `Server.Serve`), `respond` of the loops that accept
channels (`serveAPI`, `Peer`, `Respond`). A queue's `handed` are values that `push` or `close`
has resolved a `shift` with and whose waiter has not run yet; that turn is a step of its own,
which allows more orders than the microtask queue does. A client dials with `DialTCP`, one of
three websocket dialers, or by `mux/transport`, and connections end at any time.

Bounds: two clients, two loops, at most two channels opened to each end, `close` called at
most twice.

## 3. The runs

| Run | Instance | Properties | Result |
|---|---|---|---|
| `flow` | 3 bytes from the opener through windows of 1 and 2, fair | `FlowControl`, `InOrder`, `ImplementsStream`, `WriteReturns`, `CloseCompletes`, `ReaderSeesEnd` | hold |
| `liveTeardown` | 1 byte from the opener, whose session may close at any time, fair | `IInv`, `EofAfterData`, `OnlyLateDataKills`, `TeardownCompletes` | hold |
| `numbering` | one Open per end, refused by either or by none; client's session may close | `ListInv`, `Routed`, `NoStray`, `OpenAgreed` | hold |
| `lifecycle` | two Opens, `incomingChannels` of 1 and a connection of 1 message; or one Open, either session may close, `writeLate`; fair | `OpenAnswered`, `ChannelForgotten`, `SessionEnds` | hold |
| `framing` | each encoder, each conn, two messages of any kind in any pieces, fair | `TypeOK`, `DecodedAsSent`, `StopsOnlyWhen`, `AllDecoded` | hold |
| `jsMux` | settings `Data`, `Numbers`, `Abrupt`, `Refused`, fair | `ListInv`, `OnlyOverrunKills`, `Routed`, `ReadsInOrder`, `EofMeansAll`, `NothingAfterClose`, `EndTellsAll`, `CallsReturn` | hold |
| `rpc` | settings `Answers`, `Spans`, `Nothings`, `Unwanted`, `Twice`, `Endings`, `Mocked`, `Throws`, `Objects`, fair | `TypeOK`, `AnswerIsHandlers`, `FailsOnlyWhen`, `LoopsSurvive`, `HijackedOut`, `HandleReaches`, `CallsEnd` | hold |
| `serving` | settings `Listeners`, `Channels`, fair | `TypeOK`, `EachOnceInOrder`, `EveryoneServed`, `EveryoneReturns` | hold |
| `openHang` | one Open, either session may close, fair | `OpenReturns` | **violated** |
| `earlyClose` | two Opens by one end, `closeEarly` | `Routed` | **violated** |
| `jsPeerClose` | two channels, one end of each implementation, fair | `ClosedIsClosed` | **violated** |
| `rpcError` | one call in Go to a handler that returns an error | `NothingAfterClose` | **violated** |

**Composite properties.** Some properties are conjunctions of named parts, each stated and
commented in its module: `ListInv` of `Session` (`TypeOK`, `NoPanic`, `Listed`,
`RefusedForgotten`, `NoOrphan`) and of `JsMux` (`TypeOK`, `ListedWhileOpen`); `StopsOnlyWhen` (`FailsOnlyWhen`, `EndLosesNothing`),
`CallsEnd` (`CallerEnds`, `AnsweredIsClosed` always,
`ResponderEnds`), `EveryoneServed` (`DialsSettle`, `SessionsServed`, `ChannelsAnswered`) and
`EveryoneReturns` (`ServeReturns`, `CloseReturns`, `RespondReturns`). `IInv` has the type
invariant of `Channel`, `InOrder`, `FlowControl` and `EofAfterData` among its parts.
`EndTellsAll` of `JsMux` has two halves: the end of a session shuts every channel down, except
those whose Open was refused, which have left the array by then; and a channel that is shut
down has nobody left waiting in it.

**Properties with exceptions.** Several properties of `Framing`, `Rpc` and `Serving` name the
cases in which they do not hold ("unless a function threw", "in Go two, one over HTTP"). Each
exception was a counterexample first, was traced to its line, and is named in the comment of
the property; what remains says that nothing *else* goes wrong.

**Why the bounds are enough.** In `flow` the windows are smaller than the data, so the
writer blocks on the window, is granted part of what it asks for, and continues with
credit that came back in pieces; `Word` is just above the largest window, so any excess
credit would wrap. `liveTeardown` has every order of write, read, `EOF`, `Close` and of the
session's end, with a window that one byte fills. In `numbering` the
two Opens cross, or the second takes the number the first gave back, with the close of the
first still under way at the other end. `ChanSize` and `MaxInFlight` of 1 in `lifecycle`
make the loop wait in `Offer` and the application in `Encode`. In `framing` two messages are
enough for one to be taken for part of the other, and any cut between units happens; a third
would meet a decoder in a state it has been in. In `jsMux` three bytes against a window of
two overrun it, two channels make a hole and a reuse of its place, and pairs of the two
implementations are the only difference between the ends; where an Open is refused either
session may also be closed, before or after the refusal comes. In `rpc` each setting isolates a
question: handlers, replies that span data messages, handlers that give nothing, replies that
nobody wants, overlapping paths, sessions that end,
mocks, throws, objects. In `serving` two loops and two clients make loops wait
for sessions and sessions for loops, and closing twice is once more than `closer` has room
for. What the proofs cover does not depend on the bounds at all.

**Deadlock** is not checked in runs whose system really stops: when everything is written and
closed nothing is left to do. That nothing stops too early is what the liveness properties
show.

**Fairness** (`FairSpec`). In Go weak fairness of each goroutine that has begun something: the
scheduler runs what can run. In `Channel` reading is fair because the users of a channel read
until `io.EOF` (`rpc/codec.go` reads in `Decode`; `io.Copy` and `ioutil.ReadAll` in the
tests); in `Session` `Accept` is fair because `Server.Respond` calls it in a loop until
`io.EOF` (`rpc/server.go` 13-24). A writer that waits for the connection is served because
the loop at the other end keeps decoding. In JavaScript the event loop turns: in `JsMux` weak
fairness of what follows an awaited write, of the end of a loop and of taking in a message; in
`Framing` of delivering, of the handlers of `close` and `end`, and of the decoder; in `Rpc`
and `Serving` of everything but the application's own choices (`Runs`). Handlers of calls are taken to
return. Nobody is obliged to open, write, close, dial or end anything.

### What the violated runs say

- `openHang`. An `Open` that adds its channel after `dropAll` (session.go 164) and encodes
  before `conn.Close` (168) waits on a `ch.msg` that nobody closes. `OpenAnswered`, which
  holds, is the same without the end of a session. In JavaScript every `open` that comes after
  the loop's end hangs.
- `earlyClose`. `handleOpen` gives the channel to `Accept` (session.go 213) before it
  writes `OpenConfirm`. If the application closes it in between, `Close` overtakes
  the confirmation: the opener, which does not know the remote number yet, answers with
  number 0, gives its own number to the next `Open`, and the late confirmation arrives
  there.
- `jsPeerClose`. In JavaScript the end that answers a `Close` calls its own `close`, which
  waits at `ready` for a `Close` that has come already. It never shuts the channel down.
- `rpcError`. `api.go` 29: "No data may be sent after this call". `Write` encodes its
  message itself (channel.go 91) and never looks at `sentClose`. A call in Go that is
  answered with an error before its arguments are written sends them after its `Close`, and
  the responder, which has forgotten the channel, ends its session with "invalid channel".
  `OnlyLateDataKills` shows that nothing else does so: `EOF`, `WindowAdjust` and `Close`
  are never late. In `Session` with the habit `"writeLate"` the data may also reach the
  channel that has taken over the number.

Each is a disagreement between the code and a sentence in the repository; `PROJECT.json`
quotes it.

## 4. The theorems

A theorem holds for every value of the constants that the assumptions of its module allow:
any number of channels, messages, calls, clients, loops and Opens, any window, packet and word size, any
amount of data, any capacity of the connection, any handlers, binds and objects.

| Theorem | Module | Property | Hypothesis |
|---|---|---|---|
| `Invariance` | `ChannelProofs` | `IInv` | |
| `TypeCorrect` | | `TypeOK`: among others, no `uint32` window goes below zero or wraps | |
| `NoFlowControlError` | | `FlowControl`: the three flow-control checks never reject what this code sends | |
| `WindowsBounded` | | `WindowBounded`: the comment in `adjustWindow` (channel.go 142) is right | |
| `StreamInOrder` | | `InOrder` | |
| `EndAfterData` | | `EofAfterData` | |
| `Refinement` | | `ImplementsStream`: every step of `Channel` is a step of `Stream` or a stutter | |
| `LateDataOnly` | | `OnlyLateDataKills`: "invalid channel" never answers an `EOF`, a `WindowAdjust` or a `Close` | `[]WritesFitWord` |
| `ListInvariance` | `SessionProofs` | `ListIInv` | |
| `ChannelList` | | `ListInv`: `ch.msg` is closed once, no channel is lost from the list, none is left open when `Wait` returns | |
| `RouteInvariance` | | `InTurn`: `RouteInv` in every setting without habits | |
| `MessagesRouted` | | `Routed` | `NoHabits` |
| `SessionsSurvive` | | `NoStray` | `NoHabits` |
| `OpensAgree` | | `OpenAgreed` | `NoHabits` |
| `SoundInvariance` | `JsMuxProofs` | `Sound` | |
| `CloseIsLast` | | `NothingAfterClose`: nothing follows a channel's `Close` on the wire | |
| `PairedInvariance` | `JsMuxPairedProofs` | `IInv` of `JsMuxPaired` | |
| `ArrayIsRight` | | `ListInv` | |
| `MessagesAreRouted` | | `Routed` | |
| `BytesInOrder` | | `ReadsInOrder` | |
| `EofIsTheEnd` | | `EofMeansAll` | |
| `LoopsSurviveOrder` | | `OnlyOverrunKills` | |
| `EndIsTold` | | `EndTellsAll` | |
| `Invariance` | `FramingProofs` | `FramingInv` | |
| `TypeCorrect` | | `TypeOK`: among others, the packet being read has the length its stage calls for | |
| `Decoded` | | `DecodedAsSent` | |
| `StopsFor` | | `StopsOnlyWhen` | |
| `Invariance` | `RpcProofs` | `RpcInv` | |
| `TypesHold` | | `TypeOK`: among others, the caller's codec decodes no more than two frames | |
| `LoopsGoOn` | | `LoopsSurvive` | |
| `Answers` | | `AnswerIsHandlers` | |
| `FailsForReasons` | | `FailsOnlyWhen` | |
| `Hijacked` | | `HijackedOut` | |
| `ServingInvariance` | `ServingProofs` | `ServingInv` | |
| `ServingTypes` | | `TypeOK`: among others, nobody waits at a queue that has something in it | |
| `ServedOnceInOrder` | | `EachOnceInOrder` | |

**The hypotheses.** `WritesFitWord` says that what a `Write` has left is always less than 2^32
bytes, however much is written in all: `min` (util.go 9) converts the length to `uint32`, so
when a multiple of 2^32 bytes is left `Write` reserves nothing and sends empty data messages,
which no window restrains. `NoHabits` says that
in every setting the acceptor touches a channel only once its confirmation is written and
nobody writes after `Close`. Without it the three properties are false: `earlyClose` is the
counterexample to `Routed`, TLC refutes `NoStray` and `OpenAgreed` on the same instance, and `rpcError` shows who writes late. (`InTurn` says the
same of each setting by itself.) `ListInv` and `NothingAfterClose` need neither: they hold
whatever applications do.

**`Channel`.** `FlowControl` is far from inductive. Let `e` read what `o` writes. A byte
is in one place at a time: reserved by `o` or written, on the wire, in `e`'s buffer,
taken by `e`'s `Read` but not yet counted in `myWindow`, counted but not yet told to `o`,
told and on the wire, or credited to `remoteWin`. Instead of sums over the wire, `IInv`
uses the stamps of its messages: `WireInv` says that the messages under way join,
without a gap, what `e` has received and been credited to what `o` has sent and given
back. Then three equations do the rest:

- `WindowAccounted`: window + buffered + taken and not yet counted = initial window;
- `CreditCovered`: window of the writer + reserved + sent <= initial window + credit received;
- `AdjustCovered`: credit received <= credit sent <= bytes taken from the buffer.

When a data message of `n` bytes is at the head of the wire, its stamps give
`sent >= received + n`, and the three give `n <= myWindow`. `LoopConsistent` with
`FinSent` carries `EofAfterData`: the buffer is closed only by an error or after the end
mark of the peer was decoded, and what comes before the mark on the wire has been
decoded. `ReservationFits` keeps a message within the packet size. Each action has one
lemma; the inductive step puts them together.

`OnlyLateDataKills` needs to know when a channel is out of the list: only after its `Close`
was decoded, and `channel.send` lets nothing but data follow a `Close`. What is left on the
wire behind a `Close` is therefore data that was written after the end mark, if it is not
empty; that a data message is never empty is where `WritesFitWord` is used.

**`Session`, one end.** `ListIInv` says where a channel is at one end: in the list at the place
its number says, or on its way into it (`Opening`) or out of it (`removing`, `doomed`), or
closed. `KnownInv` and `LocatedInv` are the two directions of that; `ClosedInv` makes the
places exclude each other, from which `ch.msg` is closed once; `AfterDrop` says what `Open` may
still add after `dropAll`, the one case in which a channel is listed in a session that has
ended. It asks nothing of the peer: messages may come for any number.

**`Session`, both ends.** `RouteInv` says that every message on the wire to an end that still
reads finds the channel it was sent on (`Delivered`). A number is reused as soon as it is free,
so what has to be shown is that it is free only after the last message to it was handled:
`CloseLast` (nothing about a channel follows its `Close` on the wire), `EndedByBoth` and
`ClosingInv` (who takes a channel out of the list has sent its own `Close` and decoded the
peer's). The first messages need the other end: `ConfirmFirst` (nothing precedes the
confirmation), `NumbersAgree`, and `OpenReachable` (an Open that waits for its answer keeps its
number). `InTurn` is inductive together with `ListIInv`.

**`JsMux`, one end.** `Sound` is what each end knows for itself. `Refers` says that every index kept in
the array of channels, in `incoming`, in `pending` and in `remote` is that of a channel there
is; `Local` relates the fields of a channel, among them that what has been read and what waits
in `readBuf` is what has been taken out of the window, and that a `close` that awaits something
has set `sentClose`; `Quiet` says what is on the wire. `close` and `handleClose` both test
`sentClose` and set it before they await anything, so whichever comes first sends the only
`Close`, and every other sender tests it without an await in between.

**`JsMux`, both ends.** `IInv` is `Sound /\ (ClosedTwice \/ Paired)`. `Paired` has three parts,
each said of either end against the other:

- `Numbered`, whose numbers are in a message. Two channels know each other, or the one that
  was taken in knows the other and has a `Confirm` under way (`Joined`); an `Open` is for nobody
  yet, a `Failure` is for a channel that nobody was made for, and all else goes to the channel
  its sender knows (`Addressed`); an `Open` is taken in once (`Single`) and refused once.
- `Closing`, when a channel may leave the array. Once its peer's `Close` is decoded nothing
  more comes for it (`Over`); until then, or until its `Failure` is decoded, it is in its place
  (`Listed`). Hence the message at the head of the wire finds its channel.
- `Carried`, where the bytes are. The data messages under way join what a channel's peer has
  received to what the channel has sent, each beginning where one before it ends (`Flow`); no
  data follow an `EOF` (`DataFirst`); who has decoded an `EOF` has all the data (`HasAll`); what
  is read and what waits in `readBuf` is a beginning of what was sent (`Buffered`). A channel
  that has sent more than its peer's window had is excepted, as the properties except it.

A second `close` of a channel shuts it down although its peer's `Close` is still to come: the
number is then free in the array while messages for it are under way, and `Paired` is false. That
is what `ClosedTwice` excepts, and it never becomes false again (`AllRemember`). The loop dies
of a message it cannot place or an overrun (`Blame` names the cases); under `Paired` only the
exceptions of `OnlyOverrunKills` are left. `EndTellsAll` follows from `Listed` and from `Local`.

**`Framing`.** All the units that were written are one stream `s`, in which message `k` ends at
`at[k]` (`Stream`). As long as the decoder goes on at a conn that has lost nothing it took in
(`InStep`), the packet being read, the conn's buffer and what is on its way follow each other in
`s`, from the end of the last message decoded (`Follows`). So a packet that is whole is the next
message, and reading its fields in the decoder's order gives back what the encoder put there:
that is said once for each shape of message, and is where the tables of the implementations must
agree (`Shapes`, `Rebuilt`). A packet that is not whole never has the length of one, as `TypeOK`
says how long it is at each stage. The rest is about how a conn comes to its end: `ConnInv`
relates what it was told to what the other end did, `ShortInv` says when a read may return less
than was asked for, and `ClosedInv` that a conn over a WebSocket which closed in order had given
everything to its decoder. The assumption `MessagesAssumption` is what both applications
guarantee: the fields of a message are numbers, and data has the length it announces.

**`Rpc`.** `RpcInv` is said of one call at a time, as calls share only the handler table and the
session. Its parts follow a call through its life and a reply through its places:

- `Fresh`, `Asking`, `Serving`, what the caller and the responder have done, and have still to
  write: before the channel is open nothing, and a handler that has not run has no reply.
- `Closing`, which `Close` has been sent, is under way or has been heard, at each side.
  `Closed`: it is sent once, and only Go writes behind it (`late`). `Shut`: a channel is
  gone only because the session ended, or a `Close` of the peer came and nothing in order is
  behind it, or a function of qrpc threw. `Told`: Go answers a `Close` before it takes in
  anything else, so who is late has told it already. `First` and `Answering`: nobody closes
  before the caller is past its reply or the responder has written everything. That a loop
  finds the channel of what it decodes (`LoopsSurvive`) is a part of `RpcInv` and rests on these.
- `Carried`, where the parts are. `RequestRead` is the request as a responder in Go takes it in.
  The reply is a list fixed by what the handler did (`PartAt`, `MessageAt`: sizes, bodies, the
  rest of a value that spans messages, then what a handler writes after it hijacked the
  channel). `Replying` says that there is a number `d` of messages that have come: what the codec
  has read and what waits in its channel are the parts of these, what is on the wire
  begins with message `d + 1`, and what is yet to be written is the rest (`ToWrite`). `Silent`
  says that nothing comes before a handler ran; `Decoding` and `Counted`, what the codec's values
  can be at each stage of the caller; `AtLast`, that Go is told of the end when it has read
  all; `Noted`, `Unmarked` and `FailsBecause` relate what the caller has concluded to what the
  handler did.

A caller that has met the end of its channel in the middle of a frame, a frame that Go cut, the
empty frame of `undefined` to who reads it in JavaScript (`TookEmpty`), and functions that throw do
not know where in the reply they are: `Lost` excepts them, as the properties do. Each action has a lemma that says what it does to one call in terms of these
parts, and one that it keeps them. TLC checked every part on the settings of `rpc` before it was
proved; the proofs then found two things the instance had not: `Init` must bind only handlers
that the implementation has, since a thrown value of qrpc means nothing to Go
(`IsSetting`), and `HijackedOut` fails for a hijacked call in Go whose reply spans data
messages, because the short read that cuts it (`Cut`) leaves the rest for the application. `Spans`
now has such a call, and the property excepts it.

**`Serving`.** `Line` says of each queue that what has come to it is, in this order, what a loop
has taken, what was handed to a loop that has not gone on, and what is in it; who was handed
something later was told of the end. `push`, `shift` and `close` keep that for any number of
waiters (`PushLine`, `ShiftLine`, `CloseLine`), and so does a loop that goes on (`GoesOnLine`).
In Go, where nothing is queued, `AcceptedInv` and `OneAtATime` say which sessions wait at a
goroutine. `ComesOnce` adds that nobody is connected twice. The invariant was checked by TLC
on the instance of `serving` before it was proved, as the others were on theirs.

**What is only model-checked.** All liveness: the prover has no rule for fairness and
`ENABLED`. `HandleReaches` of `Rpc`, which says of one step which handler runs. Facts that need
induction over data or `RECURSIVE` operators are outside the prover's reach; the modules use none.

## 5. What is not modelled, and the plan

Done: `Channel`, `Stream`, `Session`, `Framing`, `JsMux`, `Rpc`, `Serving`, and the proofs above.
Of the safety properties only `HandleReaches` of `Rpc` is left to prove.

Not modelled:

- several waiters on one `Cond`: `buffer` wakes one with `Signal` (util.go 110, 119), so `eof`
  with two readers of a channel leaves one asleep. No code of the repository reads a channel
  from two goroutines;
- several goroutines in `Accept` of one session, of which `closeCh`, with room for one value, tells
  one that the session has ended;
- a writer that waits for the window when the connection breaks (`WriteReturns` is checked of one whose
  peer closes the channel, which goes through the same `channel.close`);
- two ends that both open while both `incomingChannels` are full: in `lifecycle` one end opens;
- a write of 2^32 bytes: `min` (util.go 8-13) converts `len(data)` to `uint32`, so a slice of
  such a length reserves nothing. Listed as a hazard; in `Channel` a `Write` is shorter than
  `Word`;
- what a handler reads from a channel that it has hijacked and handed on;
- `export.go` (reflection, no state), the Go object manager and the message bus (both written
  against packages that are no longer in the repository), the Python port (incomplete, and
  nothing beyond the Go mux), `MockListener` (gives out one session), dialers of Go and
  `Listener.Addr` (one call each), bundles and examples.

Deliberate abstractions of what is modelled:

- a data race on `sentEOF` is a read in either order, as every value it can give is a bool
  that was or will be there;
- the Go loop's own writes always find room in the connection (two full directions stop both
  loops in `Encode`; a hazard that needs the transport's buffers);
- `session.Wait` is the loop's place `"done"`; contexts are not used by the mux;
  `waitWriterBlocked` is for tests;
- `readPacket` in Go calls `Read` once for the rest of a message; a short read leaves zeros and
  moves what follows. `Framing` has that, and its properties exempt what follows it
  (`GoReadShort`);
- the libraries are modelled from their use: Node's sockets by `read`, `readable`, `end` and
  `close`; `ws` by its events, with `WebSocket.Server.close` ending its clients; a `ws`
  packet may be cut up, which it never is;
- with mock sessions the properties of `Rpc` that speak of closing hold while both sessions
  live: `MockSession.close` does not tell the other one.
