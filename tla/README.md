# Formal verification of magilla

magilla is a WebSocket library for Go (RFC 6455, permessage-deflate of RFC 7692,
WebSocket over HTTP/2 of RFC 8441), a fork of gorilla/websocket. This directory
holds TLA+ models of its concurrent and stateful parts, TLC configurations that
check them on small instances, and proofs that hold for every instance.

Paths below are relative to the repository; line numbers are those of the commit
the models were written from. `PROJECT.json` maps every definition to its lines.

## 1. The system

### Components

| component | source | state it keeps | operations | what is hard | what makes it correct |
|---|---|---|---|---|---|
| Connection, write half | `conn.go` 198-1175 | `writeMu`, `mu` (channels that hold a token), `writeErr`, `writeDeadline`, `writer`, `writeBuf` and its pool | `NextWriter`, the writer's `Write`, `WriteString`, `ReadFrom`, `Close`, `WriteMessage`, `WritePreparedMessage`, `WriteControl`, `SetWriteDeadline`, `Close` | many goroutines, two locks with deadlines, a peer that stops reading, errors half way | mutual exclusion, no lost or doubled token, buffers back to the pool once, fragments never interleaved, nothing after a close frame or a torn frame, honest results, no hang with deadlines |
| Message writer | `conn.go` 709-1079 | `pos`, `frameType`, `compress`, `err`, UTF-8 state | `flushFrame`, `payloadRoom`, `ncopy`, fast paths | boundaries of buffer, cap and fast path; calls mixed on one writer | the frames carry the bytes given, parse as one message, are masked by clients |
| Connection, read half | `conn.go` 1179-1660 | `br`, `readRemaining`, `readFinal`, `readLength`, `readErr`, `readErrCount`, `messageReader`, UTF-8 state | `advanceFrame`, `NextReader`, `Read`, the handlers | bytes arrive piecemeal; deadlines and the end of the stream strike anywhere; discarded messages; control frames between fragments | never out of step, whole messages only, limit and UTF-8 enforced, the peer told once, errors permanent |
| Close handshake | `conn.go` 393-450, 589-658, 1681-1714 | both ends' `writeErr`, `readErr` | `CloseGracefully`, default handlers, `Close` | both sides close at once, full pipes, resets | one close frame, the last one; both sides get the other's; it ends |
| Context-aware calls | `conn.go` 497-522, 1082-1145, 1562-1645 | watchdog goroutines, the deadlines of the `net.Conn` | `WriteMessageContext`, `NextWriterContext`, `WriteControlContext`, `NextReaderContext`, `ReadMessageContext` | a watchdog that fires while its call returns, or hits another goroutine's | no past deadline outlives its call, no message is lost, a cancelled read returns |
| permessage-deflate | `compression.go` | pools, per-connection compressor and window | write and read wrappers, `truncWriter`, takeover factories | double close, discarded messages, both ends' windows in step | no pooled object is shared, windows equal |
| UTF-8 automaton, masking | `utf8_dfa.go`, `mask.go` | state and code point; position in the key | `utf8DFAStep`, `maskBytes` | tables; words at any address | agree with their definitions |
| Prepared messages | `prepared.go` | a map of frames filled by `sync.Once` | `NewPreparedMessage`, `frame` | concurrent first uses | the frame of the right kind |
| JSON, JoinMessages | `json.go`, `join.go` | the current reader | `ReadJSON`, `Read` | take a part of a message | the rest is discarded |
| Upgrader | `server.go` | - | `Upgrade` | a dozen steps that can fail, deadlines, early bytes | nothing leaks; both ends agree on compression and subprotocol |
| Dialer | `client.go` | - | `DialContext` | timeouts, proxies, TLS, fallback | nothing leaks on a failed dial, it returns in time |
| Proxies | `proxy.go` | - | `CONNECT`, SOCKS | a silent proxy | part of the dial |
| HTTP/2 transport | `h2.go` | stream context, timers, `deadlineExceeded`, `closeOnce` | `dialHTTP2`, `upgradeHTTP2`, `h2StreamConn` | watchdog against `RoundTrip`, timers against `Close` | blocked I/O ends, errors are told apart, nothing leaks |
| Header parsing | `util.go` | - | `parseExtensions`, `tokenListContainsValue` | quoting, white space, anything out of order | what is in order is found |
| Chat example | `examples/chat` | the hub's set of clients, a queue per client | hub, `readPump`, `writePump` | slow clients, pumps that end in any order | no panic on channels, order, both pumps end |
| Other examples | `examples/*` | - | | uses of the library | |

### How they interact

The opening handshake (`DialContext`, `Upgrade`, or their HTTP/2 twins) decides the
subprotocol and how each direction is compressed, and hands over a `Conn`. The
application calls it from one reading goroutine and any number of writing
goroutines. The write half serialises messages with `writeMu` (held from
`NextWriter` to the end of the message) and frames with `mu` (held around each
`net.Conn.Write`). `WriteControl` takes `mu` only. The read half calls the write half: the
default ping and close handlers, protocol errors, the read limit and invalid UTF-8
all send control frames through `WriteControl`, ignoring its errors. Reader and
writer wrappers are stacked on the bare ones: a UTF-8 validator on top of a
(de)compressor, whose window or pooled object lives on between messages. Calls with
a context run a goroutine beside them that sets a deadline in the past. Under all of it is a
`net.Conn`, or an `h2StreamConn` that imitates one with timers.

## 2. Modules

| module | models | extends / uses |
|---|---|---|
| `FrameStream` | abstract: what a peer may rely on in the frames of one connection | |
| `ConnWrite` | write half, step by step, any number of goroutines | refines `FrameStream` |
| `ConnRead`, `MCConnRead` | read half, byte by byte | `Text` |
| `CloseHandshake` | two connections closing over finite pipes | |
| `ReadContext` | `NextReader`, with and without a context, and the calls built on it | |
| `WriteContext` | the write calls with a context, and their watchdogs | |
| `Contexts`, `MCContexts` | both kinds of calls with a context | `ReadContext`, `WriteContext` |
| `H2` | dialling over HTTP/2, and `h2StreamConn` on client and server | |
| `Negotiation` | what the ends make of each other's headers: pure operators | |
| `Handshake` | `DialContext`, `Upgrade` and the two ends of an extended CONNECT | `Negotiation` |
| `Compression` | messages in both directions: compressors, windows, pools, prepared messages | `Negotiation` |
| `Session`, `MCSession` | a connection from its handshake to its messages | `Handshake`, `Compression` |
| `Text` | bytes of text in three kinds, and the automaton on those | |
| `MessageWriter` | how one message becomes frames | `Text` |
| `Masking`, `Utf8`, `TruncWriter`, `Headers` | one algorithm each, loop by loop | |
| `Codec`, `MCCodec` | the five of them in one specification | the modules above |
| `ChatHub` | the chat example | |
| `ConnWriteProofs`, `ConnReadProofs`, `CloseHandshakeProofs`, `ContextProofs`, `SessionProofs`, `CodecProofs` | theorems about the modules they are named for | |
| `ServiceProofs` | theorems about `H2` and `ChatHub` | |
| `TextProofs` | lemmas about folds over sequences of any length | `Text` |

`Contexts` and `Codec` compose parts that share no state: the two halves of a
connection have deadlines and watchdogs of their own, and the algorithms do not
call each other. A behaviour runs one part (`half`, `job`) and the others rest, so that the states
add up instead of multiplying. `Session` composes parts that do interact: what the
handshake has negotiated becomes the mode of every direction.

### Correspondence

**ConnWrite.** Each goroutine runs one call at a time; `pc` says which step comes next: wait
for `writeMu`, begin, a writer left open in the hands of the application, wait for
`mu`, check `writeErr`, the write itself, the latch of an error or of the close frame, unlock, end of the message. A
lock is a Boolean, "the token is in the channel". A frame is a record of its
message, its kind and FIN; the payload is left to `MessageWriter`. A deadline is none, still to
come, or past; time is an action that makes it past. `ExpireWait` and
`NetWriteFails` let waits and writes fail, `NetDown` is `Conn.Close` by anyone.

**ConnRead.** The peer follows a script of frames, legal and illegal. A frame is
a sequence of units that arrive one at a time: two header bytes, one unit for
extended length and mask key together, and the payload bytes. Whatever the parser
consumed is gone when a deadline strikes, just as `bufio.Reader.Discard` has it. Replies through
`WriteControl` are a best effort: they may fail, and do once a close frame went out.

**CloseHandshake.** Per side a reading goroutine with the default handlers, and a
writing one. It may call `CloseGracefully` with or without a deadline. Pipes are
bounded queues; closing a connection with unread frames may destroy what it sent (a TCP reset).
The two steps of a write under `mu` are kept; the finer ones are in `ConnWrite`.

**ReadContext.** The stream is a sequence of headers, payload bytes and pongs; `bufio.Reader`
fetches one unit at a time from the `net.Conn`, which fails once its deadline has
passed. `watcher` is the goroutine of `NextReaderContext`. Contexts are cancelled,
or their deadlines pass, at any moment; the application may set a read deadline, also from its
pong handler. `ReadMessage`, `ReadMessageContext`, `ReadJSON` and `JoinMessages` are told apart by having a
context and by taking a message to its end or not.

**WriteContext.** The calls that take a context, beside calls that take none, on one
connection: `dog` is the goroutine of `installWriteContextWatchdog`, `netDl` the deadline of the
`net.Conn` that watchdogs, `Conn.write` and the stop functions all write to. What `ConnWrite` does in
six steps under `mu` is two here, which no watchdog can tell apart; everything else is one action per step.

**H2.** `DialContext`'s HTTP/2 branch, `dialHTTP2` with the watchdog goroutine, then the
stream, of the client or of the server, which differ in what their closer closes: the pipe and the
response body, or the request body alone. A deadline is none, running or expired; timers run in goroutines of
their own (`FireFlag`, `FireClose`). The HTTP/2 stream is external: as the comment in
`fireDeadline` says, closing it ends I/O in flight and cancelling its context
does not.

**Handshake.** The client is a list of the steps still to be made, built from its configuration
(`DialSteps`: TLS and proxy or not, where the deadline goes), since the code is one
sequence with `if`s; the server is a program counter. Headers are what their parsers make of them
(`Extensions`), requests a set of faults. Every step that does I/O may fail, and the network may fall
silent for good. Either end may be another implementation, which sends anything out of `Requests` or `Responses`.

**Compression.** A direction has a writer, a queue of messages and a reader. DEFLATE is external and
modelled by what makes it go wrong: a symbol is a literal, or the distance to its last occurrence in the
window, so a reader whose window differs delivers another symbol or fails. `pool` counts how
often each pooled object is in its pool. Prepared frames are filled in two steps, as `sync.Once` lets others wait in between.

**MessageWriter.** One message, chosen configuration (client or server, cap,
compression, validation). The buffer is the sequence of its bytes; `payloadRoom`, the
fast paths, `ncopy` and `ReadFrom` are as in the code. A frame that goes out is
appended to `wire`; it may also fail. Bytes are of three kinds: "a" is a character, "l" needs "t" after it.

**Masking** follows which byte of the key meets which byte of the payload. **Utf8** has the
table and the step of the automaton, byte by byte. **TruncWriter** numbers the bytes that the compressor
writes. **Headers** has the loops of the two list parsers, on characters. A header is given as what its sender means (lines of
elements with parameters, the blanks and quotes it chose, and what is out of order at the end of a line); `LineText` writes it out for the parser, `Meant` is what is to be found in it.
Who writes `=` writes a value, and who opens a quote closes it: other lines are not among the inputs.

**ChatHub.** Hub, and per client a `readPump` and a `writePump`, over a connection that
is open, closing (a close frame went out), failed or closed.

## 3. Runs

| run | instance | shows | distinct states |
|---|---|---|---|
| `conn_write` | 2 goroutines, one call each of any kind, with and without deadlines, a pool, a peer that may stall | types, locks, buffers, honest results, latched error, refinement of `FrameStream`; `WriteControl` never waits for a message writer, with deadlines every call returns | 130 000 |
| `conn_write_starvation` | the same | **finding 1** | |
| `conn_read` | all 2380 scripts of up to 3 frames out of 13 kinds, limit 2 | the parser keeps its place; whole messages, limit, UTF-8, replies, permanent errors | 940 000 |
| `conn_read_timeout` | the same, going on after a timeout | **finding 2** | |
| `close_handshake` | pipes of 1 frame, 2 frames sent per side, all four mixes of deadlines and of reading | one close frame, last; both ends get the other's and results say so; `CloseGracefully` ends | 200 000 |
| `contexts` | reading: 2 streams, 3 calls; writing: 2 goroutines, 2 calls each; contexts with and without a deadline | no stale deadline of a watchdog, no message lost, honest results, a cancelled read returns | 2 200 000 |
| `write_context_usable` | 1 goroutine, 1 call, a context that is cancelled | **finding 4** | |
| `h2` | every dial and every accepted stream, then 2 deadlines set | no leak, no stray timer, errors told apart, blocked I/O ends | 150 000 |
| `h2_fallback` | every dial | **finding 3** | |
| `session` | every pair of compression modes with every way to select a subprotocol on both transports; every way to dial and to upgrade, with faults and silence, against this library or another; then 3 messages | nothing leaks, both ends agree, windows stay in step, pooled objects have one owner, a dial with a timeout returns | 910 000 |
| `codec` | see below | frames carry the message, masking, UTF-8, the held tail, parsed lists | 266 000 |
| `chat_hub` | 2 clients, queues of 1, 3 messages | no panic on channels, order without gaps, pumps end | 240 000 |

### Why the bounds are enough

* `conn_write`: two goroutines are one holder of each lock and one that waits; what a third would add is
  covered by the proofs, which are for any number.
* `conn_read`: three frames make a fragmented message with a control frame inside, a discarded
  message followed by another, and an error after either. Bodies of up to two
  bytes can be cut anywhere, and hold a whole character split over two frames. A limit of 2 can be reached and exceeded.
  `SpinLimit` is 1000 in the code, 2 here: what matters is that a good frame resets the count.
* `close_handshake`: a pipe of one frame is full as soon as there is a frame in it, which is what
  makes writers block; two frames per writer fill it and wait.
* `contexts`: a stream has pongs before and between messages and messages of none, one and two bytes;
  three calls leave a message half read, discard it and go on. One goroutine with a watchdog and one without, or two
  with, are all it takes for one's watchdog to meet the other's write; a second call meets what the first left behind.
* `h2`: two deadlines are one per direction, or one and its replacement.
* `session`: three messages fill a window and use it twice, or use a pooled object, discard a message and
  take the object again; a window of three symbols slides; two compressors and two decompressors are one per direction.
  Prepared messages and both directions mix with these.
* `codec`: a buffer of two bytes behind a header of one is filled exactly, under and over; caps of none, 1, 3 and 7 lie
  below and above it; a piece of seven bytes, more than twice the buffer with its header, takes the fast path. Pieces
  to be masked have up to 25 bytes, three words of eight and one over, at every address. Every first and second byte of a
  character is tried, and of the later ones the ends of every range in the table. `truncWriter` gets 14 bytes cut in every way.
  Lists have up to two parameters, quoted, escaped or bare, two elements, two lines, and one of six things out of order.
* `chat_hub`: a queue of one is full after one message; three messages drop a client and go on.

### Fairness

Goroutines are scheduled (weak fairness of each step), a timer that runs expires,
and a goroutine that waits for a token in a channel is served in turn, which is
what Go's channel queues do and what strong fairness of taking the token says. In `contexts` this is the reader and its
watchdog (`ReadFairness`), in `session` the client's goroutine and its timer (`HandshakeFairness`). Nothing is assumed of
the peer, of the network or of the application, except where a property says so in its
premise (`ControlReturns`: the peer keeps reading; `EveryCallReturns`: deadlines
everywhere and writers that get closed; `GracefulReturns`: the other side reads and no deadline fires; `CancelReturns`: no pong handler
sets a deadline over the watchdog's).

`CHECK_DEADLOCK FALSE` is set everywhere: programs end, and counters of calls are bounded.

## 4. Proofs

All theorems hold for every value of the constants, from the named ASSUMEs of the
modules alone: bounds are natural numbers, sets that are counted are finite, `Deadlines` and
the like have the members the code knows, `StreamsAssumption` (after a header come the bytes it
announces, unless the stream ends), `ConfsAssumption` (a configuration has one of the transports and modes there are).

**ConnWrite**, any set of goroutines:

* **Typing**: `Spec => []TypeOK`, action by action.
* **MutualExclusion**: `Spec => []LockTokens`. The inductive invariant `LockInv` says for
  each goroutine in a protected section that the token is out, that no other goroutine is in
  one, and, if the token is out, that somebody holds it. Each action moves at
  most one goroutine across the border of a section (`AppLock`, `CodeLock`).
* **ErrorStays**: `Spec => WriteErrLatched`. A goroutine writes only between its check
  of `writeErr` and the release of `mu`, and only a goroutine in that section changes `writeErr`; hence the
  invariant that a goroutine about to write sees `writeErr = "nil"`.
* **Implements**: `Spec => ImplementsFrameStream`, the refinement. The invariant says for each goroutine (`StreamAt`)
  that a continuation belongs to the holder of `writeMu`, and that the frame being latched is the last on the wire; a frame sent maps to a
  step of `FrameStream`, a failed one to its `Break`, everything else stutters. `OthersStay`: a step of one goroutine
  leaves what is said of the others.
* **BufferIsOwned**: `Spec => []BufferOwned`. The invariant speaks of whoever holds `writeMu`:
  a goroutine that has not begun its message, or sends a prepared one, finds the buffer
  and `c.writer` as the last message left them (`Between`), and a writer that has not
  ended is in the middle of its message (`Writing`).
* **HonestResults**: `Spec => []ReturnsHonestly`. For each place in a call the invariant
  (`Honest`) says what of the call's message is on the wire and what its error will say; `NoFuture`,
  that a call not yet made has no frame there.

**ConnRead**, any scripts of frames of any length, any read limit. `BaseInv` is kept by every step: the types, which call
runs when (`Calm`), and that the frame being parsed is a later one than all that messages have been given from (`InOrder`).
Each property has an invariant of its own on top of it:

* **PeerIsAnswered**: `AnswersPeer`, from `TellInv`: a pong is for a frame that is over, and `closeSent` is latched by the close frame written.
* **ApplicationIsGuarded**: `GuardsApplication`, from `GuardInv`: the automaton is in the state of the bytes delivered so far, and
  these together with what is left of the frame are within `readLength`.
* **FramesStayInStep**: `FramesInStep`, from `InStep`: at each program point the position in the stream is the end of a frame
  (`Off`, the length of a flattened prefix of the script) plus what the point says (`Placed`), except between a timeout
  and the next call.
* **MessagesAreDelivered**: `DeliversMessages`, from `DelivInv`, on top of the two before it: what the application has of
  the open message and what is left of the current frame make up what the frames so far hold of it (`Part`, a fold over
  the script). That a byte read is the next of its frame's payload follows from `InStep`.

Two of the hypotheses are about the flags, and each is needed: with `RetryTimeout` the parser does lose its place (finding 2);
with `EOFWithData` the other three properties fail, as TLC shows (section 5). `PeerIsAnswered` and
`ApplicationIsGuarded` hold with `RetryTimeout`, `FramesStayInStep` with `EOFWithData`.

**CloseHandshake**, pipes of any size and any number of messages:

* **CloseFrameIsLast**: `Spec => []CloseIsLast`. Not inductive alone: the invariant adds that
  whoever writes holds `mu` alone and has seen no write error (`Exclusive`).
* **EndsCleanly**: `Spec => []CleanClose`. As long as no deadline has fired, a side ends only by the echo of the other's close
  frame, which is the last thing in its pipe until it is read (`Clean`, `Announced`); for the result of `CloseGracefully`, a control frame is
  under way for a reason (`Reasoned`), and a nil result means that `writeErr` says the close frame is sent (`Kept`).

**Contexts**, any streams, goroutines and number of calls:

* **ReadKickEnds**, **ReceivedIsHandedOver**: `NoStaleReadKick` and `NothingLost`, from `RInv`. It ties the parser to the
  stream (`InPlace`: the units that remain of a message are bytes of it), the messages handed over to the headers taken
  (`Counted`, with `Heads` counting the headers of a prefix; `Measured` for what was delivered of the last one), and the watchdog to its call (`WatchEnds`).
* **WriteKickEnds**, **SentIsNil**: `NoStaleKick` and `CtxHonest`, from `WInv`: a past deadline of a watchdog implies a call whose
  watchdog has fired and is still to be stopped (`KickHasDog`), and what a call is about to return tells whether its frame has gone (`ErrTells`).

**H2** (`ServiceProofs`), any number of deadlines: **TimersBelong**, **ErrorsTell** and **FailedDialCleansUp**, from `H2Inv`,
which adds what each place in the dial has opened (`Opened`) and that a stream that has ended has a reason (`Ended`).

**Session**, any configurations, other implementations, payloads, directions and pooled objects:

* **PooledHasOneOwner**: `Spec => []OwnedOnce`. `Balance` says how the count of owners moves when one
  of them lets go and another takes; each operation of `Compression` is such a move.
* **NothingLeaks** and **EndsAgree**: `HandsOver` and `Agreed`. `HInv` says at each step of the client's list what
  is open (`ClientInv`), what a response carries (`Answered`) and what was adopted from it; for the server likewise.
  `SameCompression` is the lemma about `Negotiation`: for every pair of modes the client adopts the mirror image of what the server answers, and
  never rejects it.
* **WindowsStayInStep**: `Spec => []WindowsInStep`, for payloads and windows of any size. `Goes` says that a compressor, and
  whoever reads its tokens, comes from one window to another through a message: `CompressGoes` (the run of the fold, from `TextProofs`) and
  `GoesOn` (one token makes the symbol it stands for, and the next window). `DeflateInv` then has, for each direction, a decompressor that goes through the rest
  of its message (`ReadInv`), and with the context taken over a *chain* of windows: from the reader's through the rest of its message, the
  messages on the wire and the one being written to the writer's (`ChainInv`), until a compressed message is skipped. That nobody
  else touches a pooled window comes from `PoolInv` (`Sole`), that both ends begin in the same mode from `HInv` (`ConnectSteps`).
  It assumes a longest payload (`PayloadAssumption`: `Prepared` is one) and that `None` is no record (`NoneAssumption`); TLC evaluates both.

**Codec**: **MaskingIsExact** and **TailIsHeld**: `MasksOnce` for pieces of any length at any address (the
position in the key is right after every loop, because a word is a multiple of the key: `MaskInv`),
`TailHeldBack` for any number of bytes cut in any way (what was sent and what is held are adjoining spans of what was written: `TruncInv`).

* **PayloadIsPreserved**, **FramesAreWellFormed**, **OnlyValidTextIsHandedOn**: the three properties of `MessageWriter`, for calls, buffers,
  caps and pieces of any size, from `WriterInv`: whether the next frame is the first and carries rsv1 follows
  from `wire` (`NextFrame`), a failed writer stays failed (`WriterAtRest`), the bytes on the wire, in the buffer
  and still pending make up what was given, and the automaton has seen these (`TextSeen`).
* **AutomatonIsUTF8**: `AcceptsUTF8`, for bytes of all values. `CharInv` says what each state means: after the bytes so far *any* `n`
  continuation bytes make a character (`Sure`), or the one byte so far is E0, ED, F0 or F4, or no character is possible any more.
  `SureGrows` and `SecondByte` are the arithmetic of the intervals of scalar values.
* **ListsAreParsed**: `ParsesLists`, for any number of lines, elements, parameters and characters. `HeadersInv` says where the parser is
  (behind `j` lines, `i` elements of the next, `k` parameters of the next), that what remains is the text of the rest, and
  that what it has found is the meaning of what is behind it. The lemmas `QuotedIs`, `ValueIs`, `ParamIs` and `ItemIs` say what one turn
  of each loop takes off the text, `LinesRemain` the same for lines. It assumes that the inputs are headers as a sender
  means them (`ListsAssumption`); TLC evaluates that for those of the run.

The properties of `ConnRead`, `MessageWriter`, `Compression` and `Headers` are about folds over sequences of any length. `TextProofs` has what that takes: a fold of the community
modules is a choice of a function on the subsets of its domain; that function exists (`TableExists`), along the initial segments it is a *run*
(`TableRuns`), and a run over one element more extends the run before it (`RunsExtend`); `FromNext` and `FlatHead` take a sequence of texts apart from its front. Induction is done on the
set of numbers for which a statement holds (`InductNat`, from the well-foundedness of < on the numbers), since the library's theorems that take an
operator as a parameter cannot be used.

**ChatHub** (`ServiceProofs`), any clients and queues of any size: **HubNeverPanics**
(`NoPanic`, strengthened by: a client that has not registered is unknown to the hub),
**CountStaysRight** (`CountedMessagesThere`: the hub only appends, and nobody else takes) and **NothingSkipped**
(`InOrder`: delivered, taken and queued messages together follow each other in the log: `OrderInv`).

Model-checked only: every liveness property (`ControlReturns`, `EveryCallReturns`, `GracefulReturns`, `CancelReturns`, `BlockedIOEnds`, `DialReturns`,
`PumpsEnd`), since temporal proofs under fairness are out of the prover's reach.

## 5. Findings

1. `conn.go:556`: a writer that holds `writeMu` waits for `mu` without regard to its
   deadline, against `conn.go:260-261` (`conn_write_starvation`).
2. `conn.go:1398`: going on after a timeout of `NextReader`, as `CHANGELOG.md:22` and the comment invite to,
   may parse payload as a header (`conn_read_timeout`).
3. `h2.go:468`: `HTTP2Auto` does not fall back when the peer speaks HTTP/2 without
   Extended CONNECT, against `h2.go:41-44` (`h2_fallback`).
4. `conn.go:575`: a write that a cancelled context cuts off latches a write error like any other, so
   the connection is lost for writing, against `conn.go:1082-1084` (`write_context_usable`).

More properties are stated in the modules and violated by the code, without a run of their own; each
shows when it is added to the configuration named:

* `ConnRead!LimitMeansTooBig` (`ConnRead.cfg`; `conn.go:1302`): frames of a discarded message count towards the read
  limit of the next one, against `conn.go:1655-1657`.
* `ConnRead!DeliversMessages` with `EOFWithData = TRUE` (`conn.go:1520`): a `net.Conn` that returns `io.EOF` with
  the last bytes of a frame that is not final makes a truncated message look whole, against `conn_test.go:619`. `Read` returns
  `io.EOF` inside a message, so that `GuardsApplication` fails as well once a script ends inside a character, and `AnswersPeer`: the
  connection keeps another error than the one that `Close` is sent for.
* `Compression!DiscardsDoNoHarm` (`Session.cfg`; `compression.go:406`): with context takeover, a message that the application leaves
  half read leaves a hole in the reader's window, and the messages after it are wrong. `WindowsInStep` excepts just this.
* `WriteContext!CancelEndsCall` (`WriteContextUsable.cfg` with `FairSpec`): a watchdog that fires before `Conn.write` installs
  the deadline of the frame is overruled by it (`conn.go:566`), and the write then lasts as long as the
  peer does not read, against `conn.go:1081-1082`.
* `MessageWriter!FrameCapRespected` (`Codec.cfg`; `conn.go:925`): the fast path compares the argument with
  the cap and sends the buffered bytes with it.
* `MessageWriter!SentTextValid` (`Codec.cfg`; `conn.go:765`, `770`): `Close` on invalid text sends what there is as a complete message.
* `H2!PastDeadlineEnds` (`H2.cfg`; `h2.go:195`): a deadline in the past cancels the context only, which does not end a `Read` in flight.
* `H2!ServerWriteEnds` (`H2.cfg`; `h2.go:65-67`): on the server the closer closes the request body, so neither a deadline nor
  `Close` ends a `Write` that is blocked.

Noted while reading, and part of the models where they have the step:

* Over HTTP/1.1 a client with `CompressionModeDisabled` adopts permessage-deflate that a server answers without being asked;
  over HTTP/2 it ignores it (`Ignores`).
* Over HTTP/2 a client rejects the subprotocol it has named through `requestHeader` (`KnownProto`).
* `compression.go:76-78` and `server.go:229-231`: what the comments say of downgrading and of
  walking a list of offers; the code takes or declines the first usable offer (`Accept`).
* `Upgrade` with a `HandshakeTimeout` leaves a read deadline of the HTTP server as it is (`server.go:372-381`); `HandsOver` says so.
* `NextWriterContext` and `WriteMessageContext` leave the context's deadline in `writeDeadline` for the calls after them.
* `NextReaderContext` clears a deadline of the application, may return the network's timeout instead of `ctx.Err()` when
  both fall together, and does not govern the reads of `ReadMessageContext`'s `io.ReadAll`; a pong handler that sets a read
  deadline undoes the watchdog's.
* `DialContext` follows the cancellation of a context without a deadline only while it dials.
* `SetCompressionLevel` has no effect on a compressor that takes its context over once it exists.
* `WriteJSON` of a value that cannot be encoded still closes the writer, and so sends a message.
* A list in a header ends at an empty element, and a quoted value that is not terminated counts as empty (`util.go:240`).

## 6. Not modelled

* DEFLATE, TLS, TCP, HTTP/1.1 and HTTP/2 themselves: external.
* `CloseHandshake` leaves out the UTF-8 and protocol errors of `ConnRead`, and `ConnWrite` the
  content of frames; each is the subject of another module.
* SOCKS proxies (`golang.org/x/net`), cookies, tracing, the URL, `computeAcceptKey` and `generateChallengeKey`
  (hashing and randomness), the sizes of the buffers that `Upgrade` chooses: no behaviour that the models' properties could tell apart.
* JSON encoding: the standard library's. `WriteJSON` is `NextWriter`, `Write` and `Close`, as in `MessageWriter`.
* The other examples: uses of the library without a protocol of their own.
* Memory-model effects of misuse (two reading goroutines on one `Conn`).

## 7. Plan

1. `ConnWrite` and `CloseHandshake` over `h2StreamConn`, whose deadlines end the stream instead of one call.
2. An abstract call with a context that both halves of `Contexts` implement.
