# A formal model of the MIP clients

MIP is a small publish/subscribe protocol over TCP: a frame is a header of 24
bytes that begins with the magic number `MSIP`, and a payload. This repository
holds three clients of it, in TypeScript, Python and Rust. The server is not
part of it; here it is an environment that may send and end what it likes.

The modules in this directory describe what is hard to test in these clients:
what happens when the events of a connection, the calls of the program, timers
and tasks interleave. TLC checks the modules on small instances; TLAPS proves
most of the safety properties for every value of the constants.

Paths below are short for `mip-client-ts/index.ts`,
`mip-client-python/src/mip_client/__init__.py` and, in `mip-client-rust/src/client`,
`mod.rs` and `internals.rs`.

## 1. Inventory

### The parts

| part | state | operations | module |
|---|---|---|---|
| message identifiers (all clients) | a counter; the wall clock | `generateMsgId`, `_generate_msg_id`, `generate_msg_id` | `MsgId` |
| TypeScript life cycle | `socket`, `connected`, `options.autoReconnect`, `reconnectAttempts`, `reconnectTimer`, `pingTimer`, `clientId`, the promise of each `connect()` | `connect`, `disconnect`, the sending calls, the socket handlers, `handleClose`, `scheduleReconnect`, the timers | `TsClient`, abstractly `Session` |
| incoming frames (all clients) | the buffer, the stream behind it | `handleData`, `_read_loop` and `_handle_data`, `handle_data` | `Framing`, abstractly `FrameChannel` |
| Rust life cycle | the atomics `connected`, `running`, `reconnect_attempts`; `options.auto_reconnect`; the channel of 100 commands; three tasks for each connection | `connect`, `disconnect`, `drop`, the sending calls; the read, write and ping task | `RustClient`, abstractly `Session` |
| Python life cycle | `_connected`, `_running`, reader and writer, the read, ping and reconnect task | `connect`, `disconnect`, `_handle_close`, `_schedule_reconnect`, `_cleanup`, the loops of the tasks | `PyClient`, abstractly `Session` |
| encoding | bytes | `Header::encode` and `try_from`, `publish`, `parse_message` and their likes | `Codec` |
| outgoing frames | the channel or the socket's buffer | `subscribe`, `unsubscribe`, `publish`, `ping`, the ping task, the write task | `Sending` |
| callbacks of the Rust client | the lists of callbacks and the options, each behind a lock | the `on_` methods, the emitting parts of `connect` and of the read task, `process_frame` | `Dispatch` |
| callbacks of the other clients | lists and emitters on the one thread | called synchronously | within the life cycles |
| options, errors, messages, frame names | records | builders, lookups | none |
| example program, tests, packaging, workflows | none of their own | | none |

### How they interact

*The program* calls a client; the client calls the program back, for `connect`,
`disconnect`, `reconnecting`, messages and errors, always in the middle of a
handler of its own. A callback may call the client again.

*TypeScript* runs on one thread. Node delivers `connect`, `data`, `error` and
`close` of each socket, and the timers fire, one callback after the other. The
handlers are bound to the client, not to the socket that fires them. An
asynchronous `error` of a socket is followed by its `close`; the catch of the
promise of `connect()` runs in between.

*Python* runs on one thread too, and its tasks interleave at every `await`. Whoever awaits
a task that was cancelled gets its `CancelledError`.

*Rust* runs on several threads. `connect()` and `disconnect()` borrow the client
exclusively, the sending calls share it; the tasks share the atomics with them
and hold one end of the channel. A task that is aborted stops at its next
`await`, and the tasks of a connection that was replaced are detached. Callbacks
are called with the lock of the callbacks held, and the announcement of a
reconnection with that of the options as well.

### What is hard, and what should hold

- *Identifiers* are a sum of a clock and a counter read at two moments: they
  should be unique and follow the order of the calls.
- *Failed attempts* run two handlers (`error`, `close`) that both schedule a
  reconnection, and a timer that one of them clears: exactly one should be
  armed, and the limit should hold.
- *Late events* of an old socket, or of an aborted task, act on a client that has
  a new connection.
- *Programs* disconnect in a callback, connect twice, or send in `connect`
  listeners before HELLO was sent.
- *Disconnecting* should stop timers and tasks, send CLOSE first, and return.
- *A lost connection* should come back or be given up, and be announced once.
- *The stream* is cut anywhere, also inside a header, and may hold frames that
  are wrong: nothing should be repeated, reordered, made up or silently lost.
- *The channel* of the Rust client has a bound: what does not fit is refused or
  waits, and what was refused should not arrive, nor what was accepted be lost
  on a connection that stands.
- *A topic* has a length field of two bytes: a longer one should be refused.
- *Two locks* are taken in both orders: nobody should wait for ever, and no lock
  should be kept over a sleep, an abort or a panic.

`PROJECT.json` lists these hazards at their lines, each with the properties
that would catch it, or with the reason why none does.

## 2. The modules

### MsgId

`Take(t)` advances the counter, `Stamp(t)` reads the clock and returns; between
the two another thread may do either, and the clock may tick or be set back. The
variable `client` chooses the client in the initial state: `Scale` is what a tick
of the clock adds (1 for the microseconds of Rust and Python, `Millisecond` for
TypeScript), `First` the first count, `Callers` the threads that may ask (all of
`Threads` in Rust, `Main` in the others). `SetBackFor` names the clients whose
clock may be set back. `log` is a history of what was returned; `began`
notes how much of it a call could know of. A sum is not wrapped at 64 bits, which
the clock does not reach for thousands of years.

### Codec and Sending

`Codec` has no state: headers and payloads as sequences of bytes, as the clients
write and check them. They write the same 24 bytes; `Decodable` and `Decode` say
what each looks at and what it ignores. `Be16`, like the conversion in
`mod.rs:364`, keeps the low bytes of a number; `TopicFits` is the refusal of the
other two clients. `Base`, the values of a byte, is a parameter, so that a small
one shows what becomes of a number that does not fit.

`Sending` follows a call of the program or of the Rust ping task to the peer. It
extends `MsgId`, whose `Take` and `Stamp` are two steps of every call (`Begin`,
`Complete`), and `Codec`, whose `Encode` makes the frame. The frame goes into
`queue`: in Rust a channel of `Capacity` commands, which refuses a call of the program and lets
the ping task wait when it is full, in the others the buffer of the socket, which has no
bound. `Write` puts it on the `wire`, the peer decodes what is there with the
decoder of the same client. `Dropped` is a call whose frame nobody will take: Rust
reports it, the others return an identifier all the same. The connection is made
once and may be lost; `Notice` is the moment when `connected` is cleared, because of
that or before it, which the life cycles describe.

### TsClient

One action for each callback or call, the whole of it: `SocketClose` is the
`close` handler with `handleClose`, `cleanup` and `scheduleReconnect` inside it.
Sockets are modelled one by one, in slots that are free again after `close`, as
Node sees them: `connecting`, `open`, `closing` (an event `close` is still to
come). `Destroyed` is `socket.destroy()`. `SocketFailed` is `error` of an attempt
together with the catch in the timer, which runs before `close` does. `promise`
says who waits for the attempt. `hello` is what a server got first: HELLO with one
of two identifiers, HELLO right behind the frame of a `connect` listener (`late`), or
anything else (`other`). `dials` and
`gaveUp` remember reconnections. A listener of `connect` or of `disconnect` may call
`disconnect()` in every run: `SocketRefused` is `onConnect` with the former, an
alternative of `HandleClose` the latter. The switches in the constants say what
environment is assumed:

| constant | TRUE means |
|---|---|
| `OverlapConnects` | the program may call `connect()` while an attempt or a timer is pending |
| `LateClose` | an old connection may still be closing when the timer fires |
| `ServerSendsClose` | the server sends CLOSE frames |
| `QuitInReconnecting` | a `reconnecting` listener may call `disconnect()` |
| `ListenerSubscribes` | the `connect` listener subscribes, as the client's README shows |

`autoReconnect` is on to begin with; without it a client is what `TsClient` is
after `disconnect()`. Two live sockets are one more than a client can hold, and
three let an attempt overlap with them.

### FrameChannel and Framing

`FrameChannel` is what a client promises: callbacks get the frames of a
connection once each and in order, without gaps until an error is reported.
`Framing` is the loop over the buffer. Bytes are not modelled: the buffer is the
piece of the stream between the offsets `consumed` and `received`, and what is at
its front follows from the offsets where frames start. It is assumed that bytes
at no such offset do not look like the magic number. A read returns any number of
bytes. The variable `dialect` chooses the client in the initial state, since the
loops are the same and the reactions to a bad frame are not:

| | TypeScript | Python | Rust |
|---|---|---|---|
| wrong magic number | destroys the socket | closes the writer, keeps the buffer | empties the buffer |
| unknown type | passes the frame on | the exception ends the read loop | drops the header only |
| unknown version or kind | passes the frame on | passes the frame on | drops the header only |
| text that is not UTF-8 | passes it on | the exception ends the read loop, the frame stays | passes it on |

A frame has at most one of the four faults, since a client acts on the first it
meets. `Reconnect` is a new connection between two reads; `ListenerReconnects` is
a TypeScript listener that makes one in the middle of the loop, which then cuts
the frame off a buffer that is new and empty. Every parser refines `FrameChannel`
with the mapping `sent <- Len(frames), broken <- errors`.

### RustClient

The call that borrows the client is cut at its awaits (`main`), and so are the
three tasks of each connection (`reader`, `writer`, `pinger`), also between their
accesses to the shared flags: the read task leaves its loop, swaps `connected`,
calls `on_disconnect` and looks at the options in four steps. `queue[c]` is the
channel of a connection; `Send`, `Greet` and HELLO use `try_send`, CLOSE, the
Disconnect command and PING wait for room. `AfterAbort` says where an aborted
read task may come to rest: one that runs on another thread goes on to its next
await. `Cleanup` may happen at any time after `SendQuit`, since the 500 ms may
pass. `sent` and `downs` are histories. `StaleReaders` says whether a new
connection may be made while an old read task stands between its loop and its end.

### Dispatch

The two locks of the Rust client, which `RustClient` leaves out. A lock of tokio
lets several readers in or one writer, in the order in which they asked: `waiting`
is that queue, `holds` who is in. No writer awaits anything while it is in, so that
a write is one step. The calls of the program (`main`) ask for a lock in one step
and are let in in a later one; a read task goes through the lists that a frame is
owed (`todo`), one list a step, in the lock all the while. A wrong magic number or a
header that is not decoded calls `on_error` alone (`BadHeader`). `Aborted` and `Panics`
take a task away with its guards and its places in the queues. A callback is known
by its event only; what it does is its own. `WaitsFor(a, b)` says that `a` cannot go
on before `b` does: `b` is in front of it in the queue of a lock, or inside while a
writer is in front of `a` or is `a` itself.

### PyClient

The program's call (`main`) and the tasks of the event loop, each cut at its
awaits. A task in state `cancelling` was cancelled and has not run since. None of
the tasks catches `CancelledError`, so it ends at its next step, and `_cleanup()`,
which awaits it, raises. Hence `_cleanup()` either passes over tasks that ended by
themselves and returns at once, or raises at the first other one, `First`; the
exception ends `disconnect()` (`DisconnectRaises`) or the task that runs
`_handle_close()`. A `disconnect()` that gets past `_cleanup()` awaits the network
twice: `closing` is the `drain()` behind CLOSE, `waiting` is `wait_closed()`. A read task that runs it cancels and awaits itself. `source` is
the stream a read task waits for: the loop reads `_reader` anew each time. `Quiet`
says what the event loop guarantees: what is ready to run does so before a delay
ends and before `open_connection`, which takes several turns, is through.
`closers` counts the tasks that CLOSE frames of a connection have created and that
have not run. `pinging` is chosen in the initial
state, since with pings most of the life cycle ends in `_cleanup()` at the ping
task, and without them it does not. `OverlapConnects` is as in `TsClient`. That
`_cleanup()` raises, that the end of a stream goes unseen and that a bad frame
cancels its own reader was also seen by running the client against a local server.

### Session

What the three life cycles promise, in four variables: a reconnection is counted
only while one is wanted and up to the limit, only a connection makes the count start
again, and `disconnect()` is not taken back; where nothing overlaps (`Overlaps` is
FALSE) a connection that is up is not replaced and a reconnection is counted only
without a connection. Each life cycle implements it (`LifeSpec`) with the mapping at
the end of its module: `line` is the socket in TypeScript and the number of the
connection in the others. `Overlaps` is what the life cycle's own constants allow:
`OverlapConnects` or a late close in TypeScript, `StaleReaders` in Rust,
`OverlapConnects` in Python. The limit of Rust is one more than the option, since the
attempt that exceeds it is counted before it is refused. There is none where read
tasks may outlive their connection, with `StaleReaders` or with pings (section 3):
each of them adds one to the counter before it looks at it.

### How they compose

`Sending` composes `MsgId`, `Codec` and a connection. `Dispatch` and `RustClient`
are two views of one client: they share `connect`, `disconnect`, the read task and
the flags, one with the channel and the write and ping tasks, the other with the
locks and the callbacks. `ReceiveClose` and `ReceiveBadMagic` of `TsClient` are what
`Process` and `BadMagic` of `Framing` cause; `Reconnect` of `Framing` is `Dial` or
`Established`; the exceptions of `Undecodable` and `Process` are `ReceiveFails` of
`PyClient`. They share no other state.

## 3. What TLC checks

TLC's own test for deadlock is off everywhere: a program may stop calling, a server
may stop sending, and the bounds end every behaviour. The deadlock that threatens,
that of two locks, is an invariant of `Dispatch` (`NobodyWaitsInACircle`), and that
nobody waits for ever is its liveness property.

| run | environment and bounds | what it shows |
|---|---|---|
| `Sending` | the three clients, two threads, three identifiers, a channel of 1, bytes of 8 values, topics of 1, 2 and 65 bytes, the TypeScript clock set back | identifiers are unique on one thread and ordered; the peer decodes what was accepted, in order and with the identifier returned; a message is read as published, or, where Rust cuts the length of its topic, as that length says; every call ends; what was accepted arrives |
| `Dispatch` | two connections, a callback for messages and one for reconnections, a limit of one attempt | nobody waits in a circle, nor for ever, on the two locks; a frame sees one registration; nothing is announced after `disconnect()`; a lock is held by who needs it, and asked for by who wants it |
| `TsClient_any` | three sockets, a limit of two attempts, every switch TRUE | the counter keeps the limit, `isConnected` implies a connection, no client is stranded, HELLO precedes all that the program sends but for `connect` listeners |
| `TsClient_calm` | two sockets, calls at rest, `close` before the delay is over, CLOSE frames | the ping interval agrees with the connection; `disconnect()` is final, also from within a listener of `connect` or `disconnect`; a lost connection comes back or is given up; `connect()` is answered; `Session` is implemented |
| `TsClient_giveup` | as `TsClient_calm`, no CLOSE frames | **about half of the attempts are made** (finding) |
| `Framing` | the three clients, a header of 2, payloads of 0 and 3, 3 frames | the refinement, nothing held back, nothing lost in silence, nothing passed on behind a frame that ends the reading; good frames arrive, also with a listener that reconnects |
| `RustClient_any` | two connections, pings, a channel of 1, `StaleReaders` | `connected` is watched by a read task; a loss is told once |
| `RustClient_calm` | two connections, no pings, a channel of 2, a fair runtime | flags and tasks agree; HELLO first; CLOSE before FIN; a loss is announced; tasks end; `disconnect()` returns; `Session` is implemented |
| `RustClient_reconnect` | one connection | **a reconnection is announced and not tried** (finding) |
| `PyClient` | three connections, with and without pings, two CLOSE frames waiting, the program waits for a reconnection | a `disconnect()` that returns leaves nothing, and no reconnection follows it; old tasks do not live on, and a live stream is read; a loss is told once; every call ends, or waits for a server that keeps the connection; `Session` is implemented |
| `PyClient_disconnect` | two connections | **`disconnect()` raises and leaves the client connected** (finding) |
| `PyClient_loss` | two connections | **the end of a connection goes unseen** (finding) |

What is proved for every value of the constants and says little beyond another
property that is checked has no run: the type invariants, `ConnectedOnCurrent` and
`AbandonedOnlyByDisconnect` of `TsClient`, `GoodPrefixDelivered` of `Framing`,
`LiveStreamIsRead` of `PyClient` (for overlapping attempts), `NoReconnectAfterDisconnect`
of `TsClient` (for overlapping calls). TLC has checked each of them with the
constants of the runs.

### Why the bounds are enough

*Sending*: two calls break an order, three a chain of them; a channel of 1 is full
after one frame, so that a call is refused while another's frame waits; with
bytes of 8 values two hold 64, so that a topic of 65 does not fit and its length
is cut to 1; the clock matters relative to the counter. *Dispatch*: two locks taken in both orders need
two readers and a writer, which two read tasks and the program are; one that
replaces the other is the case of a task that outlives its connection. *TsClient*:
a third socket can only repeat what the
second does to the first; a limit of 2 distinguishes the first attempt, the last
and one in between, and the counters saturate above it (`AttemptCap`).
*Framing*: a header of 2 bytes is cut inside, a payload of 0 ends with its header,
and a bad frame may stand before, between and behind good ones. *RustClient*: two
connections give one that is replaced, a channel of 1 or 2 fills up, and one
attempt reaches the limit. *PyClient*: three connections give a task that is older
than the one that was replaced, and of two CLOSE tasks one runs late, when the
other has begun what it should not repeat.

### Fairness

Only what the code cannot prevent is fair. In `Sending`: threads run, the write
task is scheduled, the network delivers. In `Dispatch`: the runtime polls what can
go on, attempts are decided, callbacks return or panic. In `TsClient`: the operating system
decides every attempt, a closing socket says `close`, an armed timer fires, and a
server that has sent CLOSE ends the connection. In `Framing`: the network
delivers, the loop goes on. In `RustClient`: the runtime polls tasks that are
ready, a write is done or fails, and a server that got FIN ends the connection.
In `PyClient`: the event loop runs what is ready, attempts are decided, delays end
and the end of a connection is delivered, also to a `drain()` or `wait_closed()` that
waits for it (`Gone`). Neither has a time-out, and for as long as the server keeps the
connection and does not read nothing ends them: `CallsEnd` allows that wait and no
other. That a connection ends means that the server closed it; one that only shuts
down its sending half and reads no more is not told apart. All of it is weak: no step is waited for
that others can take away for ever. The program owes nothing: it need never call
`connect()` or `disconnect()`.

### Known deviations without a run

These were met while modelling and follow from the same modules with other
constants; they are outside of what the runs assume, and the reason why they
assume it.

TypeScript:

- `index.ts:473`: a `reconnecting` listener that calls `disconnect()` runs
  before the timer is armed, and the timer then connects
  (`DisconnectStops` with `QuitInReconnecting`).
- `index.ts:146`: after overlapping `connect()` calls `disconnect()` destroys
  the last socket only, and the first connects (`DisconnectStops` with `OverlapConnects`);
  both sockets then append to the one buffer.
- `index.ts:155`: what a `connect` listener sends goes out before HELLO, as it does
  in the example of the client's README (`hello` is `late`); `GreetedFirst` says that
  nothing else does. After overlapping `connect()` calls a socket may get a second
  HELLO (`again`).
- `index.ts:177`: the `close` of a socket that was replaced runs `handleClose` for
  the client: `connected` becomes false while the new socket is open (`LateClose`).
- `index.ts:158`: `clientId` becomes the identifier of the HELLO frame, and the
  next HELLO carries that; Python does the same (`__init__.py:262`).
- `index.ts:371`: after a listener called `disconnect()` the loop goes on with the
  frames that are left in the buffer.
- `index.ts:354`: the error of a wrong magic number is emitted before the socket is
  destroyed; the new socket of a listener that connects again is destroyed instead.

Rust:

- `internals.rs:37`: of two threads with successive counts the first may read the
  clock a microsecond after the second: both identifiers are the same sum
  (`Distinct` with two threads).
- `internals.rs:83`: a channel that is full is reported as `NotConnected`; the
  identifier of the call is spent.
- `internals.rs:145`: an aborted read task on another thread clears `connected`
  for the connection that came after it (`ReadingIsConnected` with `StaleReaders`).
- `internals.rs:154`: such a task also counts a reconnection while the new
  connection is up (which `Session` allows where `Overlaps` is TRUE only).
- `internals.rs:275`: a callback that panics ends the read task and leaves
  `connected` true.
- `internals.rs:361`: with an interval shorter than the `on_connect` callbacks a
  PING is queued before HELLO (`HelloFirst` with `PingEnabled`); when the channel is
  then full, HELLO fails, and with it `connect()`, with its tasks running: old read
  tasks may each count an attempt (`Session` has no limit there: with one, three
  connections and pings violate `LifeSpec`).
- `mod.rs:79`: a registration from within a callback waits for the lock that its
  own dispatch holds.
- `mod.rs:239`: the read task runs before `on_connect` is called: `on_message`, and
  `on_disconnect`, may come first. `Dispatch` has these behaviours.
- `mod.rs:309`: CLOSE and the Disconnect command wait for room in the channel
  with no time-out; when it is full and the server does not read, `disconnect()`
  does not return (`DisconnectReturns` without fairness of `Written`).

Python:

- `__init__.py:283`: `disconnect()` waits in `drain()` (`:388`) and `wait_closed()` without
  a time-out, for a server that neither reads nor closes for ever (`CallsEnd`).
- `__init__.py:507`: the task that failed to reconnect asks for another attempt
  and finds itself, not done: there is never a second one.
- `__init__.py:396`: with pings, CLOSE leaves the read task alive; when the program
  connects again it may read from the new stream (the second part of `OneOfEach`
  with `pinging`).
- `__init__.py:244`: a `connect()` while a reconnection is under way makes a second
  connection, or leaves one behind `disconnect()` (`ReturnedMeansStopped`,
  `NoReconnectAfterDisconnect` and `OneOfEach` with `OverlapConnects`).
- `__init__.py:340`: a clock that is set back by as many microseconds as
  identifiers were made since repeats one (`UniqueIds` with `"python"` in `SetBackFor`).

The tests of the TypeScript client use a mock socket that emits `error` without
the `close` that Node sends after it: this is how the double count of a failed
attempt stays unseen.

## 4. What is proved

Proofs assume nothing but the `ASSUME` of the module they extend and the
conditions their statement names.

`MsgId`, `Framing` and the three life cycles each have an abstract side: theorems
on identifiers that `Sending` inherits, `FrameChannel`, which every parser
implements, and `Session`, which every life cycle implements. These
refinements need no assumption about the environment: what
may overlap is told to `Session` by its constants.

**MsgIdProofs.** `Typed`; `RealTimeOrdered` (clock never set back);
`UniqueOnOneThread`: on one thread identifiers are unique in TypeScript whatever
the clock does, while the counts fit into a millisecond, and in Python if the
clock is not set back. The invariant `IInv` says that an identifier is the sum of
its recorded stamp and count, that counts differ, and that an earlier call's count
and stamp are not greater: the property alone says nothing of the thread that is
between its steps. `SoloInv` adds, for one thread, that what is complete was
complete when a count was taken.

**CodecProofs.** For any base of at least 8 and any header and payload:
`HeaderIsRead`, `FrameEnds`, `MessageIsRead`, `LongTopicIsCut`. A sequence that is
put together is described by the parts at its places (`Part`), so that no step of
the proofs goes through 24 elements one by one; the arithmetic is in lemmas on digits (`TwoDigits`,
`Remainder`) below them.

**SendingProofs.** A connection with calls that wait, are refused or fail makes
identifiers as `MsgId` does (`ImplementsIdentifiers`), so that `FramesAreOrdered` and
`FramesAreUnique` follow from the theorems of `MsgIdProofs`. As long as identifiers
fit 64 bits and payloads 32 (`Fits`): `SendTyped`, `PeerIsTold` and
`MessagesAreRead`, for any threads, topics and capacity. The property says nothing
of the bytes in between; the invariant (`WayInv`) says that the wire is made of
whole frames, those of the calls that come after what was decoded, and the queue
of those behind them. "Made of whole frames" (`Cut`) is the least relation that
appending a frame preserves: that its first frame can be taken off (`CutHead`) is
shown without induction over the sequence, and `FrameIsRead` joins it to
`CodecProofs`. While the connection stands nothing is lost either: no frame is
empty, so that with nothing on the wire and in the queue the frames that were
decoded are all that were accepted (`NothingOnTheWay`). `MessagesAreRead` has no
exception for a long topic: it says which part of it the peer reads as the topic and
which as the message when Rust cuts the length.

**DispatchProofs.** For any connections, callbacks and events: `Typed`,
`SilentAfterRevoke`, `LocksAreLetGo`, `OneRegistration`, `NoCircle`. The invariant relates
where an actor is to the lock it holds or waits for (`LockInv`): a writer is alone,
so that the option cannot be revoked between the decision of a read task and its
announcement. `LineInv` adds that a queue holds exactly those who want the lock, once
each, though tasks are taken out of its middle when they are aborted or panic.
`NoCircle` is about any set of actors at once, and so has no bound on the length of
the circle. Whoever is inside the callbacks wants nothing more, but for the program
that reads its identifier in `connect()`, and while it does nobody wants to write to
them. Whoever is inside the options may want the callbacks. Hence whoever is waited for
has a smaller distance (`Distance`): the place in the queue of the callbacks, or, behind
all of that queue, the place in that of the options, or 0 for who wants neither.
An actor at the least distance waits for nobody in the set. That a set
of naturals has a least element (`LeastNatural`) is taken from the library's theorem
on well-founded relations, which needs no operator as a parameter: where the
module needs induction it is by the least counterexample.

**TsClientProofs.** For any set of sockets, any limit and any option: `Typed`,
`Bounded`, `ConnectedIsReal`, `NotStranded`, and `DisconnectIsFinal` if no
`reconnecting` listener disconnects; all of these hold for overlapping calls and late
closes too, and so do `HelloBeforeAll`, for which it matters that `connected` becomes
true in the step that greets, and `ImplementsSession`, whose steps use `Calm` only where `Session`
asks for it. `Bounded` rests on `AttemptInv`: while a
timer is armed the attempts counted are more than those tried. For a program that
connects at rest (`Calm`) the invariant `CalmInv` says that at most one socket is
not free and that it is `socket` unless the client was disconnected; from it
follow `WritesReachASocket`, `OneInterval`, `PromisesSettle` and, with `reconnecting`
listeners that do not disconnect, `NothingLeft`.

**FramingProofs.** For any header size, payload lengths and number of frames, a
listener that reconnects included: `Typed`, `NothingHeldBack`, `ImplementsChannel`, `GoodFramesArrive`, `CorruptionStops` and
`NothingLostInSilence`. `CorruptionStops` covers the Python client, which does not
end its reading at a wrong magic number, but keeps the buffer that begins with it.
`StreamInv` places each frame behind the one before it;
`LeftInv` says that what was delivered ends where the buffer begins, at the
latest. `ChannelInv` says that the loop is in step with the stream: the buffer
begins where the frame behind the last delivered one starts. It holds for
TypeScript and Python always and for Rust until an error (`InStep`), which is
what `FrameChannel` asks. `NothingLostInSilence` needs both halves: in step,
what is in front of the buffer was passed on, and what is in it is not whole.

**RustClientProofs.** For any connections, capacity and limit: `Typed`, with the
bound of every channel; `Watched`, although old read tasks clear the flag of a new
connection; `ToldAtMostOnce`, whose invariant counts the read tasks between their
swap of `connected` and the call of `on_disconnect`; and `ImplementsSession`. With pings
but no overtaken read tasks this needs an invariant of its own (`OverlapInv`): a
connection that is up has no read task beside it between its swap and its count.
Without pings and overtaken read tasks (`Calm`): `ReadersAgree`, `GreetsFirst` and `ClosesFirst`. `CalmInv` says that one read task at most is alive, that of the
current connection, and that old channels have no sender; `HelloInv` that HELLO is
written or at the front of its channel; `CloseInv` that the Disconnect command stands
behind a CLOSE, or behind nothing on a connection that has ended.

**PyClientProofs.** `Typed`, `ToldAtMostOnce`, `SomebodyReads` and `ImplementsSession`
without a premise. For a program that waits for a reconnection under way:
`ReturnStops`, `DisconnectIsFinal` and `OneTaskOfEach`, for any connections, any number
of CLOSE tasks and any limit. The invariant (`TaskInv`, `CallInv`, `ReconnectInv`) says that
every task that is alive is one that `_cleanup()` finds; that a reconnection under
way has neither a call nor another task beside it; and that a client without a
connection has no CLOSE task waiting, or something in the way of a second
reconnection: a task that makes `_cleanup()` raise, or the limit. `SomebodyReads` is
inductive as it stands: a task that gives way to another one that reads the same
stream leaves that one waiting, and whatever cancels the reader has cleared
`_connected` or `_running` first.

**Only model-checked.** Liveness (`ReconnectsOrGivesUp`, `ConnectSettles`,
`EveryFrameArrives`, `LossIsAnnounced`, `TasksEnd`, `DisconnectReturns`, `CallsEnd`,
`CallsReturn`, `ArrivesUnlessLost`, `EverybodyMovesOn`), which needs ENABLED under
fairness and is beyond TLAPS as it is used here. For some of it the safety part is
proved: `NotStranded` for `ReconnectsOrGivesUp`, `NothingHeldBack` for
`EveryFrameArrives`, `Watched` for `LossIsAnnounced` of the Rust client, `PeerIsTold`
for `ArrivesUnlessLost`, `NoCircle` for `EverybodyMovesOn`.

## 5. What is not modelled

- Magic numbers inside payloads: a Rust client that is out of step behind a header it
  has dropped (`internals.rs:251`) would take one for a frame. Sizes of memory (the payload length is the
  server's word, `internals.rs:231`), UTF-8 other than as a fault of a frame.
- Backpressure of Node's sockets, partial writes, TCP below the order of bytes.
- The throw of `emit("error")` when a TypeScript client has no `error` listener
  (`index.ts:506`, called at 170, 354 and 464): the program is taken to have one.
- What the callbacks do, other than call the client where the switches say so.
- Emitters and callback lists of TypeScript and Python: they are called
  synchronously on the one thread.
- Options, errors, names of frame types: records without behaviour; the options
  that matter are constants of the life cycles.
- The example program, tests, packaging and workflows.

## 6. The plan

Done: `MsgId`, `TsClient`, `FrameChannel` and `Framing`, `RustClient`, `PyClient`,
`Session`, `Codec`, `Sending`, `Dispatch`, and the proof modules.

Left:

1. The composition of `TsClient` with `Framing`, where a listener may disconnect
   and connect inside the loop.
2. A common state for `Dispatch` and `RustClient`, of which both would be views, so
   that the announcements of the one and the histories of the other are the same.
