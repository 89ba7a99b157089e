# A TLA+ model of xnetty

xnetty is a C++17 network framework in the style of Netty: a boss thread accepts
connections, each worker thread runs an event loop that owns its connections, and
a pipeline of handlers (HTTP codec, WebSocket codec, compressor, TLS, router, user
code) works on every connection. This directory holds TLA+ modules translated from
the C++ sources, the TLC configurations that check them on small instances, and
proofs checked by TLAPS. `PROJECT.json` lists the runs, the source lines behind
every definition, the hazards the properties are aimed at and the findings.

To check a module, for instance:

    tlc -workers 2 -config EventLoop_spsc.cfg EventLoop
    tlapm EventLoop_proofs.tla

## 1. The system and its parts

| part | state | operations | shared with |
|---|---|---|---|
| `EventLoop` (`src/src/event/event_loop.cpp`) | `SpscQueue` ring, `pendingFunctors_`, `wakeupSent_`, wakeup pipe, `quit_`, `callingPendingFunctors_` | `runInLoop`, `queueInLoop`, `stop`, `loop`, `doPendingFunctors` | every thread that posts |
| `TimerWheel` (`timer_wheel.cpp`) | slots, `currentTick_`, `nextId_`; in the loop `lastTimerTick_` | `addTimer`, `cancelTimer`, `tick`, `advanceTimer` | loop thread only |
| `WorkerEventLoop`, `Connection` (`worker_loop.cpp`, `connection.h`) | `connections_`, per connection `closed_`, keep-alive, read and write buffer, last read and write time | `setupConnection`, `onRead`, `onWrite`, `onError`, `onTimerTick`, `removeConn`, `flushWriteBuf` | boss (setup tasks); `connectionCount()` read by the boss |
| `Channel`, `Poller` (`channel.cpp`, `poller.cpp`) | interest set, `revents_` | `enable*`, `disable*`, `handleEvent`, `poll` | loop thread only |
| `ChannelPipeline`, `Context` (`channel_pipeline.cpp`, `context.cpp`) | vector of handler entries with their contexts, weak pointer to the connection | `add*`, `replace`, `remove`, `fire*`, `write`, `flush`, `close` | loop thread only |
| `BossEventLoop`, `EventLoopGroup` | listening socket, workers and their threads | `listen`, `handleAccept`, `next`, `leastLoaded`, `start`, `stopAll` | workers |
| `ServerBootstrap` | options, boss, group, shutdown promise | `start`, `wait`, `shutdownGracefully` | everything |
| `TopicTree`, `WebSocket` | topics, subscribers, mutex | `subscribe`, `unsubscribe`, `publish`, `freeSubscriber`; `send`, `close` | all workers |
| `WebSocketHandler` | ping and pong timers, close state | `schedulePing`, `channelRead`, `channelInactive` | loop thread only |
| `HttpServerCodec`, `WebSocketCodec` | leftover bytes, parser state, fragments | `channelRead`, `write` | loop thread only |
| `ByteBuf` | storage, reader and writer index | `ensureWritable`, `discard`, `trim`, `shrink`, `slice` | its connection |
| `Router` | segment tree | `addRoute`, `matchNode`, `onRequest` | read by all workers |
| `TokenBucket` | tokens (atomic), last refill, rate and size (plain) | `tryConsume` | all workers |
| `SslHandler`, `CompressorHandler`, `StaticFileHandler`, logger, metrics, utilities | OpenSSL objects; otherwise none | | |

Interactions. The boss accepts a socket, picks the worker with the fewest
connections and posts a setup task on its `EventLoop`. The worker runs the task,
registers the socket with its poller and puts the connection in its table. From
then on everything that happens to the connection happens on the worker's thread:
poll events, tasks, timer callbacks. A worker that publishes to a topic posts tasks
on the loops of the subscribers' workers.

What is hard:

* the lock-free ring and the wakeup flag between posting threads and the loop;
* exceptions that leave a task or a timer callback in the middle of a batch or tick;
* timers armed and cancelled by callbacks of the slot that is being fired, and a
  loop that is late and replays several ticks;
* a connection that can be closed from six places, several of which only mark it
  and leave the removal to somebody else;
* partial writes, which may be met in a handler, a task, a timer callback or `onWrite`;
* subscribers whose connection goes away while other threads publish to them;
* pings and their time-outs, which every frame that arrives cancels and arms anew;
* requests, frames and TLS records that TCP cuts and joins anywhere, each behind bytes that an
  earlier read left over;
* what a connection remembers of one request (encoding, keep-alive, the buffer its parts are
  read from) while the next one is already there;
* TLS flights that lie in a memory BIO until somebody writes them;
* a router that searches with backtracking and then looks up its result without;
* contexts that know their handler's position, which every change of the pipeline moves;
* shutdown, which a signal handler, the owner and the destructor may call in the middle of
  each other, while the boss still accepts.

What makes each part correct: a loop runs every task it accepted, once and in order,
and stops when told; a timer runs once, on its tick, and not after it was cancelled; a
connection's handlers see each life-cycle event once, its bytes leave in order and
completely, its descriptor is closed exactly when it leaves the table, and a slow
or silent peer cannot hold memory for ever; a topic names exactly its subscribers, none of
them a connection that is gone; a subscriber gets messages once each and in order; a peer
that answers pings stays, one that does not is closed; the codecs deliver the same messages
however the bytes were cut; a request goes to the handler of its route, and its response is framed
and encoded for it; a buffer holds what was written and not yet read; an event passed on reaches the
next handler of its kind; a bucket gives no token twice; the workers outlive the boss, and a
shutdown leaves no thread and no socket behind.

## 2. The modules

### EventLoop.tla and Mailbox.tla

`EventLoop` models the task queue at the granularity of shared-memory accesses.
A call of `queueInLoop` by thread `p` is the sequence `PushLoadTail`,
`PushCheckFull`, `PushWrite`, `PushPublish` (the body of `SpscQueue::push`), or
`QueueOverflow` when the ring is full, then `QueueExchange` (`wakeupSent_.exchange`)
and `Wakeup` (the write to the pipe). `loop()` is `LoopCheckQuit`, `LoopPoll`, then
`doPendingFunctors`: `LoopReset`, `LoopLoad`, `LoopPop`, `LoopStoreHead` (`popAll`),
`LoopDrain` (the swap under the mutex), `LoopRun` or `LoopThrow`, `LoopBatchDone`.
An exception out of `handleEvent()` or `advanceTimer()` is `LoopPollThrows`: it skips
`doPendingFunctors` in that iteration, with the word in the pipe read or not.
`StopStore` and `StopWakeup` are `stop()`.

Memory is x86-TSO: loads and stores of the ring's indices are in program order, and
the relaxed store `wakeupSent_ = false` may stay in the store buffer (`resetBuffered`)
while later loads are done; `FlushReset` makes it visible. The mutex drains the
buffer. Weaker machines allow more; what is shown to go wrong here goes wrong there too.

`push` takes its argument by value, so `queueInLoop(cb)` has moved `cb` away when
`push` fails; the functor it then puts on `pendingFunctors_` is empty, and calling it
throws. The model does the same (`Empty`).

`Owner` is `threadId_`: it is taken in the constructor, so for a worker it is the
thread that built the group and not the thread that runs the loop.

`Mailbox` is the abstract specification: a FIFO queue of accepted tasks from which
the oldest is run, and from which an exception removes the rest of a batch. The
refinement mapping takes as the mail the tasks of the batch, which stand in front of the
empty functors in it (`Batch`), followed by the unread part of the ring (`Ring`).

### TimerWheel.tla

`AddTimer`, `CancelTimer`, and `tick()` in three parts: `TickBegin` splits the slot of
the current tick into what fires and what stays, `FireNext` runs one callback,
`TickEnd` is `currentTick_++`, `onTimerTick()` and the bookkeeping of `advanceTimer()`.
Callbacks may arm and cancel timers (`UserCodeRuns`) and may throw
(`CallbackThrows`), which leaves `tick()` before `currentTick_++` and
`advanceTimer()` before `lastTimerTick_` moves. The clock runs on at any moment, so a
loop may be late by any number of ticks. A slot is a set because the vector is always
in the order of the ids, and `FireNext` takes the smallest id.

### WorkerLoop.tla

One iteration of `loop()` on a worker: `Poll` collects the ready channels, the events of
each are handled in the order of `Channel::handleEvent` (read, write, error), then
`advanceTimer` (`OnTimerTick`, `NoTimerTick`), then the tasks, of which
`SetupConnection` and `AddConnection` are the two halves of `setupConnection` before and
after `fireActive()`. Handlers, tasks and timer callbacks are user code that may, at
the points where the loop calls them, parse a request (`Request`), write a response
(`WriteAndFlush`), upgrade (`Upgrade`), write a frame (`WriteFrame`), flush (`Flush`) or close
(`Close`); each flush they cause is a step `FlushWriteBuf`, so that the kernel and the peer may act
between two system calls. `net` is the kernel's end of the socket: whether there is
something to read, how full the send buffer is, whether the peer is up, has finished or has
reset. Response bytes are counted, not named.

`setClosed(true); fireInactive(); removeConn()`, which the end of file, a poll error and a
time-out have in common, is two steps: `FireInactive` starts the handlers' `channelInactive`,
which is user code like any other, and `DropConn` removes the connection when they have
returned (`leaving` holds it in between). `onTimerTick` is `OnTimerTick`, which collects the
timed-out connections in `doomed`, then `ExpireNext` and `DropConn` for each of them, then
`ExpireDone`. A timer's callback that throws (`TimerThrows`) leaves `advanceTimer()` before
`onTimerTick()` and skips the tasks; the tick stays due. `InactiveShares` says whether the handlers of one connection, in their
`channelInactive`, act on other connections, as a chat server that keeps a set of contexts
would; `FALSE` restricts them to their own.

### PubSub.tla and MCPubSub.tla

The WebSocket layer over several workers: `WebSocketHandler` on each connection, the
`WebSocket` object user code gets, and the process-wide `sTopicTree`. `ws` holds, per
connection, `closed_` and whether it still exists, the handler's `WsState` and the
`Subscriber` with its topics; `tree` is the other direction, the topics with the subscribers they
point to. An operation of the tree is one step, because it holds the tree's mutex; user code
in `onOpen`, `onMessage` and `onClose` is a sequence of such steps (`Subscribe`,
`Unsubscribe`, `Publish`, `Broadcast`, `Send`, `CloseFrame`, `ContextClose`) between which
other workers run, and may throw (`HandlerThrows`). `channelRead` is `ChannelRead`, `OpenDone`
and one action per opcode; `ReadDone` is the end of `WorkerEventLoop::onRead`, which removes a
connection that was closed meanwhile, and `ConnectionLost` any removal that fires
`channelInactive` first. `PingTimer` and `PongTimer` are the two timer callbacks,
`SchedulePing` and `StillArmed` what arms and cancels them, with the id 0 taken for "no timer"
as in the code and ids that every worker counts from 0.

A task that `publish` posts is in `inbox` of its connection until `Deliver` runs it. That is
the worker's task queue restricted to one connection, taken as the FIFO `Mailbox` which
`EventLoop` implements with one producer; that the real queue loses tasks with several
producers (section 3) is not repeated here. A timer may fire at any time
after it was armed. A write may find the connection broken (`WriteErrors`), which only marks
it. `crashed` records a use of freed memory: the model then stops, as nothing can be said of
such a process. `setCtx` writes a `shared_ptr` that a publisher on another worker may be
copying; it always writes the value that is there already, and the model reads that value.

`MCPubSub` gives the assignments of connections to workers that the runs use.

### Bootstrap.tla

The life of a server. `main` owns the `ServerBootstrap` and calls `start`, `wait`,
`shutdownGracefully` and finally the destructor in any order; the `stopper` calls
`shutdownGracefully` once, either as a signal handler on main's thread (main stands still
meanwhile, as in `examples/demo.cpp`) or, with `StopperThread`, as a thread of its own.
`EarlyStop` lets it come before `start` has returned. `start` is `Start`, `GroupStart`,
`StartWorker` for each worker, `MakeBoss`, `Listen` or `ListenFails`, `StartBossThread`;
`shutdownGracefully` is `Exchange`, `SetPromise`, `StopBoss`, `JoinBoss`, and `stopAll` as
`StopAll` and `JoinAll`; `Free` destroys the members. The boss thread checks `quit_`, accepts, and
posts each socket to any worker (`LeastLoaded`: the counts it compares are read while their
threads change them). A worker thread checks `quit_`, takes the queued setup tasks and runs
them; of the rest of its life only the end of a connection is left (`CloseConn`, see
`WorkerLoop`) and the exceptions of handlers and timers that skip the tasks (`IterationThrows`).
`sock` says where each socket is. A descriptor that nobody will close is "unposted" if the ring was full
(`BossPostFails`, with `RingMayFill`: `queueInLoop` queues an empty functor in the place of the task), "dropped" if a
task of its batch threw (`BatchThrows`, with `TasksMayThrow`), and "lost" if its worker ended before it took the task.
`dead` is `std::terminate()` or a use of what was destroyed.

### Pipeline.tla

`ChannelPipeline` and `ChannelHandlerContext` of one connection. All calls are on one thread, so the
handler calls in progress are a stack, and a frame of it is one call: `FireAll`, `FireChannelRead`,
`FireWrite`, `FireOut` are the `fire*` of the pipeline, `CtxForward`, `CtxRead`, `CtxWrite`,
`HeadWrite`, `CtxOut`, `CtxClose` what a handler does with its context, `Return` its return or
exception, after which a broadcast goes on to the next handler. `AddEntry` and its four callers,
`Replace`, `RemoveEntry`, `Clear`, `SetContext` change the pipeline. Positions are what the code
computes from `index_`; a handler that is both inbound and outbound is in both sets.

### ByteBuf.tla

Storage and indices of several buffers, one action per operation: `Allocate`, `Wrap`,
`Copy`, `Move`, `Swap`, `Slice`, `Reserve`, `Write`, `Fill` (the caller writes into the storage and moves the index),
`Read`, `Discard`, `SetReaderIndex`, `Clear`, `Shrink`, `Trim`, the last two with allocation that may fail.
`EnsureWritable` is the set of what `ensureWritable()` may leave: the buffer with the least doubled capacity that is
large enough (`NewCaps`), and nothing where the bound on storage is passed.
`queue` is the history variable the buffer is compared with; a cell nobody wrote is `Junk`.

### HttpStream.tla and MCHttpStream.tla

The way of the bytes up: `HttpServerCodec`, `WebSocketUpgradeHandler`, `WebSocketCodec`. A byte is its
position in the stream, so that joining, cutting and overlapping copies are arithmetic on positions.
`Arrive` is one segment; `pc` says which codec loop runs, and each iteration of one is a step. llhttp is
external: it completes a message exactly when all bytes of a well-formed request are there. A handler may
keep a request and ask for its parts later (`RequestGet`), when the buffer it points into was used again.
`kept` is what a 413 leaves in `st.request`: the headers of the refused requests, behind which those of the next one are put
(`Spoil`). Which `Content-Length` then decides (`TooLarge`) depends on how each is spelled, because `header()` looks for the exact name first: `cl` of an item.
`trouble` is set where the code drops something because an item before it was refused, or because
`HttpServerCodec` takes a segment of a WebSocket for HTTP. `MCHttpStream` lists the streams. An item of a stream carries the position
`at` of its first byte; `StreamsAssumption` says that items follow each other without a gap and that after a frame only
frames come. `DeliveredIsComplete` says which items make up the messages that are due when a segment is done with;
that they come once each and in order is `EachOnceInOrder`. `Tainted` names the requests between a 413 and the first request that is handed on after it:
they may be refused for what the earlier one said, and their headers are not their own.

### WsFrame.tla

The bytes of a frame header, encoding and decoding, as operators; what they do is proved, not checked
by a run (in `HttpStream_proofs`). `HttpStream` takes from it that a header is recognised when it is whole and only then.

### Router.tla, HttpServer.tla and MCHttpServer.tla

`Router` has `addRoute`, `matchNode` with its backtracking, and `onRequest` with the second walk that
looks for the node the first one matched, over paths of tokens. The recursion of `matchNode` goes one segment down with
every call, so `MatchNode` is a function of the number of segments left: what the search finds and which parameters it leaves behind,
from each node (`Nodes`) and each set of parameters. A call is `Loop`, the loops over the children (`Turns`, in the
order the code visits them), of which each is `Tried` until one matches. Paths begin with "/" and have one between two segments
(`IsPath`): `RoutePathsAssumption` and `RequestPathsAssumption`. `Fitting` is the reference: the routes whose segments agree. `HttpServer` extends it with a connection whose client pipelines requests:
routes are added (`Configure`, `Serve`), then requests are read (`ReadRouted`, `ReadPacked` for compressed ones) and answered
at once or later (`Answer`), or they name a file, which is refused or sent in chunks while it changes (`RefuseFile`, `BeginFile`,
`SendChunk`, `ChangeFile`) or until `read()` fails (`ReadFails`), as it does for an `index.html` that is a directory. A request is taken as
the codec hands it on; what a 413 leaves in its headers is in `HttpStream`. `peer` and `keepAlive`
are kept per connection as in the code. A response on the wire is what a client can tell of it: the
`Content-Length` values, the length of the body, encoding and `Connection`, next to history: whether it is a file, whether reading it failed (`cut`), whether it was
written before the next request was read (`latest`).

### Tls.tla

`SslHandler` over memory BIOs. OpenSSL is external: `SSL_accept` takes whole handshake records and
leaves its flights in `outBio`, `SSL_read` takes one record at a time. A record is two pieces, of which
TCP delivers any number at once. `ForServer` makes the context, `ChannelRead` is the whole handler with its loops; `Write` encrypts a `ByteBuf`
and passes anything else on, which ends at the head of the pipeline;
`ClientSend` is the peer, which may send a bad record or `close_notify` at any point.

### TokenBucket.tla

`tryConsume` and `setRate` by several threads, one action per access to `tokens_`, `lastRefill_` and the clock: the time since the last refill
is computed when the clock is read (`elapsed`), long before `tokens_` is loaded, stored, and `lastRefill_` set. `granted` and `spent`
are history.

## 3. The runs

| run | module, cfg | result | what it shows |
|---|---|---|---|
| `event_loop` | `EventLoop`, `EventLoop_spsc.cfg` | passes | one producer: the ring is a queue (`RingIsQueue`), nothing accepted vanishes (`NoTaskLost`), the pipe holds a bounded number of words (`WakeupsBounded`), the queue implements `Mailbox` (`MailboxSpec`), accepted tasks run if exceptions of handlers and timers let an iteration get to them (`AcceptedTaskRuns`), `stop()` ends the loop (`StopEndsLoop`) |
| `timer_wheel` | `TimerWheel`, `TimerWheel.cfg` | passes | timers fire on their tick, once, never after `cancelTimer`, none vanish; the wheel keeps up with the clock; a timer is early by less than the lag it was armed with; timers come due |
| `worker` | `WorkerLoop`, `WorkerLoop.cfg` | passes | life-cycle events at most once, table, descriptors and poller agree, unsent bytes are polled for, no HTTP byte is dropped or repeated, the backlog is bounded, unsent bytes do not stay once the application leaves the connection alone (`UnsentDrains`) |
| `pubsub` | `MCPubSub`, `PubSub.cfg` | passes | topics and subscribers agree in both directions (`TreeMatches`); a connection gets the messages of all publishers once each, in the order of publication (`InOrder`) |
| `pubsub_ping` | `MCPubSub`, `PubSub_ping.cfg` | passes | a peer that answers is not closed by a pong time-out (`LivePeerKept`); one that falls silent is closed (`SilentPeerClosed`) |
| `bootstrap` | `Bootstrap`, `Bootstrap.cfg` | passes | unless it is started twice, the server never ends in `std::terminate()` (`NeverTerminates`); the boss runs only while all workers do (`WorkersOutliveBoss`); after a shutdown nothing is left (`ShutdownIsComplete`), and a shutdown ends (`ShutdownEnds`); an accepted socket gets its connection, unless the ring was full, a task of its batch threw or the server went down (`AcceptedIsServed`) |
| `pipeline` | `Pipeline`, `Pipeline.cfg` | passes | every context knows its position (`IndexTracksPosition`); a message passed on goes to the next handler of its kind and skips none (`PropagationOrder`) |
| `byte_buf` | `ByteBuf`, `ByteBuf.cfg` | passes | through growth, shrinking, copies and moves what is readable is what a queue would hold (`ReadableIsQueue`) |
| `http_stream` | `MCHttpStream`, `HttpStream.cfg` | passes | however the stream is cut, what is complete has been delivered (`DeliveredIsComplete`), once and in order even after a refusal (`EachOnceInOrder`); a kept request answers for itself (`LateAccessIsOwn`); requests behind a 413 are excepted where its headers reach them |
| `http_server` | `MCHttpServer`, `HttpServer.cfg` | passes | 404 is given only where no route of the method fits, 405 only where one of another method does, and a route of the method that a 405 hides has parameters and is hidden by a literal one (`HonestRefusal`), in unambiguous tables the handler and its parameters are the right ones (`RightHandler`), the head announces the body that follows, or no less if `read()` failed (`WellFramed`), it is in the encoding its own request accepts and closes when that asked for it, except for files (`AnswerFitsRequest`) |
| `tls` | `Tls`, `Tls.cfg` | passes | no whole record waits or is given twice (`PlaintextComplete`); the handshake ends, except the full one of TLS 1.2 (`HandshakeCompletes`) |
| `token_bucket` | `TokenBucket`, `TokenBucket.cfg` | `NoTokenSpentTwice` violated | two threads load `tokens_` before either stores it |

The violation is a finding of `PROJECT.json`. Five more properties are stated in the modules and are
refuted by what the code does; they are not in a configuration of this directory, and are seen to fail
by putting them into one:

| property | configuration | what TLC shows |
|---|---|---|
| `NoTaskLost` of `EventLoop` | `EventLoop_spsc.cfg` with `Producers = {boss, peer}`, `MaxPosts = 2` | two posting threads overwrite each other's slot of the ring |
| `NoLostWakeup` of `EventLoop` | `EventLoop_spsc.cfg` with `MaxPosts = 3` | the relaxed reset passes the load of `tail_`: the loop sleeps with a task in the ring until its poll times out |
| `ClosedIsRemoved` of `WorkerLoop` | `WorkerLoop.cfg` | a connection closed outside `onRead` is never removed |
| `NoByteDropped` of `WorkerLoop` | `WorkerLoop.cfg` | a frame written while bytes are unsent discards them |
| `GoneIsUnsubscribed` of `PubSub` | `PubSub.cfg` with `Ops = {"text"}` | a connection that `flushWriteBuf` closed is removed without `channelInactive`; its destroyed subscriber stays in the topics |

`NoTaskLost` with one producer is what `event_loop` checks. More findings are visible in the model, as the
exception a property makes or as the definition named here.

* The moved-from functor of `queueInLoop` is in `QueueOverflow`: the task of a failed `push`
  is not accepted in the sense of the properties above, which speak of tasks `push` took. When the boss posts, the
  accepted socket goes with the task while the server lives (`BossPostFails` of `Bootstrap`).
* An exception out of `handleEvent()` or `advanceTimer()` skips the tasks, and a timer that is due again at every replay and
  always throws keeps tasks and time-outs from ever being reached (`LoopPollThrows`, `TimerThrows`, `IterationThrows`): `IterationsComplete` and
  `TimerTicks` are hypotheses of the properties that need the contrary.
* `flushWriteBuf` renews the write time even when nothing can be sent, and WebSocket writes look at no watermark: a
  WebSocket peer that never reads but keeps sending PINGs is never timed out and its unsent bytes never go (`LeftAlone` is a hypothesis of `UnsentDrains`).
* The second `channelInactive` of a connection that is on `onTimerTick`'s list when another
  one's handler closes it is why `ClosedOnce` allows two where `InactiveShares` holds; two
  connections and `InactiveShares = TRUE` reach such a state.
* A connection that `flushWriteBuf` closes, after a write error or a last response, is removed
  without `channelInactive` whatever its handlers are (`OnReadDone` of `WorkerLoop`).
* The first timer of a worker has id 0, which `cancelTimers` takes for none, so it fires
  although frames keep arriving (`StillArmed`, `PingTimer` of `PubSub`); `LivePeerKept` holds
  all the same, because the pong timer that follows has another id.
* `onOpen` runs on the first message, not after the upgrade (`ChannelRead` of `PubSub`);
  `SilentPeerClosed` therefore speaks of peers that have sent something.
* An exception of a handler is logged and the connection stays (`HandlerThrows` of `PubSub`).
* `Misused` of `Bootstrap` names what `start` and `shutdownGracefully` are not made for: a second
  `start` (the promise is not renewed), a stop during `start`, and a stop from another
  thread while the owner destroys the server. Each of them reaches `dead`.
* A setup task that was queued when its worker stopped, or in whose batch the configurator or another task throws, leaks its
  descriptor (`JoinAll`, `BatchThrows` of `Bootstrap`).
* After a 413 the codec does not reset `st.request`: the refused headers stay in front of those of the next request, which is refused for
  them or handed on with them (`Refused`, `Spoil` of `HttpStream`).
* A literal path that is in the router's map under another method is answered 405 before the tree is searched: with `POST /u` and
  `GET /:a`, `GET /u` gets 405 (`OnRequest` of `Router`).
* A file whose `read()` fails ends its response short of what it announced, on a connection that stays open (`ReadFails` of `HttpServer`), and the head of a
  file says keep-alive although the request said close (`BeginFile`).
* The last flight of a full TLS 1.2 handshake stays in `outBio` (`HandshakeCompletes`); plaintext that was
  decrypted in front of a `close_notify` or a bad record is not handed on (`PlaintextComplete` speaks of open connections).
* `HttpServerCodec` takes a segment that begins with a capital letter for HTTP also after the upgrade
  (`LooksLikeHttp` of `HttpStream`); a malformed request stays in the leftover and all that follows behind it (`HttpIncomplete`);
  a TEXT frame is validated by itself, so a character cut by a fragment refuses a valid message (`WsRefused`).
* `body()` asked for after the next read gives another request's bytes (`LateAccessIsOwn`).
* A compressed request never reaches its handler (`ReadPacked` of `HttpServer`).
* In tables where a parameter competes with a literal, the second walk of the router may end nowhere or at another
  route than the first (`RightHandler` asks for `Unambiguous`).
* A handler that sets `Content-Length` itself may produce two, or the length before compression (`WellFramed`); one that answers
  after the next request was read answers with that one's encoding and keep-alive (`AnswerFitsRequest`).
* `trim()` of a partly read buffer loses unread bytes (`cut` of `ByteBuf`).
* `fireFlush()` and `fireClose()` of a context begin at the handler itself (`CtxOut` of `Pipeline`).

Every property of a passing run has a mutant, an operator such as
`PushNeverFull` placed before the definition it mutates, under which TLC finds the
property violated.

Bounds, and why they are enough.

* `EventLoop`: `Capacity = 4` and `MaxPosts = 5`: the ring holds three tasks, so it fills,
  overflows, and both indices wrap while a batch is being run.
* `TimerWheel`: two slots of 2 ms, delays 0, 1 and 4 ms (none, less than a tick, a whole
  revolution), two timers, 8 ms: the wheel goes round twice, and the loop may be up
  to four ticks late.
* `WorkerLoop`: one connection; connections meet only where the code of one closes another and where the
  loop goes from one to the next, and the safety properties are proved for any number of them, with
  `InactiveShares` either way (section 4). Responses of 1 and 2 bytes, room
  for 1 in the kernel, watermark 2, four bytes in all (`MaxBytes`) before an upgrade, time-outs of one tick: partial
  writes, `EAGAIN`, the watermark and both time-outs are reached. Frames are not bounded: the application may write and flush them for ever.
* `PubSub`: two connections on workers of their own without pings, two messages read from each
  and two published: enough for one to leave a topic, or to be removed, between any two steps
  of the other, and for two messages to pass each other. One connection with pings, three
  messages of all six kinds: a PONG, a text or a throwing handler before and after the PING
  and the time-out. That connections which share the wheel and the ids of a worker do not disturb
  each other's timers is proved (section 4).
* `Bootstrap`: two workers, two sockets, two starts, a handler that comes once: the boss can hold one socket
  while the other is queued, in a batch or in a table, and the second start covers what the
  promise does. `RingMayFill` and `TasksMayThrow` are `TRUE`. With more workers and sockets the safety properties are proved (section 4).

* `Pipeline`: three handlers (one inbound, one outbound, one both) under two names, three entries, so that a name may
  occur twice and an entry be in front of, between and behind others; a call inside a call; one
  message, because a second one only repeats the first. Proved for all sizes (section 4).
* `ByteBuf`: two buffers, two byte values, capacity up to 3, calls of up to 2 bytes, with 1 in the place of 64, 1024 and 64:
  storage grows, is full, is shrunk and rewound while partly read.
* `HttpStream`: streams of three requests, or of an upgrade and up to four frames, of one to four bytes, in segments of up
  to five: every cut inside a head, a body, a frame header and a payload, and several items in one segment. Bodies that are too large come
  with either spelling of `Content-Length`, in front of requests with either or none and of an upgrade.
* `HttpServer`: all tables of up to three routes over eight paths with literals, parameters, invalid parameter names and
  doubled slashes, asked for eight paths; a table of one route then serves two pipelined requests, with files of 0, 2 and 3
  bytes against a limit of 2 and chunks of 1, so that a file may be empty, in several chunks, too large, and shrink or grow on the way. The two methods
  are symmetric (`MCSymmetry`): the code treats those it knows alike, and no property is about a particular one. About 1.5 million states.
* `Tls`: six records, segments of up to eight pieces, two writes: a whole handshake with data behind it in one segment.
* `TokenBucket`: two threads, one token, four calls.

Deadlock is not checked where the system stops by design: the event loop after
`stop()`, the timer wheel when the bounded clock has run out, the WebSocket layer when every
connection is gone or has sent all it may, the server when it is destroyed, the streams and the TLS
connection when all was delivered, the HTTP connection when all was answered, the bucket when its calls are used up. The pipeline,
the buffers and the worker can always go on, and that is checked.

Fairness. `EventLoop`: a thread inside a call goes on, the store buffer drains, the
loop thread goes on, because `poll` has the tick as its time-out; nobody has to post or to
stop. `AcceptedTaskRuns` has the hypothesis `IterationsComplete`: if exceptions keep coming, some iterations
between them get to the tasks. The code does not see to that, so it is a hypothesis and not fairness. `TimerWheel`: the clock and the loop go on, callbacks return. `WorkerLoop`: the
worker's thread and the clock go on, and user code returns to the loop however many calls it makes before (strong fairness of `UserCodeReturns`); nothing is assumed of the peer.
`UnsentDrains` has two hypotheses: `TimerTicks`, the same as `IterationsComplete` for `onTimerTick()`, and `LeftAlone`, that the application's writes and flushes on the connection come to an end. `PubSub`: a handler's
call returns or throws (weak fairness of `ReadStep`); due timers and queued tasks run even if
reads keep coming in between, because `loop()` gets to both in every iteration (strong fairness of
`TimerStep` and `Deliver`); nothing is assumed of the peer or of what user code does. `Bootstrap`: a call that was begun
goes on, and so do the boss and the workers, whose polls have a time-out; `AcceptedIsServed` has `IterationsComplete` of every worker as its hypothesis. The boss gets back to
`quit_` because the backlog is finite: `handleAccept` does not look at it while sockets wait. Nobody has to start, stop or destroy the server. `Tls`: TCP
delivers what was sent and the loop reads it; a client that began a handshake goes on with it.

A type invariant is in every module with several actions (`TypeOK`; `HttpTypeOK` of `HttpServer`, `TlsTypeOK` of `Tls`; that of `TokenBucket` is with
its proof). All are proved, so no run repeats them.

## 4. The proofs

`EventLoop_proofs.tla`, from `Capacity > 1`, `MaxPosts \in Nat`, `TasksMayThrow \in BOOLEAN`
and `Empty \notin Task`:

* `TypeCorrect`: `Spec => []TypeOK`, for any number of producers.
* `RingCorrect`: with one producer, `Spec => []RingIsQueue`, for every capacity.
  `RingIsQueue` is not inductive: a state in which a producer is between its test and
  its store says nothing about the slot it is going to use. `SpscInv` adds that a producer
  between load and publication holds the current tail, that past the test its slot is
  not the last free one, that a written slot holds its task, and where `cursor`
  and `limit` are relative to `head` and `tail` while the loop is in `popAll`.
* `ImplementsMailbox`: with one producer, `Spec => MailboxSpec`, every step of the detailed specification is a
  step of `Mailbox` or a stutter, for every capacity and whether tasks throw or not. `MailInv` says that the accepted tasks fall
  into three runs: the first `lo` have left, each run or dropped (`LeftFirst`), the next are the head of
  the batch with empty functors behind them (`BatchFollows`), and the rest is the ring, by `SpscInv`. So the mail is the accepted
  tasks without the first `lo` (`MailIsRest`), and each action moves `lo` or the end and nothing else.
* `NoTaskEverLost`: with one producer, `Spec => []NoTaskLost`, from the same invariant.
* `WakeupsAlwaysBounded`: `Spec => []WakeupsBounded` for any finite set of producers. The bound alone is not inductive,
  because nothing in it stops a second word while the first one is unread: `WakeInv` also counts the permission to send one that a
  cleared `wakeupSent_` gives, and the one that the loop's reset is about to give or has in the store buffer.

"One producer" (`OneProducer`) is what the ring is written for; section 3 shows what goes wrong with more.

`TimerWheel_proofs.tla`, from `NumSlots` and `TickMs` positive and `Delays \subseteq Nat`:

* `TypeCorrect`: `Spec => []TypeOK`.
* `FiringCorrect`: `Spec => []FiresOnItsTick`. `TickInv` adds that an entry sits in the slot
  of its expiration tick, that no entry is overdue unless a callback armed it with no delay
  during this very revolution, and that what is about to fire is due now. The step of
  `TickEnd` needs that two ticks less than a revolution apart have different slots
  (lemmas `ModDistinct`, `ModPeriod`).
* `FiresOnceAlways`, `CancelHoldsAlways`: `Spec => []FiresOnce`, `Spec => []CancelHolds`.
  `IdInv` adds that ids are fresh, that each id is in at most one of wheel, `toFire` and `fired`,
  and that an entry with a cancelled id is marked wherever it still is.
* `NoTimerEverLost`: `Spec => []NoTimerLost`. `KeptInv` adds that an entry that is marked as cancelled has its id among
  the cancelled ones, so that dropping it in `tick()` loses nothing.
* `WheelKeepsTime`: `Spec => []WheelTracksClock`. `ClockInv` says how far the wheel is in the middle of
  `advanceTimer()`: `ticked` ticks beyond `lastTimerTick_`, with the clock at least `catchUp` ticks beyond it. All of it only
  as long as no callback has thrown, because an exception leaves ticks to be replayed.
* `NeverEarlierThanLag`: `Spec => []EarlyByLagAtMost`, also while no callback has thrown. `ArmedInv` keeps for each entry that its tick
  was computed from the clock less the lag; `ClockInv` gives the time at which that tick comes, and `FiresOnItsTick` that it fires then and not
  before. The rest is rounding (`TicksCoverDelay`).

`WorkerLoop_proofs.tla`, from `Conns` finite, `Sizes` positive numbers, `SockBuf` positive and the
watermark, time-outs and `MaxBytes` natural numbers:

* `TypeCorrect`, `ClosedOnceAlways`, `TableCorrect`, `UnsentPolled`, `HttpBytesAlwaysKept`,
  `BacklogAlwaysBounded`: `Spec => []P` for `TypeOK`, `ClosedOnce`, `TableOwnsSockets`,
  `UnsentIsPolled`, `HttpBytesKept` and `BacklogBounded`, for any number of connections,
  with `InactiveShares` either way. All follow from one inductive invariant, `WorkerInv`.
  `RecordsOK` relates the fields of one connection (a connection that is open and not closed
  has not seen `channelInactive`, one that was removed is closed and empty, its counters add
  up). `TableInv` ties the table and `starting` to the open descriptors. `QueueInv`, `CallsInv` and `DoomedInv` say which connections
  `leaving`, poll events, pending flushes and the list of `onTimerTick` may name: a flush is only ever
  pending for a connection that is still open, and without `InactiveShares` a doomed
  connection cannot be closed before its turn. `WaitInv` says that unsent bytes
  are polled for unless a flush of that very connection is still to come. The lemmas on
  records (`AgeKeeps`, `MarkKeeps`, `InterestKeeps`, `DiscardKeeps`) say what each piece
  of a handler preserves and are cited by the lemma of every action.

`PubSub_proofs.tla`, from `Sockets` finite and `WorkerOf` a function into `Workers`:

* `TypeCorrect`, `TreeCorrect`, `PongTimeoutCorrect`: `Spec => []P` for `TypeOK`, `TreeMatches` and
  `LivePeerKept`, for any number of connections, workers and topics. The inductive invariant is
  `PubSubInv`. `LivePeerKept` alone is not inductive: cancelling takes a timer away by its id,
  so `TimerInv` adds that a timer sits in the wheel of its connection's worker under an id below
  `nextId`, which makes new ids fresh, and that a pending pong timer of an open connection is the one `pongTimerId` names, which is never 0
  because a ping timer came before it. `CallInv` says that a connection in
  `onRead` is not gone. Finiteness of `Sockets` is needed for `freeSubscriber`, which decides by
  the size of a topic whether it goes.
* `DeliveredInOrder`: `Spec => []InOrder`. Messages are numbered as they are published; `OrderInv` says that what a connection
  got and what waits in the queue of its worker for it are both ascending, the first below the second and none
  above the last number published.

`Server_proofs.tla`, about `Bootstrap`, from `Workers` not empty:

* `TypeCorrect`, `NeverTerminatesAlways`, `BossNeverAlone`, `ShutdownCorrect`: `Spec => []P` for `TypeOK`,
  `NeverTerminates`, `WorkersOutliveBoss`, `ShutdownIsComplete`, for any number of workers, sockets
  and starts and either kind of stopper. The inductive invariant is `Misused \/ BootInv`: misuse stays
  (`MisuseStays`), and otherwise `CallersInv` says where main and the stopper can be at the same time and
  that at most one of them has won the exchange, `StartInv` and `StopInv` what exists at each step of
  `start` and `shutdownGracefully` (a server that is neither running nor being closed is down),
  `ThreadInv` that threads, loops and the boss go together, and `SockInv` that a socket is
  with a worker that exists or in the hands of the one boss thread.

`Server_proofs.tla`, about `HttpServer`, from `RoutePathsAssumption`, `RequestPathsAssumption`, `LengthsAssumption` and `ChunkAssumption`
(lengths are natural numbers, a chunk has at least one byte), for any methods, routes, paths and requests:

* `HttpTypeCorrect`, `ResponsesWellFramed`, `AnswersFitRequests`: `HttpSpec => []P` for `HttpTypeOK`, `WellFramed` and `AnswerFitsRequest`. What a response
  says when it is finished depends on what was true when it was begun, so `HttpInv` adds `JobFits`, that the head of the response to
  a file being sent has announced the size found by `stat()` and that, unless the file changed, no more than this was sent, so that what a failing `read()` leaves is too short at most, and `PeerFits`, that compressor and codec remember the
  latest request. An unfinished response is always the last one on the wire, because nothing is read or written while a file is sent.
* `RefusalsHonest`: `HttpSpec => []HonestRefusal`. `TableInv` ties map and tree to the routes: an entry of either comes from a route with its
  path and method (`StaticsFit`, `LeavesFit`), every route is there or was replaced by a newer one (`RoutesKept`), there is one entry for a path and a method
  (`OneEach`), and the nodes are the prefixes of the leaves (`NodesFit`). `MatchFinds` says that the search finds a leaf exactly if one fits the path:
  a leaf below a node is below a child that the loop visits (`LeafDown`), and back (`LeafUp`). For 405 `WalkFits` says that the second walk, which does not go
  back, ends at a node that fits the path, and `Refused405` what a 405 says of the routes: it comes from the map, whose entry for the path has literal routes of other methods only,
  or from the tree, where the search found nothing of the method.
* `RightHandlerCalled`: `HttpSpec => []RightHandler`. In an unambiguous table only one child is ever visited (`OneWay`), so the
  walk ends at the leaf that fits (`WalkStraight`) and the search goes there too, binding what it passes (`MatchStraight`). For routes in the map,
  a normal path is determined by its segments (`NormalUnique`).

The prover has no induction over data, so what the functions of `Router` compute (`NormalizePath`, `SplitPath`, `MatchNode`, `Loop`, `Walk`) is
derived from their steps with the well-foundedness of `<`: of the lengths at which a claim fails there would be a least one.

`Pipeline_proofs.tla`, from `Inbound` and `Outbound` subsets of `Handlers`, bounds that are natural numbers, and
no notice or signal called read or write:

* `TypeCorrect`, `IndexAlwaysTracks`: `Spec => []P` for `TypeOK` and `IndexTracksPosition`; `PropagationAlwaysOrdered`: `Spec => PropagationOrder`.
  The inductive invariant `PipeInv` adds `StackInv`: the calls in progress are of entries that are there, with messages
  that were made, which tells a message that is passed on from a new one. `UpwardsFinds` and
  `DownwardsFinds` say that the search ends at the nearest entry the event is for; they need that a set of numbers
  has a least element, which comes from the well-foundedness of `<`. `ReindexedType`, `InsertAtParts`, `RemoveAtParts`
  say what the changes do to the entries.

`ByteBuf_proofs.tla`, for any set of buffers, bytes that are positive numbers (0 is a cell nobody wrote) and sizes as `SizesAssumption` has them:

* `TypeCorrect`, `ReadableAlwaysQueue`: `Spec => []P` for `TypeOK` and `ReadableIsQueue`; `NeverReadsJunk`:
  `Spec => []OnlyWritten`, no readable cell is one that nobody wrote, cut by `trim()` or not. `ReadableIsQueue` is not inductive, because
  `setReaderIndex()` goes back over cells that were read and a buffer that was cut goes on living. `BufInv` therefore says of every
  cell below `writerIndex_` that it was written, and of a cut buffer that its queue still has the length of what is readable. One lemma per
  operation says that it keeps this of a record of storage and indices.

`HttpStream_proofs.tla`, from `StreamsAssumption` alone: any set of streams of any length, with items of any size, cut into segments in any way:

* `HandedOnOnceInOrder`: `Spec => []EachOnceInOrder`. The order of what was delivered says nothing about what comes next. `StreamInv` says where the bytes
  are: `raw` ends with the last byte that arrived, `leftover` and `wsLeft` end where `raw` begins or are garbled, and what
  starts in the middle of an item is never parsed. `OrderInv` adds that every item that was handed on, or waits as a fragment, lies
  before all of these bytes (`Passed`).
* `AllHandedOn`: `Spec => []DeliveredIsComplete`. `CompleteInv` adds to `OrderInv` that there is an item `n` at which the first byte not yet dealt with
  starts, that the items before it are exactly what the messages and the waiting fragments are made of, and that between segments `n` itself is not
  whole; unless something was refused, or the piece of a frame is just being taken for HTTP (`Mistaken`).
* `AnswersAreOwn`: `Spec => []LateAccessIsOwn`. `LateInv` adds that of every request that was handed on the head has been copied, which is
  what `HttpServerCodec` does before it calls the next handler, and that copies are never taken back. `SpoiledInv` says that headers are only kept while
  a request that was too large is behind the last one handed on, so that whatever gets them is `Tainted`.
* `TypeCorrect`: `Spec => []TypeOK`. That the buffers hold no more than what arrived needs to know which of them are alive: `Sized` in `TypeInv` bounds the
  leftover and the segment together while they are not joined, and the request in progress by where it starts; `KindsFit` says that no message
  has the kind of a continuation frame.
* `TlsTypeCorrect`, `TlsPlaintextComplete`, about `Tls`, from `VersionsAssumption` and `TlsBoundsAssumption`: `TlsSpec => []P` for `TlsTypeOK` and `PlaintextComplete`.
  Which records are data and were handed on says nothing about what the library has yet to take. `TlsInv` says that on an open
  connection the library has taken every record that is whole, that while the handshake is under way none of them ends it and nothing was handed
  on (`UnderWay`), and that afterwards some record ended it, all that follow are data, and these were handed on (`EndedBy`). A client sends no
  data before its own "finished" (`DataLate`).
* `HeaderRoundTrip`, about `WsFrame` and without assumptions: what `encodeFrame` writes, `channelRead` reads back, flags, opcode and length, and it finds the payload
  behind it, for every length below 2^64. `CutHeaderWaits`: no proper prefix of a header is taken for a header. The arithmetic
  is that of the bytes of a number (`n = 256 * High(n) + Low(n)`), applied once per byte.

`ByteBuf_proofs.tla`, about `TokenBucket`, from `Rate` and `Burst` natural numbers and a single caller:

* `OneCallerSpendsOnce`: `BucketSpec => []NoTokenSpentTwice` if `Threads` has one element. This is the property that `token_bucket` refutes with
  two threads, so what goes wrong there comes from the threads meeting and not from the arithmetic of refills, of the cap or of `setRate`. `CallerInv` says, for each place the caller
  can be at, that what is in the bucket, was spent and is still to be refilled was granted (`Accounted`), with the time since `lastRefill_` or
  since the clock was read.

The proofs hold for every value of the constants, so they cover the sizes the code
really uses (65536 slots of the ring, 256 slots of one second on the wheel, chunks of a file) and any number
of connections.

Every invariant and every action property of a passing run is proved, and so is the refinement of `Mailbox`. Only model-checked is liveness (`AcceptedTaskRuns`, `StopEndsLoop`,
`TimerRuns`, `UnsentDrains`, `SilentPeerClosed`, `ShutdownEnds`, `AcceptedIsServed`, `HandshakeCompletes`): it rests on fairness, whose
`ENABLED` the prover cannot handle.

## 5. What is not modelled

The back ends for kqueue and WSAPoll (kqueue may report one channel twice in a batch, epoll does not); `maxEventsPerPoll`;
the buffer pool and `flushPending()`, which never has anything to do because nothing is put on
`pendingFlush_`; wrap-around of 64-bit counters; the inside of llhttp, OpenSSL and zlib; logging, metrics,
formatting of messages. Request targets that do not begin with "/" (`http://host/path`, `*`, `host:port`). The key-value store of `Context`, whose entries appear as the state of the handlers that keep
them; `GzipHandler` and `DeflateHandler`, which compress without asking; MIME types; cookies; the
masking of payload bytes and the text of the WebSocket handshake; `setSessionCacheSize`. Adding and removing handlers
inside a handler call, which moves the entry that is running and is undefined; `replace()` inside a call is modelled. When `onRead` removes a connection in the middle of
`Channel::handleEvent`, the channel is destroyed under the running call; the model treats
its remaining events as ignored. In the WebSocket layer: a `shared_ptr<WebSocket>` that user code
keeps after the connection is gone, calls on it from threads that are not workers, and
`drain()`, which finds nothing because `publish()` calls back at once. In the server: errors of
`epoll_wait` other than `EINTR`, moving an `EventLoopGroup`, and `next()`, which only tests use.

## 6. Plan

1. The poller's back ends, with events of one batch that arrive for a channel that is gone.
2. The codecs above `Tls`, where segments are what `SSL_read` returned, and their writes below it.
