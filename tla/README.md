# Specifications of RpcLearning

TLA+ models of this repository: an epoll network library (`src/NetServer`), a JSON-RPC
server and client on top of it (`src/RpcServer`), a JSON library (`src/JsonServer`), an
asynchronous logger (`src/LogServer`) and a stub generator (`src/RpcServer/Stub`). Each module
is translated from the source; `PROJECT.json` maps every definition to the lines it stands for.

    tlc -workers 2 -config EventLoop.cfg EventLoop      # model-check
    tlapm EventLoopProofs.tla                           # check the proofs

The repository builds with asserts enabled (no `NDEBUG`), so a failed `assert` is modelled as
the end of the process, and "no assert fails" is a property worth stating. Where the code does fail
one, touches freed memory or contradicts a comment on an ordinary path, the property says exactly
in which circumstances and at which lines, and that nothing else does: section 4 lists these.

## 1. The system

A program has one *base loop* and a pool of *I/O loops*, each an `EventLoop` in a thread of its
own. `Acceptor` and `TcpServer` live in the base loop and hand each accepted connection to an
I/O loop. Whatever happens to a connection happens in its loop; other threads reach it by
queueing tasks (`runInLoop`, `queueInLoop`). The RPC server and client are message callbacks on
connections, with JSON documents framed by a length line. Loggers in any thread push lines to
one writer thread.

| Component | State | Operations | Interacts with |
|---|---|---|---|
| `EventLoop`, `EPoller` | `quit_`, `pendingTasks_` (under `mutex_`), `doingPendingTasks_`, `wakeupFd_`, the registered channels | `loop`, `quit`, `runInLoop`, `queueInLoop`, `wakeup`, `updateChannel` | every thread, by tasks and the eventfd |
| `EventLoopThread`, `CountDownLatch` | `loop_`, `started_`, the latch's count | `startLoop`, `runInThread`, destructor | publishes a loop on another thread's stack, quits and joins it |
| `EventLoopThreadPool` | the threads, `next_` | `start`, `getNextLoop` | `TcpServer` |
| `Buffer` | a byte vector, `readerIndex_`, `writerIndex_` | `append`, `prepend`, `retrieve`, `ensureWriteableBytes`, `readFd` | each connection has an input and an output buffer |
| `TcpConnection`, `Channel` | `state_`, interest set, output buffer | `send`, `shutdown`, `forceClose`, `stopRead`, event handlers | I/O loop, application threads, the owning server or client, the peer |
| `TcpServer`, `Acceptor` | the set of connections, listening socket, spare descriptor | `start`, `newConnection`, `closeConnection`, `handleRead` | base loop and I/O loops |
| `Connector`, `TcpClient` | connecting socket, `retryTimer_`, `connected_`, `connection_` | `start`, `retry`, `newConnection`, `closeConnection` | loop, timer queue, the thread that waits for the connection |
| `TimerQueue`, `Timer` | ordered set of timers, the timerfd | `addTimer`, `cancelTimer`, `handleRead` | loop, callbacks |
| `AsyncWriter`, `FileWriter` | queue (under `mutex_`), `state_`, the file and its size | `push`, `writer`, destructor, `roll_file` | every thread that logs |
| RPC server (`BaseServer`, `RpcServer`, `Service`, `Procedure`) | services and procedures | `onMessage`, `handleRequest`, batches, notifications | connections, JSON, user callbacks in other threads |
| RPC client (`BaseClient`) | `id_`, map of callbacks | `sendCall`, `sendNotify`, `onMessage`, `handleResponse` | callers' threads, the loop |
| JSON (`Value`, `Reader`, writers) | tagged union with shared, counted strings, arrays, objects | copy, move, assign, parse, write | RPC, stub generator |
| `LogLine` | stack buffer, heap buffer, bytes used | `operator<<`, `stringify`, move | loggers |
| Stub generator | the parsed service description | parse, validate, emit | none at run time |

### What makes each component correct, and what is hard about it

- **EventLoop.** Every task handed over runs exactly once, in order; a sleeping loop is always
  woken, but for what its own thread queues before `loop()`. Hard: the wakeup is written after the
  mutex is released, one read of the eventfd swallows many wakeups, and a loop-thread push wakes
  only while tasks run.
- **EventLoopThread.** The published pointer is usable, and destruction ends the thread. Hard:
  the owner is released before `loop()` is entered, and the loop object lives on a stack.
- **Buffer.** The readable bytes are a queue. Hard: three ways of making room, a header kept
  free in front, a read spread over two areas, unsigned arithmetic.
- **TcpConnection.** Bytes accepted reach the wire in order, once, unless the connection breaks;
  `shutdown` waits for them; the connection closes once and is destroyed. Hard: direct and
  buffered writes, partial writes, four sources of a close, `state_` read outside the loop,
  last reference anywhere.
- **TcpServer, Acceptor, pool.** Every accepted descriptor is owned or closed. Hard: two loops
  per connection, the descriptor limit.
- **Connector, TcpClient.** One connection at a time, retried until it is there. Hard: `start`
  assigns `retryTimer_` outside the loop, `retry` destroys a `Connector` that may be mid-connect,
  a callback may destroy the client in mid-round.
- **TimerQueue.** Timers fire at their expiry, never early; each is freed once. Hard: callbacks
  add and cancel while a batch of expired timers is walked.
- **AsyncWriter.** Lines are written once and in order; the destructor returns. Hard: notification
  only for an empty queue, a stop flag set without the mutex.
- **RPC server.** Each call gets one response with its id, each notification none, a batch one
  array. Hard: completion from other threads, exceptions in mid-batch, framing of partial and
  coalesced messages.
- **RPC client.** Each call's callback runs once with its own response. Hard: unlocked ids and
  map, two responses in one read.
- **JSON.** Shared values are freed when and only when the last owner goes; what is written
  parses back, and what is accepted can be written. Hard: an assignment whose source lies inside
  the value it replaces, counts shared by threads, separators and indentation, error paths.
- **LogLine.** What was encoded is decoded, at any length. Hard: switching from stack to heap.

`PROJECT.json` lists the hazards of the code line by line with the properties that cover them,
and, in a note, why none covers the others.

## 2. Plan

Order: first the mechanisms every other part trusts, then what is built on them.

| | Modules | State |
|---|---|---|
| 1 | `EventLoop` and its abstract specification `SerialExecutor` | done, proved |
| 2 | `EventLoopThread`, composing `EventLoop` | done |
| 3 | `Buffer` | done, proved |
| 4 | `TcpConnection`, with its channel, server ownership, peer, and its abstract specification `ByteStream` | done, proved |
| 5 | `AsyncWriter` | done, proved |
| 6 | `TimerQueue` | done, proved |
| 7 | `RpcServer`: framing, validation, dispatch, batches completed by other threads | done, proved with row 8 |
| 8 | `RpcClient`, and `Rpc`, which composes it with the server | done, proved |
| 9 | `TcpClient` with `Connector` and the retry timer | done, proved with row 10 |
| 10 | `TcpServer` with the acceptor and the pool, and `TcpPeers`, which composes it with the client | done, proved |
| 11 | `JsonValue`: the reference counts of a graph of values | done, proved |
| 12 | `JsonText`: the writers and the reader, and `Json`, which runs both sides | done |
| 13 | `LogLine`, file rolling, validation of service descriptions | left |

Every safety property of a passing run is proved, but for `RoundTrip` (section 5); so is what
`SpecWithClosers` of `TcpConnection` keeps although a close from another thread may fail an
assert. The writer of `AsyncWriter` is not shown to implement `SerialExecutor`, whose owner
may run any task at once: it would say less than `EachLineOnce`. The tasks of one connection
do not implement it either, as a handler may run one task and queue another in a single step.

## 3. The modules

### SerialExecutor, EventLoop

`SerialExecutor` is what callers of `queueInLoop` and `runInLoop` rely on: a FIFO queue run one
task at a time, and tasks the loop thread runs on the spot.

`EventLoop` models the loop thread by `pc`, one action per stretch of `loop()` and
`doPendingTasks()`: the test of `quit_`, `poll`, the dispatch of each channel, the swap of the
task vector under the mutex, each task, the end of the batch. A callback or task is a stretch of
time (`pc` is `"callback"` or `"task"`) in which the loop thread may call `queueInLoop`,
`runInLoop` and `quit` any number of times. It may call the first two outside `loop()` as well:
the thread that owns a loop hands tasks over before it enters `loop()`, or after `loop()`
returned. A task queued before `loop()` is written to no eventfd (line 87: the caller is in the
loop thread and no batch runs), and the first `epoll_wait`, whose timeout is -1, sleeps on it
until something else happens; the history variable `early` holds such tasks, and the properties
name them. In another thread `queueInLoop` is two steps: the push under the mutex, then
`wakeup()`. So is `quit`. The history variable `ran` is the order in which tasks start. Channels
are abstract: the kernel may make any ready. The asserts of `loop()` and `quit()` are obligations
of callers in `Next` (`MayQuit`: `quit` once, after `loop()` was entered); `EventLoopThread` shows
what happens otherwise.

### EventLoopThread

Composes `EventLoop` (`INSTANCE`, one owner thread) with the thread that constructs it on its
stack, the latch and the destructor's unsynchronised read of `loop_`, `quit_ = true` and
`wakeup()`, each a step. The EventLoop's destruction is a step, so its use after that is visible.

### Buffer

A value `[buffer_, readerIndex_, writerIndex_]`; each method is an operator, each public call an
action. `content` is the ghost byte queue the buffer stands for. `readFd` models the two areas of
`readv` and the copy from the second. `readFdFails` models `readv` returning -1 as the code sees
it, modulo `SizeMax`. Searches (`findCRLF`) and byte order are left out.

### ByteStream, TcpConnection

`ByteStream` is what callers of `send` and the peer rely on: whole messages are accepted, what
arrives is a beginning of them in order, the end of the stream comes only after all of it, and
nothing after the end.

`TcpConnection` is the connection (`state_`, interest set, output buffer), its I/O loop (events of
one poll not dispatched yet, the batch of tasks, whether an application callback runs), the tasks
queued, the server's reference and its base loop, the references and calls of application threads,
and the socket (input, end of stream, reset, pending error, `SHUT_WR`, free send buffer). Between
`poll` and the connection's turn (`"active"`) nothing keeps it alive; from `Channel::handleEvents`
on `tie_` does. Handlers follow `Channel::handleEventsWithGuard`: close, error, read, write, at
most once each per poll. `sendInLoop` has all its branches: direct write, partial write, EAGAIN,
ECONNRESET, queueing, completion and high-water callbacks. A write to a socket that was shut or
reset raises SIGPIPE unless ECONNRESET is still pending: nothing under `src/` ignores the signal,
so the process ends there (`fate = "SIGPIPE"`) and the branch for EPIPE is not reached. Its assert
comes ahead of the write, so a message that fails it changes nothing else. The callbacks of the
application may send, shut down, close, pause and resume reading. `stopRead` and `startRead` look
at no state: a callback that was queued before a close and runs after it may call `startRead`,
which puts the closed channel back into the poller. That the I/O loop runs queued tasks once and
in order is what `EventLoop` establishes. `Spec` lets threads send and only callbacks close;
`SpecWithClosers` lets threads shut down and close as well, with the test of `state_`, the
exchange and the queueing as separate steps. It contains a behaviour no property here excludes: a
thread's `send` queues its message and its `shutdown` then sets `kDisconnecting` at once; if older
output drains in between, `handleWrite` shuts the socket for writing ahead of the queued message,
whose write then raises SIGPIPE. In `Spec`
only a callback's own `shutdown` can come ahead of a queued message.

### AsyncWriter

`push` under the mutex with its notification, the writer's predicate, sleep, wakeups (spurious
ones too), take and write, the drain loop, and the destructor's flag, notification and join, which
take no mutex. `FileWriter::write` is one step.

### TimerQueue

`addTimer` and `cancelTimer` as they run in the loop thread, from a task or from a callback in the
middle of `handleRead`; `handleRead` step by step: the batch taken out, each callback started and
returned, the restart or deletion, the timerfd armed again. Time is discrete and passes at any
step, callbacks included. `epoll_wait` reports the timerfd before its channel is dispatched, and
what runs in between may arm it anew. Any live timer may be cancelled from any callback, the
running timer's own and the other ones of the batch included, which is what `handleRead` tests
`canceled()` for (`TimerQueue.cpp:104`, `:106`); but `cancelTimer` has deleted the object by then.
The history variable `canceled` holds such timers; where `handleRead` turns to one, `usedFreed` is
set and the model ends. That a caller cancels no timer that is gone already is its obligation.

### RpcServer, RpcClient, Rpc

`RpcServer` is one connection of `BaseServer<RpcServer>` with `Service` and `Procedure`. The
input buffer is a sequence of units, a length line or a body, and a body is itself a line when a
length is expected: that is how the code goes out of step after a bad length. `handler` says where
the loop thread is: polling, in `handleMessage` (which goes on with what the buffer holds after an
exception has been answered and `shutdown` was called), or between two items of a batch. A
request is the record of what `validateRequest`, `validateNotify` and `validateGeneric` tell
apart, and the validation is the list of their tests, in the order of the code, of which the first
that fails throws. A call handed to the user's code is in `pending` until it is answered, at once
or from another thread; a batch's responses are held by the loop and by each pending call, and
whoever lets go last sends the frame. Frames of other threads reach the wire by a task of the loop.

`RpcClient` is `BaseClient`. `sendCall` takes no lock, so it is four steps: the read of `id_` into
the document, the read of `id_` as a key, the store with the increment, the transmission.
`onResponse` is `onMessage` on what one read brought: all of the buffer is consumed with the first
response (`BaseClient.cpp:115`).

`Rpc` joins both by two streams of units that a read may cut anywhere between units, and lets a
raw peer take the stub's place to send any one document, well formed or not, alone or together with
a call, under a right length, one that is too large or one that is no number.

### TcpClient, TcpServer, TcpPeers

`TcpClient` is the client with its `Connector` and its loop. The loop is modelled by rounds, the
channels reported ready, in any order, and then the tasks swapped out, because what is at stake is
an object deleted by one handler and used by a later one. `start()` runs in the loop, or in
another thread line by line (36, 40, the assignment of `retryTimer_`). `tick` is the timer's
expiry, also on the last attempt, `retry` a new Connector in place of one that has not connected;
with no socket left (`MaxConnectors`) the model ends as "out of attempts". `destructor` is the end
of the client anywhere in its loop's thread: between rounds, in a callback of any channel or timer
of the round, in a task, or in the `connectionCallback_` that `newConnection` calls. Whatever
would fail an assert, dereference null or touch freed memory is recorded in `fatal`, and the model
ends there; `met` says which coincidence came before: `"early"` (connected before `start()` was
done in another thread), `"together"` (a retry in one round with the outcome of the connect it
gives up), and, for the destructor, `"held"` (a connection, or its connect still queued),
`"reported"` (its Connector's channel is in `activeChannels_`), `"callback"` (its own
`connectionCallback_`, with the channel's handler on the stack) and `"batch"` (a timer that runs
ahead of its retry timer in one batch).

`TcpServer` is the acceptor with its spare descriptor, the hand-out of connections to the loops of
the pool in turn, `connections_`, and the path a close takes through the base loop back to the
connection's loop. At the limit of descriptors `handleRead` is three steps (close the spare,
accept and drop, open it again), between which another part of the program may take one.

`TcpPeers` joins a server, a client and raw peers by the listen queue: a connect is answered as
soon as the kernel queues it, before the server accepts it; it may be refused or wait.

### JsonValue, JsonText, Json

`JsonValue` is the memory of `json::Value`: slots (variables of threads, elements of containers)
that refer to containers with a count. Copying, moving and destroying are steps; assignments and
setters begin with `~Value` and finish with the read of the source, and in between elements of
dying containers are destroyed one at a time and their memory given back, all interleaved with
other threads. A thread may name what it can reach from its variables (`Closure`, the least closed
set) and may change what no other thread can reach: that is the discipline the code asks of its
users, and the only one assumed. A source whose memory is given back before it is read sets
`lost`. A value may be added to itself (`addValue`, `addMember`), which makes a cycle: `Held` is
what the variables refer to and the containers being destroyed, `Leaked` the containers in use
that `Held` does not reach.

`JsonText` is `FastWriter` and `StyleWriter` with their stack of counters, and the recursive
descent of `Reader` with its errors. A double has a fraction that six decimals hold or one they do
not, which `std::to_string` (`FastWriter.h:52`) loses: `toString`. `Json` runs the two side by
side: a document is written, perhaps damaged by one symbol, and read.

## 4. The runs

| Run | Shows | Bounds |
|---|---|---|
| `event_loop` | no wakeup missed except for tasks of the loop's own thread before `loop()`, at most once and in order (refinement), batches finished before exit, tasks eventually run with the same exception, `quit` noticed | 2 threads, 3 tasks, 1 channel |
| `loop_thread` (violated) | a single `quit()` from `~EventLoopThread` aborts | 1 owner, 1 task |
| `buffer` | the buffer is a byte queue, no assert fails, growth only when compaction cannot help | 2 byte values, sizes 8, 1024, 65536 scaled to 2, calls of up to 3 bytes, at most 5 readable |
| `buffer_read_error` (violated) | `readFd` treats -1 as a length | as above |
| `tcp_connection` | stream intact, interest set right, implements the byte stream (refinement: in order, shutdown after drain), one close, no end of the process but by SIGPIPE, a failing read, or `startRead` after the close, ends after the peer, output drains | 1 thread, 2 messages of 2 bytes, send buffer 2 |
| `tcp_close` (violated) | closing from another thread fails an assert | as above |
| `async_writer` | lines once and in order, no line slept on, lines get written | 3 lines |
| `async_writer_stop` (violated) | the destructor may never return | 1 line |
| `timer_queue` | each timer in one place, timerfd armed for the earliest, a deleted timer used exactly when a callback cancelled one of the batch | 3 timers, clock to 4, intervals 0 and 1 |
| `rpc` | each message answered at most once, batches with one response for each call before the first bad item, error codes name a fault, errors end the service, callbacks get their own response; batches are answered, calls complete unless they are rejected | 2 threads, 2 calls, batches of up to 3, 2 parameters; a raw peer sends 1 or 2 frames |
| `tcp_peers` | freed objects are used in the six coincidences of `met` only, sockets and descriptors have one owner; the client goes on trying until it connects or is out of attempts, the backlog drains | 2 attempts, 1 raw peer, pool of 0 or 2, 2 descriptors, 1 taken by others |
| `json` | counts are the numbers of owners, an assignment loses its source only to itself, only cycles leak, what is written or accepted reads back with doubles of six decimals | 2 threads of 2 variables, 3 containers of 1 element; about 500 documents, 1 damaged symbol |

Why these bounds are enough to matter. *EventLoop*: three tasks let one be in the batch, one
pending and one pushed by a running task, with both threads between push and wakeup. *Buffer*:
with every size 2 one call of 3 bytes overflows the vector, the stack area and the free bytes in
front; the indices are what matters, not the scale. *TcpConnection*: two messages of two bytes
against a send buffer of two that drains a byte at a time reach full, partial and refused direct
writes, partial drains, and a second message behind the first; a message sent by the thread and
one by a callback interleave. *AsyncWriter*: one line in hand, one queued, one arriving at an
empty or a non-empty queue. *TimerQueue*: one timer running, one waiting in the batch, one added
or cancelled meanwhile; a `Timer` object's address is not reused. *Rpc*: two calls overlap in
`sendCall` and their responses meet in one read; a batch of three has a good item, a bad one and
one behind it, with the user's answers in any order around the loop's. *TcpPeers*: one attempt
fails or is given up and the next one succeeds; two connections against the limit of one make the
server use its spare descriptor. *Json*: three containers make a chain of two under a third, so
that a release runs down a chain while another thread holds its end; a container may be copied
into an element of its own, and such a cycle, with what it refers to, is all that is never freed.
Threads, variables and containers are symmetric, and no liveness is checked there. Deadlock is not
checked where the system may stop: an exited loop, a destroyed connection, a joined writer, the
end of the clock, an idle connection, a client that is destroyed or has used freed memory, a
document that has been read; `buffer` checks it.

The violated runs are disagreements between the code and what its comments, asserts or tests say;
`PROJECT.json` quotes each under `findings`. In the passing runs too the code departs from what its
users or its tests may expect; there the property states the departure and excludes any other:

| Property | Departure | Lines |
|---|---|---|
| `NoMissedWakeup`, `TasksEventuallyRun` | a task queued by the loop's own thread before `loop()` gets no wakeup | `EventLoop.cpp:87` |
| `FreedOnlyByCancel` | `handleRead` asks a deleted timer whether it was cancelled | `TimerQueue.cpp:90`, `:104-106` |
| `AssertsHold` | `startRead` from a callback after the close makes `handleRead` or `handleClose` abort; a write to a shut or reset socket raises SIGPIPE | `TcpConnection.cpp:225-230`, `:122`, `:265` |
| `CallsComplete` | a rejected call is answered without its id, so its callback never runs with `isError`, although the comment at `BaseClient.cpp:168` asks for the id and `test/EchoClient.cpp:95-98` for the callback; the connection is shut under the calls behind it | `BaseServer.cpp:47-58` |
| `ClientIsSafe` | the client touches freed memory in the coincidences of `met` | `TcpClient.cpp:27-28`, `:36-40`, `:55`, `:74`, `Channel.cpp:21` |
| `RoundTrip` | doubles keep six decimals, although `testReader.cpp:277-293` expects 1.0000000000000002 and 2.2250738585072014e-308 to come back; keys that need an escape do not | `FastWriter.h:52`, `:119-126` |

### Fairness

Liveness is checked under weak fairness of the loop thread (and of the writer thread, of threads
inside `wakeup()` and `queueInLoop()`, of the destructor): the operating system schedules
runnable threads, and none of these steps waits for anything but its guard. Weak fairness of the
loop as a whole includes that callbacks return. In `TcpConnection` the references of application
threads are dropped with strong fairness, since a thread that holds one for ever keeps the
object alive by right. Nobody is assumed to log, send, close or acknowledge: `OutputDrains` has
the peer's progress as its premise, `EndsAfterPeer` the end of the stream. Interrupted polls and
spurious wakeups are not fair.

In `Rpc`, weak fairness of `Progress` as a whole (loops run what is ready, the network delivers, a
thread inside `sendCall` goes on, the user's procedures answer) is enough, since these
steps are finite between two of the others; nobody has to enter `sendCall` or send a document. That
a procedure answers is an assumption about the user's code. In `TcpPeers` the client's loop and
caller, the server's loops, and the network (a connect is answered, an end of stream arrives) are
weakly fair each; nobody has to dial, close, take a descriptor or destroy the client.

## 5. What is proved

For every value of the constants that satisfies the named assumptions: any number of threads,
tasks, bytes, messages, lines, timers, calls and peers, where a run has two or three. The
assumptions:

| | Says | Because |
|---|---|---|
| `ChannelsAssumption` | the wakeup channel is none of the others | each descriptor has one Channel |
| `SizesAssumption`, `TimesAssumption` | sizes, times and addresses are natural numbers | they are `size_t`, `int64_t` and pointers |
| `ConnectionAssumption` | messages and the socket's buffer have at least one byte | a send of nothing changes nothing; the kernel's buffers are not empty |
| `SlotsAssumption` | threads, variables, containers and elements are finitely many, and a variable is not an element | they lie in memory |
| `ParamsAssumption` | parameters of a procedure have different names | the generator refuses others, `StubGen.cpp:64` |
| `BatchAssumption`, `DescriptorsAssumption`, `MaxConnectorsAssumption` | the bounds of a model are numbers | |
| `PeersAssumption` | the client's sockets are among the server's peers | the two are composed |

- **EventLoopProofs.** `TypeCorrect`. `NoWakeupIsLost`: `NoMissedWakeup` alone is not inductive,
  since the eventfd is emptied before the swap; the invariant `WakeupInv` says where a pending task
  keeps a wakeup due (everywhere but between the return of `poll` and the swap); both except the
  tasks in `early`, and nothing else.
  `LoopExitsBetweenBatches` from the same. `LoopImplementsExecutor`: under the mapping
  `queue <- tasks \o pendingTasks_` every step is a step of `SerialExecutor` or a stutter;
  lemmas on concatenation carry the push and the pop.
- **BufferProofs.** Lemmas say what each method does to a well-formed buffer: it stays well
  formed, and its readable bytes are the expected ones. The invariant joins order of the
  indices, no failed assert, and equality with the ghost queue, because the assert of `makeSpace`
  needs the order and the order needs the methods' preconditions. `BufferTypeCorrect`,
  `BufferAssertsHold` and `BufferIsQueue` follow, and the action property `BufferGrowsWhenFull`:
  lemmas say when `ensureWriteableBytes`, `append` and `readFd` change the size of the vector, and
  the invariant gives the order of the indices they start from.
- **TcpConnectionProofs.** `ConnectionInv`, under `Spec`, where only the loop's own callbacks
  close the connection (asserts may fail under `SpecWithClosers`, as a run shows). The asserts are
  not inductive without what the poller and the queues may still do: `Phase` (nothing precedes
  `connectEstablished`, and it is not queued twice), `Round` (what is left of a round fits where
  the loop is), `Events` (what is reported and may close finds the channel in the poller),
  `Channel` (an open connection is in the poller, a closed one at most for reading) and
  `Ownership` (how far a close has come through the base loop). `NoAssertFails` is the action step
  from it, as no invariant says more of `fate` than the step that set it: `handleRead` and
  `handleClose` abort on a closed connection only, whose channel can have come back through
  `startRead` alone. `Stream` joins the bytes on the wire and in the output buffer with the
  interest in writing, since each of the three properties needs the others when `handleWrite`
  ends. Theorems: `TypesHold`, `NoAssertFails`, `BytesInOrder`, `WaitsWhileOutput`,
  `ShutdownComesLast`, `ClosesOnce`, and `ConnectionImplementsStream`: under the mapping of the
  wire, the bytes accepted and `SHUT_WR` to themselves every step is a step of `ByteStream` or a
  stutter. That the end comes after all bytes needs `ShutdownAfterDrain` and `WriteInterest`
  before the step, since `shutdownInLoop` looks at the interest in writing and not at the output
  buffer. Under `SpecWithClosers` a smaller invariant is left, `ClosersInv`, without `Events`,
  `Ownership` and `ShutdownAfterDrain`: a close may be queued twice, and the socket may be shut
  ahead of a queued message. `ClosersEvents` keeps that a new connection is not in the poller and
  that an event that may close one finds it there. Two theorems remain. `BytesInOrderWithClosers`:
  what is on the wire and in the output buffer is in order and whole, whoever closes.
  `FatesWithClosers`: only six more asserts can fail than under `Spec` (`EPoller.cpp:55`,
  `TcpServer.cpp:76`, `TcpConnection.cpp:66`, `:121`, `:179`, `:263`), and never that of `:74`.
- **RpcProofs.** `RpcInv` for the server and the client that share a stream. For the server:
  `StreamInv` (a length line is followed by its body, a frame comes once), `HandlerInv` (where the
  loop is in a batch), `BatchesInv` (the references of a batch are those of the calls not
  answered and of the loop, and what is due is answered or held), `PendingInv`, `FramesInv`,
  `FramesOnce`, `LeftInv` (what is left to read has not been answered: `FramesOnce` is not
  inductive without it) and `ErrorInv`. For the client: `IdsInv`, `EntriesInv` and `RanInv`; an id
  that is its call's own at the end of `sendCall` is not inductive, so `IdsInv` follows each call
  from the increment on, until two threads meet. Theorems: `AnsweredOnce`, `BatchesComplete`,
  `CodesRight`, `ErrorIsLast`, `CallbackGetsOwn`.
- **TcpPeersProofs.** `PeersInv` is the invariant of the server (`CountInv` counts each descriptor
  once; `TasksInv` pairs each queued task with the state and the owner of its connection), and of
  the client until it ends or touches freed memory (`Ordered` for the tasks of `start()`,
  `StartInv`, `TimerInv`, `ActiveInv` for what a round has reported and not handled, `SocketInv`),
  with `LinkInv` between them: a socket that has not connected is unknown to the server. That
  `ClientIsSafe` names all the ways to freed memory rests on `ActiveInv` and `TimerInv`, which
  follow a retry in the round of another event, and on `DestructorFaults`, which goes through the
  places in a round where the client may end. Theorems: `FreedOnlyInCoincidences`,
  `EveryDescriptorOwned`.
- **AsyncWriterProofs.** `WriterTypeCorrect`, which the others rest on; `WritesInOrder`, from the
  types (a line is in hand exactly while it is written, and taken from a non-empty queue);
  `NoLostNotification`, with the strengthening `SleepInv`: no line comes between the predicate and
  the sleep, as the writer holds the mutex there.
- **TimerQueueProofs.** `QueueInv` joins the types, `EachTimerHeldOnce`, `FreedOnlyByCancel` and
  `CanceledFreed` (a timer cancelled in the batch stays deleted): a timer of the batch is live or
  was cancelled there only while every timer is in one place, which in turn needs that
  `callbackReturns` finds its timer alive. The callers are arbitrary, except that they cancel no
  timer that is gone. `BatchFreedByCancel` says both ways that the use of freed memory at
  `TimerQueue.cpp:104-106` is what such a cancel brings: no other step does, and the walk gets
  past none. `FirstProperties` shows that a set of entries has a first element (from the
  well-foundedness of the naturals, on expiry and then on address), which `ArmedInTime` needs to
  compare the earliest timer before and after a step.
- **JsonValueProofs.** `CountsAreOwnersHolds`: the count of every container is the number of slots
  that refer to it, for any numbers of threads, variables, containers and elements (finite
  ones, `SlotsAssumption`). The invariant `HeapInv` adds `Working` to types and counts: the slot an
  assignment has emptied stays empty until the assignment fills it, and no two threads work on
  one slot. It is needed because `finish` stores into that slot without releasing it; it holds
  since another thread may construct only where the first could not reach, which rests on
  `Writable`. Lemmas give the effect of one release and one new reference on the set of owners,
  with the library's facts on cardinalities.
  `SourcesLostInside` is about what one thread reaches through its variables while others release
  theirs. Its invariant `SourcesInv` adds that free containers are empty (`FreeIsEmpty`), that the
  slots an operation names lie in containers in use (`InUse`), that no other thread reaches those
  it changes (`Isolated`), and that it goes on reaching them itself (`StillHeld`), unless the source
  lay inside the old value. Reachability is a least closed set: `CutKeeps` says which of it a
  release leaves, `ReachSpreads` what a store adds, `OwnKept` that what another thread does takes
  nothing away.
  `CountingLeaksOnlyCycles`: a container in use that nothing reaches any more lies on a cycle
  or below one. By the counts and `FreeIsEmpty` it has an owner, which is leaked as well; of the
  leaked containers that reach it, the one that reaches most is reached by its own owner,
  and hence contains itself. There is a most, as they are finitely many.

Checked by TLC only:

- the liveness properties (`TasksEventuallyRun`, `QuitEventuallyExits`, `EndsAfterPeer`,
  `OutputDrains`, `LinesGetWritten`, `BatchesAreAnswered`, `CallsComplete`, `ClientConnects`,
  `BacklogDrains`): fairness, through `ENABLED`, is out of the prover's reach;
- `RoundTrip`, what the writers and the reader of JSON compute: it is by induction over documents
  and through `RECURSIVE` operators, neither of which the prover supports;
- what the violated runs find: `EventLoopThread`, `SpecWithReadErrors` of `Buffer`,
  `SpecWithClosers` of `TcpConnection`, and the stop of `AsyncWriter`.

## 6. Not modelled

Components left out: `LogLine`, rolling of files and the stub generator's validation (section 2);
for good, the text of generated stubs, logging macros and the console logger (no state), address
and time conversions.

What the models leave out or assume, by module:

- *EventLoop*: `EPoller`'s use of pointers into `epoll_event`, and the data races on plain flags
  (`quit_` is atomic, `state_` of `AsyncWriter` is not) beyond the order of their accesses: reads
  and writes of a flag are single steps.
- *TcpConnection*: `startRead` and `stopRead` are called from callbacks only; what `Buffer` and
  `EventLoop` establish is used, not repeated. In the loop's own thread `shutdown` and `forceClose`
  are called on a connection that is not closed, as their caller can see. What follows a failed
  assert, SIGPIPE or a freed channel is not modelled.
- *RpcServer*: services are registered before the server starts; the output buffer is only whether
  it holds up a shutdown; reads split at units. A user's procedure is taken to answer each call
  once.
- *RpcClient*: what a `std::map` does when two threads are inside it. `OwnResponse` and
  `CallsComplete` say nothing of calls that overlapped another thread's `sendCall`, and
  `CallsComplete` nothing of responses that met another one in the buffer: in both cases the code
  does mix up or lose responses. Nor does `CallsComplete` promise anything to calls behind an error
  response, which ends the service. `sendNotify` keeps nothing and is left out.
- *TimerQueue*: `cancelTimer` of a timer that is gone already, an obligation of its callers.
- *TcpClient*: `getTcpConnection` and a destructor in another thread, or before `start()` has
  returned. `Connector`'s
  `createSocket` has no return statement; it is taken to return its socket. A connect that ends at
  once aborts in `EPoller` (`Connector.cpp:61`): the model stops there.
- *TcpServer*: the server lives as long as its loop.
- *JsonValue*: scalars are all null; threads are taken not to change a container another thread can
  reach; after a lost source is read anything may happen, so the model ends.
- *JsonText*: bytes beyond ASCII, surrogate pairs and other `\u` escapes, decimal conversion
  beyond which fractions six decimals hold, digits beyond `int64_t`; the file streams,
  of which `FileReadStream` takes `strlen` of a buffer it does not terminate. Some behaviours
  of the code are in the model because the code has them: keys are written without
  escapes (`FastWriter.h:119`), which `RoundTrip` excepts; a missing comma between elements is
  passed over (`Reader.h:335`); a string that does not end, alone in a text, is
  accepted as null; a
  key that occurs twice fails an assert.
