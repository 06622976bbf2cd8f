# muduoX in TLA+

muduoX is a C++ network library in the style of muduo (reactor loops, one per
thread, TCP connections, timers, asynchronous logging) with an HTTP server and
io_uring file reads on top. This directory models the library, its logger, its
memory pool and the HTTP server in TLA+, checks them with TLC on small instances
and proves their safety properties with TLAPS, with one exception (section 4).
`PROJECT.json` holds the machine-readable side: components, runs, mutants, the map
from definitions to source lines, findings, hazards, theorems.

Paths below are relative to the repository root (`src/` in `PROJECT.json` is
that root, so `src/src/EventLoop.cpp` is the repository's `src/EventLoop.cpp`).

## 1. Inventory

| Component | State | Operations | Talks to |
|---|---|---|---|
| EventLoop | `quit_`, `pendingFunctors_` + mutex, `callingPendingFunctors_`, `wakeupFd_`, `activeChannels_` | `loop`, `quit`, `runInLoop`, `queueInLoop`, `wakeup`, `handleRead`, `doPendingFunctors` | Poller, TimerQueue; called by every thread |
| EventLoopThread, Thread | `loop_` + mutex + condition, the thread | `startLoop`, `threadFunc`, destructor, `start`, `join` | owns one EventLoop on the thread's stack |
| Channel, EPollPoller | `events_`, `index_`, `channels_` (fd -> Channel*), the kernel's epoll set | enable/disable, callback setters, `remove`, `updateChannel`, `removeChannel`, `poll` | the kernel; called by everything with a descriptor |
| TcpConnection | `state_`, `outputBuffer_`, `inputBuffer_`, channel | `send`, `sendFile`, `shutdown`, `connectEstablished`, `connectDestroyed`, four event handlers | its loop's queue, the socket, application callbacks |
| TcpServer, Acceptor, EventLoopThreadPool | `connections_`, `nextConnId_`, `loops_`, `next_` | `start`, `newConnection`, `removeConnection`, `removeConnectionInLoop`, destructor, `getNextLoop` | base loop and I/O loops through their queues |
| TimerQueue, Timer | `timers_`, `activeTimers_`, `cancelingTimers_`, `callingExpiredTimers_`, timerfd | `addTimer`, `cancel`, `handleRead`, `getExpired`, `reset`, `insert` | its loop's queue, the kernel's timerfd |
| AsyncLogging, FixedBuffer | `currentBuffer_`, `nextBuffer_`, `buffers_` + mutex + condition, `running_`; the backend's two spares | `append`, `start`, `stop`, `threadFunc` | every logging thread, LogFile |
| LogFile, FileUtil | file, written bytes, roll and flush times | `append`, `rollFile`, `flush` | the file system |
| Buffer | reader and writer index over a vector | `append`, `retrieve`, `makeSpace`, `readFd`, `writeFd` | sockets |
| HttpContext | parser state of one connection | `parseRequest`, `parseURI`, `parseHeaders` | Buffer |
| HttpServer | per-connection context | `onConnection`, `onMessage`, `onRequest`, `handleStaticFile` | TcpServer, UringManager |
| UringManager | submission ring, `activeIOs_`, `pendingIOs_` | `appendIOContext`, `handEventRead`, `handleCQE` | its loop, the kernel |
| MemoryPool | free list, current block, two mutexes; 64 pools by size | `allocate`, `deallocate`, `allocateNewBlock` | initialised by `http/main.cpp`; no source allocates from it |
| Logger, Socket, InetAddress, TimeStamp, CurrentThread | none that is shared | wrappers and formatting | - |
| Lfu.h | - | not part of the build | - |

What is hard here, and what a unit test would hardly reach:

* the two-step hand-over of work to a loop (queue, then wake) against the loop's
  own two steps (read the eventfd, then swap the queue), and `quit`;
* the start and end of a loop thread: publication of a stack object, destructor;
* the poller's three views of one channel, with setters that call `update()` as
  a side effect and descriptors that are reused;
* the byte stream of a connection through direct writes, the buffer, files,
  shutdowns from other threads, and a peer that closes or resets at any time;
* the life of a connection across two loops and three kinds of owner;
* timers that are cancelled by their own batch, by stale ids, by other threads;
* the double-buffered log with its spare buffers and an unlocked writer, and the
  files it is rolled into;
* a request parser that is resumed wherever a read happened to end, over a buffer
  that moves its bytes;
* files read for a connection of one loop on the ring of another, a ring that is
  full, submits that fail, and answers that come back while others are sent;
* a free list that one mutex protects and another one's owner clears.

Each of these has entries under `hazards` with the source line where it bites
and the properties that would catch it. Hazards without a property say why.

## 2. Modules

| Module | Models | Used by |
|---|---|---|
| `Executor` | abstract: a serial executor of functors | `EventLoop!Refines` |
| `EventLoop` | `src/EventLoop.cpp` | `EventLoopThread`, `EventLoopProofs` |
| `EventLoopThread` | `src/EventLoopThread.cpp`, `src/Thread.cpp`, composed with `EventLoop` | runs, `EventLoopProofs` |
| `EPollPoller` | `src/Channel.cpp`, `src/EPollPoller.cpp` and the kernel's set | runs, `EPollPollerProofs` |
| `TcpConnection` | `src/TcpConnection.cpp`, `Channel::handleEventWithGuard` | runs, `TcpConnectionProofs` |
| `TcpServer` (`MCTcpServer`) | `src/TcpServer.cpp`, `Acceptor.cpp`, `EventLoopThreadPool.cpp` and the life cycle part of `TcpConnection.cpp` | runs, `TcpServerProofs` |
| `TimerQueue` | `src/TimerQueue.cpp`, `Timer.cpp` | runs, `TimerQueueProofs` |
| `LogFile` | `log/LogFile.cpp`, `log/FileUtile.cpp`, as operators | `AsyncLogging` |
| `AsyncLogging` | `log/AsyncLogging.cpp` with its `LogFile` | runs, `AsyncLoggingProofs` |
| `Buffer` | `include/Buffer.h`, `src/Buffer.cpp`, as operators | `HttpContext` |
| `HttpContext` | `http/HttpContext.cpp`, `http/HttpRequest.h`, as operators | `HttpServer` |
| `UringManager` | `src/IOuring.cpp` and the ring | `HttpServer` |
| `HttpServer` (`MCHttpServer`) | `http/HttpServer.cpp` and the routing of `http/main.cpp`, composed of the three above | runs, `HttpServerProofs` |
| `MemoryPool` | `memory/MemoryPool.cpp` | runs, `MemoryPoolProofs` |
| `EventLoopProofs`, `EPollPollerProofs`, `TcpConnectionProofs`, `TcpServerProofs`, `TimerQueueProofs`, `AsyncLoggingProofs`, `MemoryPoolProofs`, `HttpServerProofs` | TLAPS proofs | - |

Variables keep the names of the members they stand for (`pendingFunctors_`,
`index_`, `activeTimers_`); variables without a trailing underscore are local
variables, program counters, the environment, or history (the comment says so).
Every module writes the mutants of a definition right before it: the plausible
bug that the property named in `PROJECT.json` has to notice.

**EventLoop.** `pc` is the place of the loop's thread. A call from another
thread is two steps, `queueInLoop` (the locked `emplace_back`) or `quit` (the
store), then `wakeup` (the write); `waking` are the threads in between. The
loop's own thread calls only from application code: before `loop()`, in a
channel callback (`"io"` among `activeChannels_`), or in a functor. `epoll_wait`
may return with any set of channels but not empty while the eventfd is readable.
The 10 s timeout is the empty return; no property relies on it.

**EventLoopThread.** The owner goes through `Thread::start` (semaphore),
`startLoop` (condition variable), use, destructor; the new thread through
construction, publication, `loop()`, reset of `loop_`, destruction. The
destructor's read of `loop_` without the mutex is a step of its own.

**EPollPoller.** `epoll` is the kernel's set with the rules of `epoll_ctl`: ADD
of a member, MOD and DEL of a non-member fail; the first two are `LOG_FATAL`.
Closing a descriptor removes it from the set. Everything runs on the loop's
thread, in any order.

**TcpConnection.** Byte `k` of message `m` is `<<m, k>>`. `write` takes any
prefix; 0 stands for EWOULDBLOCK. `file` is the rest of a file while
`sendFileInLoop` calls itself through `runInLoop`; the loop does nothing else
meanwhile, as in the code. `pending` is the loop's functor queue, used as the
executor that `EventLoop` is proved to implement. Calls from other threads test
`state_` in one step and act in another. The peer may send FIN or RST at any
time; how epoll reports that is `Reportable`. What a functor finds at the address
that `send` bound on another thread is `BoundBytes`: the bytes of the call, as many
others, or none, since the code does not copy them.

**TcpServer.** Each loop has a queue, an activity and a set of channels that its
last poll returned. A connection is reduced to `state_`, its channel's standing
with the poller, and its owners (`Alive`). The constructor's four setters are
four steps on the base thread, because the I/O loop's thread can poll and
dispatch between them. Simultaneous use of the poller's `unordered_map` is a
data race; the passing run treats each update as atomic, and the run
`poller_confinement` shows that two threads do get there at the same time.
`~TcpServer` goes through a hash map: on each loop the functors of its
connections may come in any order (`MapOrders`). Threads of the application that
hold a connection call `shutdown()` at any time: the test of `state_` and the store
of `kDisconnecting` are two steps (`closing` in between), so that the store may
overwrite `kDisconnected`.

**TimerQueue.** Time is relative to now, so that the state space is finite
without a last moment and liveness can be checked: an expiration is the number
of ticks to go, `Tick` moves all of them and the timerfd. Addresses come from a
small set and are used again; sequence numbers are not. `addTimer` on another
thread is two steps: it posts the timer (`returning`), and reads `timer->sequence()`
for the id it returns (`ReturnId`), when the timer may be gone and its address free
or another timer's. A ticket keeps an id together with the timer it was meant for
and whether it was read too late. `MinDelay` is the
100 microseconds of `howMuchTimeFromNow`. `getExpired` is given as the sequences
that list the due entries in the order of the set, of which there is one.

**AsyncLogging.** Buffers are sequences of lines; a line fits when `avail` is
greater than its length, as in the code. A failing write drops the rest of its
buffer, as `FileUtil::append` does. The backend's `LogFile` is a record that the
operators of module `LogFile` change; the clock may move on by any amount where
the code reads it, and twice within one append, since `rollFile` reads it again.
A file's lines are kept with how many of them have been flushed; of the closed
files the last is kept whole for `FilesBounded`.

**Buffer, HttpContext.** A buffer is a vector with two indices and keeps the
bytes outside them, because `parseURI` looks at the byte behind a carriage return
that may be the last one received (`PastWriter`: an older byte, or anything when
the vector ends there). Bytes are symbols, and words that are only compared as a
whole are one symbol. The parser keeps its two state machines; the four pointers
of `parseHeaders` are locals, null at the start of each call, while `hState_` is
a member. A null pointer that is used, and an exception of `std::string` or
`std::stoul` that nobody catches, are the flag `"CRASH"`.

**UringManager.** `sq` are prepared entries, `inflight` those the kernel has,
`cq` completions. A failed `io_uring_submit` leaves its entry in `sq` for the
next one. A request that finds `sq` full goes to `pendingIOs_`, and every handled
completion appends one of those again (which may put it back at the end).

**HttpServer.** One connection, on an I/O loop of its own or on the base loop
(`sameLoop`), because static files are always read on the base loop's ring.
`parsed` are the requests given to `onRequest`, `replies` what was sent. A reply
is its status, the request it answers and whether it closes the connection;
sending is one step, since partial writes are the subject of `TcpConnection`. The
client's script fixes its requests; where reads cut the bytes is free within the
script's bounds. `Files` and `Writable` stand for what is below the web root:
`registerFile` opens for reading and writing, so a read-only file is a 404.

**MemoryPool.** One pool. Addresses are numbers, `next` is the first word of each
slot that has been cut from a block. The unlocked test of `freeList_`, the two
accesses of the pop, the two of `deallocate` and the clearing by a new block are
steps of their own; the second access of the pop may use the value already
loaded or load `freeList_` again, as a build may.

## 3. Runs

| Run | Bounds | Distinct states | Result |
|---|---|---|---|
| `event_loop_thread` | owner, one more thread, loop thread, 3 functors | 56,136 | passes |
| `poller` | 3 channels, 2 descriptors | 31,240 | passes |
| `tcp_connection` | 1 other thread, 2 messages of 2 bytes or files of 2, high-water mark 2 | 321,282 | passes |
| `tcp_server` | 0, 1 or 2 I/O loops, 2 connections, any number of threads in `shutdown()` | 784,118 | passes |
| `timer_queue` | 3 timers on 2 addresses, 1 other thread inside `addTimer` at a time, 1 cancel, delays 0 and 2, intervals 0 and 1, lateness 1 | 651,507 | passes |
| `async_logging` | 3 lines of length 1 or 2, buffers of 3, 1 failing write, clock up to 3 s, days of 2 s, files of 2 bytes, day test every 2 writes | 171,352 | passes |
| `http_server` | 11 scripts of 1 to 4 requests, up to 3 reads cut anywhere, buffer 1 + 20 bytes, ring of 2, 2 failing submits, 1 failing read | 116,368 | passes |
| `memory_pool` | 3 threads, 2 blocks of 2 or 3 slots | 53,934 (up to symmetry) | passes |
| `quit_before_loop` | owner, loop thread, 2 functors | - | `JoinReturns` violated |
| `foreign_send` | as `tcp_connection` | - | `SentBytesUnchanged` violated |
| `poller_confinement` | as `tcp_server` | - | `OneThreadPerPoller` violated |
| `split_request` | one request, cut once | - | `AnyCutParses` violated |

Why the bounds are enough for the cases that matter:

* three functors: one in the running batch, one queued meanwhile by it, one by
  another thread; two foreign threads can both be between store and wake-up;
* three channels on two descriptors: one descriptor is reused while the other is
  live; all orders of operations are explored, since nothing bounds their number;
* two messages of two bytes: one can be partly written while the other waits, and the
  second crosses the high-water mark; a temporary that is gone sends none;
* two connections on two loops: each loop has its own, or one loop has both with
  a single loop; base loop, I/O loop and `shutdown()` steps interleave freely;
* three timers on two addresses force a reuse; the cancel may be stale, too early, of
  an id read too late, from a batch, from the loop or from another thread. The
  properties speak of one cancel each, and the proofs bound neither number;
* three lines fill a buffer and start another while the backend writes, so that
  both spares are used; the files are so small that each buffer can be the one
  that has to roll, in the second of the last roll, later, or on another day;
* two requests with every cut of their bytes in two reads, and one with a body in
  three, over a buffer that is too small for both, so that it compacts, grows and
  spills; four files at once against a ring of two, which two failed submits fill;
* three threads on a pool: one clears the list while one pops and one pushes; the
  blocks have different alignment, so that one has fewer slots.

What each property says is in the comment above it. In short: `NoLostWakeup`,
`NoLostQuit`, `QueuedRuns`, `QuitEndsLoop`, `Refines` for the loop;
`PublishedLoopAlive`, `StartReturns`, `DtorLeavesNoThread` for its thread; `KernelMatchesIndex`, `NeverFatal`,
`NoDanglingChannel` for the poller; `StreamIntact`, `WritingIffBuffered`,
`FinAfterData`, `CompletionAnnounced`, `BufferDrains`, `ShutdownCompletes`,
`PeerCloseNoticed` for a connection; `ChannelOwned`, `EstablishedFirst`,
`CallbacksPaired`, `RoundRobin`, `Reclaimed` for the server; `OneOwner`,
`ArmedForEarliest`, `CancelFinal`, `OnlyOwnCancel`, `Fires` for timers;
`LogIntact`, `BuffersSuffice`, `FullBufferNoticed`, `FilesBounded`, `LineWritten`
for the log; `ParsedAsSent`, `BufferIsQueue`, `AnswersInTurn`, `ReadsAccounted`,
`Answered` for the HTTP server; `SlotsDisjoint`, `SlotsAccounted` for the pool.
The `TypeOK` of a module is the type part of the invariants that are proved about
it; the runs check the properties above and not the types.

The four violation runs are disagreements between a comment or the README and
the code; `findings` quotes both sides:

1. `loop()` resets `quit_` and erases a `quit()` that came after publication.
2. `send()` from another thread does not copy and may send other bytes.
3. A connection's constructor touches the I/O loop's poller from the base thread.
4. A request that is cut in the wrong place by two reads is not parsed like the
   whole: behind the carriage return of the request line, or inside the headers.
   `ParsedAsSent` shows that every other cut is handled (`SafeCut`).

Some properties have exceptions: cases in which the code does not do what the rest
of the property says. Each exception is a named part of the property or of the state.
The first three concern something the repository's comments do speak of:

* `OnlyOwnCancel` excepts tickets that are `late`: another thread's `addTimer` read
  the sequence number after the loop had freed its timer, the id is that of another
  timer at the same address, and cancelling it removes that one. `TimerQueue.h:27`
  says that `addTimer` must be thread-safe.
* `CancelFinal` excepts `tooEarly`: a cancel on the loop's thread overtakes an
  addition that another thread has queued, finds nothing and is forgotten.
  `TimerQueue.h:20` calls adding and cancelling thread-safe.
* `SlotsAccounted` excepts `cleared`: slots given back between the test of the free
  list and the new block are lost until the process ends. `LoadNext` follows a null
  pointer when the list is cleared under it, which ends the run (`alive`) and is
  reported by no property. `MemoryPool.h:41` says that `mutexForFreeList_` makes
  operations on `freeList_` atomic; `allocateNewBlock` does not take it.

No document speaks of the others:

* `CallbacksPaired` excepts a connection that is `kDisconnecting` when `~TcpServer`
  destroys it: `connectDestroyed` (`TcpConnection.cpp:131`) removes its channel and
  does not call `connectionCallback_`. It also excepts `early` connections, which had
  an event before `connectEstablished`.
* `BufferDrains`, `ShutdownCompletes` and `PeerCloseNoticed` except `InSendFile`: the
  recursion of `sendFileInLoop` may never come back to the loop.
* `DtorLeavesNoThread` excepts a loop that a callback has ended itself.
* `AnswersInTurn` promises the order only to a client that waits for each answer
  (`~pipelined`): behind a static file, the answer to a later request goes first.
* `Answered` excepts `Stranded`: after failed submits an entry stays in the ring
  until the next request; a ring full of them is never submitted again, since
  `appendIOContext` submits only after it has got an entry.
* `Answered` and `ReadsAccounted` end with the connection: a failed read shuts it
  down and takes the answers to other requests with it, and so does the answer
  that closes.
* `ParsedAsSent` is about requests with a header (`Supported`): `H_START` skips the
  empty line, so a request without headers is never complete.
* `FilesBounded` excepts the first second of a file and what failed writes wrote.

### Fairness

* Threads that can run are scheduled; callbacks and functors return. `WF` of the
  loop's steps, of a pending `wakeup`, of the backend's and owner's steps.
* `epoll_wait` returns when a descriptor is ready: `WF` of a poll with a readable
  eventfd. For a connection, `SF` of a poll that reports a writable socket or a
  closed peer: `loop()` alternates between one poll and one round of functors,
  so neither can starve the other, and epoll is level triggered.
* Time passes (`WF` of `Tick`), and `wait_for` of the logger honours its limit.
* The threads of `HttpServer` are scheduled (`WF` of `IoStep` and `BaseStep`) and
  the kernel finishes the reads it has (`WF` of `Kernel`). `MemoryPool` states no
  fairness: it has only safety properties.
* Deadlock is not checked for `HttpServer` and `MemoryPool`: a server whose client
  has nothing more to send stops, and so does a pool after the process has ended.
* Nothing is assumed of the application (who calls what, and when), of clients,
  or of a peer beyond what the property's premise says.

## 4. Proofs

TLAPS proves the following for every value of the constants: any number of
threads, functors, channels, descriptors, messages, connections, loops, timers,
lines, blocks, requests and reads, and any sizes and limits. Every safety property
that a passing run checks is a theorem, `ParsedAsSent` excepted; so are the refinement
`Refines` and the action property `OnlyOwnCancel`. `AnswersInTurn` rests on a part of
`ParsedAsSent`, which its theorem has as a hypothesis.

What is assumed of the constants, beyond that bounds are natural numbers:

* the loop's thread is not among the foreign ones, the owner is, and `None` is not
  a channel;
* each I/O thread has a loop of its own, which is not the base loop
  (`LoopsAssumption`): `threadFunc` makes the loop on its own stack;
* a line is shorter than a log buffer (`BufferAssumption`: a line is put together in
  a `kSmallBuffer`);
* a day has seconds and the day test comes every `checkEveryN_ > 0` writes: its
  default is 1024 and no caller passes another (`LogFileAssumption`);
* blocks do not overlap, a slot has room for a pointer and a block for two slots
  (`PoolAssumption`: `HashBucket` makes slots of 8 to 512 bytes in blocks of 4096);
* the scripts of clients are sequences of requests (`ScriptAssumption`).

Each proof has one inductive invariant, `IInv` (`TInv` for the thread; `HttpServer` has
three). The parts that are not themselves properties are there because a property
alone is not inductive; TLC has checked them on the instances of section 3.

**`EventLoopProofs`.** `NoLostWakeup` speaks of `test` and `poll` only, but the loop
reaches them from `run`, `functor` and `created` without swapping the queue. `IInv`
adds

* `Covered`: the same statement at every place from which the loop can reach
  epoll_wait without a swap;
* `CallingInDrain`: `callingPendingFunctors_` is set exactly inside
  `doPendingFunctors`, which is why a re-entrant `queueInLoop` knows that it has
  to write a wake-up;
* `BatchOnlyInDrain`: the local vector is empty outside the drain;
* `TypeOK` and `NoLostQuit`.

`Refinement` proves that `EventLoop` implements `Executor` under the mapping
`queue <- functors \o pendingFunctors_`: emplacing is `Submit`, the swap is a
stutter because the batch was empty, running is `Execute`, leaving is `Stop`.

The second half is about `EventLoopThread`. `ThreadRunsEventLoop` shows that a step of the
composition is a step of the loop or leaves it alone, so that everything above
holds of the loop of an `EventLoopThread` (`ThreadLoopCorrect`). The invariant of the
composition: `loop_` is set exactly between publication and reset
(`PointerMatchesThread`); `startLoop` does not return before publication
(`StartOrder`); the thread leaves `loop()` only when somebody has called `quit()`,
the destructor or a callback (`ExitCause`).

**`EPollPollerProofs`.** `KernelMatchesIndex` alone says nothing of the map or of
descriptors without a live channel. The invariant adds that the map's entry for
a live channel is the channel exactly when its `index_` is not `kNew`, that two
live channels never share a descriptor, and that a closed descriptor is in
neither structure.

**`TcpConnectionProofs`.** `StreamIntact`, `WritingIffBuffered` and `FinAfterData`
support one another: a direct write is only in order because an idle channel means
an empty buffer, and a FIN leaves nothing behind for the same reason. `PendingOK`
says which functors are queued. `CompletionAnnounced` excepts a file in
transmission, and its exception can end in two ways; `AnnouncedInv` therefore drops
it where the connection is already down, on which the recursion of
`sendFileInLoop` has written nothing.

**`TcpServerProofs`.** The properties speak of one moment of a connection's life;
the invariant says where it can be at any moment.

* `Places`: functors, activities and captured channels are those of a connection
  that exists, on the loop where they belong;
* `Serial`: a loop with captured channels runs only their callbacks, each once;
* `Establishing`: `connectEstablished` is on its way exactly once until it has run,
  and ahead of every queued `connectDestroyed` of the same loop. This is what
  makes the FIFO of the functor queue matter;
* `Owned`: a channel in a poller belongs to a connection that is in the map, in
  its constructor, or bound to a `connectDestroyed` still to come;
* `Leaving`: a `remove` or `connectDestroyed` is on its way only when the application
  has been told, or when `~TcpServer` sent it;
* `Paired`: a connection without an event before `connectEstablished` is not up
  yet, up, down, or dropped by `~TcpServer` while it was `kDisconnecting`, with state,
  channel and callbacks in agreement, whatever a `shutdown()` on another thread does
  to `state_`. Only the server's end leads to the last of the four: that is `Leaving`;
* `Dealing`: after k full rounds every loop has k connections and the ones before
  `next_` one more.

This proof found an error of the model: `handleClose` took a connection that is not
in `connections_` while the base loop works on it as not owned yet, which is also
true of a second removal of an old connection. It now looks at the stages of
`newConnection` (`CtorOps`).

**`TimerQueueProofs`.** `OneOwner` is about sets of addresses; `Owned` says the same
of each address, which is what a step changes. `HeapInv` says that sequence numbers
are handed out once (the reason why an old `TimerId` is harmless), and `IdsInv` that
an id is that of its timer unless it was read when the timer was gone,
`QueueInv` that a queued addition is the only one of its timer, `BatchInv` that there
is a batch only within `handleRead`, and `CancelInv` that a cancelled timer that still
exists is in the batch and in `cancelingTimers_`, which is why `reset` does not repeat
it. That a finite set of timers has an earliest one is proved by least
counterexample. The action property `OnlyOwnCancel` follows from the invariant, step
by step.

**`AsyncLoggingProofs`.**

* `Spares` and `SpareGoneFull` count buffers over the steps of a round: a spare that
  is used up has become one of the buffers that are being written, and
  `nextBuffer_` is missing only when a full buffer is queued;
* `KeptInv` for `LogIntact`: the accepted lines are numbered, and those in the
  file, in the buffers being written, in `buffers_` and in `currentBuffer_` ascend and
  are all of them but the lost ones;
* `Fits`: no buffer is longer than `kLargeBuffer`, which bounds what one `append` of
  the file adds;
* `Began`, `SizeInv` and `DayInv` for `FilesBounded`: the counters of `LogFile` against
  what its file really holds, failed writes included.

The recursive functions behind the model's operators, `FlattenSeq` and `Length`, are
characterised first: induction over a set of numbers or sequences (`NatSets`,
`SeqSets`, from the well-foundedness of the naturals) needs no predicate as a
parameter. `LogIntact` says "ascending, and the same set" instead of comparing with
a filtered sequence, so that it can be reasoned about in this way; the two say the
same because lines are numbered. `Length` is a recursive function for this reason.

**`MemoryPoolProofs`.** The free list is a chain through memory: `Listed` is the
smallest set that has its head and what its members point to, so that membership
is proved by exhibiting a set and needs no induction.

* `ChainsInv`: the slots the application does not have are joined by their pointers in
  chains that never meet, and nothing points to a head;
* `HandsInv`: what the one thread inside the mutex of the free list has in its hands is
  such a head. A new block clears `freeList_` without that mutex, so all that is known
  of `freeList_` meanwhile is that it is what the thread saw or null;
* `AccountInv`: in the second case the slots behind the thread's slot are in `cleared`;
* `BlocksInv`: slots are aligned and inside their block, and those of the current block
  lie before `curSlot_`. `SlotsDoNotOverlap` is a consequence.

**`HttpServerProofs`.** Three invariants:

* `IInv` follows an answer through the queues. `RingInv`: the prepared entries, the
  reads in the kernel and the completions are disjoint and together the keys of
  `activeIOs_`. `PlacesInv`: each request given to `onRequest` is in at most one of the
  two functor queues, the overflow queue, the active reads and the answers, and in one
  while the connection is up. `ClosedInv`: nothing follows a closing answer.
  `ReadsAccounted` and the first two parts of `AnswersInTurn`
  (`NoRequestIsAnsweredTwice`) follow, whatever the parser does;
* `TurnInv`, for a client that waits: it has sent nothing behind the request after its
  last answer. With `NotAhead`, only that request can be under way, and its answer is
  the next. `NotAhead` is a hypothesis because it is false of arbitrary streams: a body
  that `Content-Length` does not announce is parsed as the next request. It is part of
  `ParsedAsSent`, where TLC checks it;
* `BufferInv` for `BufferIsQueue`: the buffer holds the bytes m+1 to n of the stream
  (`Holds`). One lemma for each operator of `Buffer` says how it moves m and n, and the
  lemmas about the states of the parser only have to say that it retrieves. Of the
  recursion of `parseHeaders` it is enough that it ends with a number for `last`.

Only model-checked:

* all liveness properties (fairness and `ENABLED` are outside the prover):
  `QueuedRuns`, `QuitEndsLoop`, `StartReturns`, `BufferDrains`, `ShutdownCompletes`,
  `PeerCloseNoticed`, `Reclaimed`, `Fires`, `LineWritten`, `Answered`;
* `ParsedAsSent`, and with it `NotAhead`: what the recursive functions of the parser
  compute from the bytes of a script is an induction over those bytes.

## 5. Not modelled, and assumptions

* SIGPIPE: a write to a broken connection is modelled as returning EPIPE. The
  repository nowhere ignores the signal; without that the process would end.
* Use after destruction through the raw `this` of functors (the functors of `send` and
  `shutdown`, `TcpConnection.cpp:70` and `:114`, may outlive the connection) is not
  represented: the object stays in the model. The same holds of a `shutdown()` on a
  connection whose loop has ended, which the guard of `TcpServer!shutdown` leaves out.
* The read of `timer->sequence()` after the loop has freed the timer
  (`TimerQueue.cpp:96`) is modelled by its value: any number, or that of the timer
  which has the address by then. That reading freed memory may also end the process
  is left out.
* `sendFile` of an empty file (`FileLens`): no bytes, only a completion callback.
* Wall-clock jumps between `Timestamp::now()` and the monotonic timerfd.
* The size of `EPollPoller::events_`, and that of a connection's output buffer.
* Integer overflow of `next_` and `nextConnId_` after 2^31 connections.
* The memory of a read: the entry of a failed submit keeps a pointer to the iovec
  of a context that has been copied since (`IOuring.cpp:101` and `:113`).
* An `fopen` that fails: `FileUtil` goes on with a null stream.
* A failing `accept` changes no state; that the loop spins on it is not a property
  of states.
* Spelling: `HttpResponse`, MIME types, `Logger`, `LogStream`, file names.
* `Socket`, `InetAddress`, `TimeStamp`, `CurrentThread`: wrappers without state.
* `Lfu.h`: no source includes it and its base class does not exist.
* `examples/testserver.cpp`: a demonstration.
* `README.md:32` speaks of idle connections that are closed by timers; no source
  does that, so there is nothing to model. `http/main.cpp:115` says that io_uring
  works in every thread on its own; the code uses the base loop's ring only
  (`HttpServer.cpp:139`), and so does the model.

## 6. Plan

Done: `EventLoop` and its refinement and proofs; `EventLoopThread`;
`EPollPoller` and proofs; `TcpConnection`; `TcpServer`; `TimerQueue`;
`AsyncLogging` with `LogFile`; `HttpServer` with `Buffer`, `HttpContext` and
`UringManager`; `MemoryPool`.

Proofs: all of these modules.

Left to do, should the code change there: `NotAhead` for requests whose body is
announced, by an invariant that ties the parser's state to its place in the stream;
and the hazards of `PROJECT.json` that no property covers, each with its reason.
