# SolarMcp in TLA+

SolarMcp is a JSON-RPC server for tools: a Reactor (epoll) front, a pool of
worker threads that executes the tools, plugins loaded with `dlopen`, and an
asynchronous logger.  Almost everything that is hard about it is concurrency:
who wakes whom, who still holds an object, what is closed while somebody uses
it.  These modules model that part, TLC checks it on small instances, and TLAPS
proves the most important facts for every size.

Paths below are relative to `src/`.

## 1. The system

```
 peers ── sockets ──► Acceptor (main loop) ──► setup functor ──► worker EventLoop
                                                                      │ channel events
                          dispatchMessage ◄── onMessage ◄── codec ◄── TcpConnection
                 sync: dispatch + send │  async: enqueue                ▲ reply functor
                                       ▼                                │ (queueInLoop)
                                   ThreadPool ──► Dispatcher ──► ToolManager ──► tools
                                                       └──► PluginManager (dlopen, reload)
 every thread ──► Logger ──► AsyncLogger backend thread ──► file
```

| Component (source) | State it keeps | Operations | Talks to |
|---|---|---|---|
| `EventLoop`, `EventLoopThread` (`src/reactor`) | `quit_`, `pending_functors_` under a mutex, an eventfd, `loop_` | `loop`, `quit`, `runInLoop`, `queueInLoop`, `startLoop`, `stop` | every poster through the functor queue; channels by callback |
| `EventLoopThreadPool` | loops, `next_` | `start`, `stop`, `getNextLoop` | one `EventLoopThread` each |
| `Channel`, `EpollPoller` | events asked for, registration | `enable/disable...`, `handleEvent`, `updateChannel`, `removeChannel`, `poll` | the kernel; calls back the connection |
| `TcpConnection` (`src/server`) | state, two buffers, authenticated flag | `connectEstablished`, `handleRead/Write/Close`, `send`, `sendInLoop`, `shutdown` | its loop, the server's callbacks |
| `TcpServer` | `connections_`, `next_conn_id_`, token, queue bound | accept, `onMessage`, `dispatchMessage`, `removeConnection`, `stop` | loops, pool, dispatcher |
| `ThreadPool` (`src/thread`) | queue, `stop_`, condition variable | `enqueue`, `workerLoop`, `shutdown` | IO threads push, workers run |
| `ToolManager` (`src/tool`) | map of tools under a shared mutex | `registerTool`, `unregisterTool`, `callTool`, `listTools` | called by pool threads and by plugins |
| `PluginManager` (`src/plugin`) | `plugins_` under a mutex; handles of `dlopen`; each plugin's globals | load, reload (all or one), unload, destructor | `ToolManager`, the C library |
| `AsyncLogger`, `Logger` (`src/logger`) | two buffers, `running_`, backend thread | `append`, `start`, `stop`, `setFile`, `shutdown` | every thread |
| `JsonRpcCodec`, messages, `Buffer` | parser state and expected length; indices | `decode`, `encode`; `append`, `retrieve`, ... | connection |
| `TimerWheel` | slots, tick count | `addTimer`, `cancelTimer`, `tick` | the loop, if one is attached (none is) |
| `ShellTool` (`plugins/shell`) | one child, two pipes, deadline | `execute` | the kernel |
| `Dispatcher`, `ConfigManager`, `ReadFileTool`, sockets | maps and files | lookups, reads | pure calls |

What is hard, and what correctness means there:

* **Lost wakeups** — the eventfd against poll, two condition variables against
  their predicates, edge-triggered epoll against the read loop.  Nothing that
  has been handed over may wait while its server sleeps.
* **Lifetimes** — connections are held by the map, by functors and by tasks,
  while channel callbacks hold a plain `this`; tools are held by the registry,
  their code by a handle count.
* **Order** — of functors, of responses on one stream, of log lines over a
  buffer swap.
* **Shutting down** — of a loop, the pool, the logger, a connection, the
  plugins: everything accepted is served or refused, and the call returns.
* **Partial failure** — the many early exits of loading a plugin; short and
  failing writes.

The hazards, line by line, with the properties that would catch each, are in
`PROJECT.json`.

## 2. Modules

| Module | Models | Built on |
|---|---|---|
| `SerialExecutor` | what a loop promises its posters (abstract) | |
| `EventLoop` | `EventLoop` in an `EventLoopThread`, its owner, posters | refines `SerialExecutor` |
| `EventLoop_proofs` | proofs | |
| `TaskService` | what a pool behind a bounded queue promises (abstract) | |
| `ThreadPool` | `ThreadPool` and the admission check of `dispatchMessage` | refines `TaskService` |
| `ThreadPool_proofs` | proofs | |
| `TcpConnection` | one connection: channel, epoll, buffers, server callbacks, pool replies, peer | uses the queue that `SerialExecutor` is |
| `TcpConnection_proofs` | proofs | |
| `Server` | `TcpServer` on its loops, from `start()` to the return of `main()`: several connections, accepting, the map, the order of shutting down | beside `TcpConnection` and `EventLoop`, whose insides it leaves out |
| `Server_proofs` | proofs | |
| `MCServer` | two worker loops for TLC | |
| `LogFile` | what a log promises (abstract) | |
| `AsyncLogger` | `AsyncLogger`, behind `Logger` | refines `LogFile` |
| `AsyncLogger_proofs` | proofs | |
| `ToolManager` | the registry and the calls through it | |
| `PluginManager` | loading, reloading, unloading; composes `ToolManager` with the C library | extends `ToolManager` |
| `PluginManager_proofs` | proofs, for the registry too | |
| `MCPluginManager` | two files, six libraries for TLC | |
| `ShellTool` | one call of `runCommand`, with the processes of its command and one of another call | |
| `ShellTool_proofs` | proofs | |
| `ByteStream` | what a socket and an input buffer promise the codec (abstract) | |
| `Buffer` | `Buffer`: its vector, its two indices, append and retrieve | |
| `Framing` | the peer's bytes, `handleRead`, `processInput`, `JsonRpcCodec::decode` | extends `Buffer`, refines `ByteStream` |
| `Framing_proofs` | proofs, those about `Buffer` among them | |
| `MCFraming` | bytes, bodies and lines for TLC | |

Operators marked `mutant` are not part of the models: each is what a definition
would be with a plausible bug, and is there to show that a property sees it.

### EventLoop

`pc` is the loop thread's place in `startLoop`'s lambda and in `loop()`: publish
`loop_`, clear `quit_` (`Enter`), test it (`Check`), poll, handle the active
channels, swap the functors, run them.  `queueInLoop` from another thread is two
steps, the push under the mutex (`Post`) and the write of the eventfd
(`PostWakeup`); on the loop thread it is the push alone, as
`event_loop.cpp:117` skips the wakeup.  `quit()` is likewise the store and the
write.  The mutex needs no variable: each critical section is one step.

* `RunsInOrder`: the loop implements `SerialExecutor`, the functors to run being
  the batch taken followed by `pending_functors_`.
* `NoStrandedFunctor`: when the loop is in poll nothing from another thread waits
  without its wakeup.  (`QuitInterruptsPoll`, the same of a quit, is proved only.)
* `ForeignRunsUnlessQuit`, `QuitEndsLoop`: the same as liveness, under fairness
  that does **not** let poll time out, so that the ten seconds of `epoll_wait`
  cannot hide a lost wakeup.

`QuitEndsLoop` speaks of a quit that comes once `loop()` has begun.  One before
that, by a `stop()` right after `startLoop()`, is overwritten (`Enter`,
`event_loop.cpp:42`), and the join of that `stop()` does not return, whatever poll
does; `event_loop_thread.h:23` says that it does.

`event_loop.h:59` says that a functor queued on the loop thread runs in the same
iteration.  One that a functor queues does not: it waits for the next poll to
return, up to ten seconds, as nobody writes the eventfd.  The models follow the
code; `ClosedLeaveTheMap` of `Server` is where it is felt, as the erase that a
failed reply or `stop()` queues is such a functor.

### ThreadPool

Workers at the condition variable are modelled in the steps the C++ standard
gives `wait`: the predicate is tested with the mutex held, then the thread sleeps
and lets go in one step.  `notify_one` chooses any waiter.  IO threads (`Clients`)
check the size and enqueue in separate critical sections, as `dispatchMessage`
does.  `shutdown` stores `stop_`, notifies, and joins, without the mutex.

* `AdmissionBound`: the check and the push are not atomic, yet what is queued or
  about to be is at most `max_queue_size_ + IO threads - 1`.
* `NoSleepOnWork`, `QueuedTasksComplete`: no task waits while all workers sleep,
  and each completes.
* `ServesTasks`: the pool implements `TaskService`: a task is accepted, run by one
  worker, and done for good; the pool is closed only with none accepted or
  running.  The phase of a task is read off from where it is (`PhaseOf`), so one
  that is in the queue or in a hand again after its end is no step of
  `TaskService`.
* Violated: `ShutdownReturns` — `stop_` set and notified between a worker's test
  and its sleep leaves it asleep for good.

### TcpConnection

One connection on a worker loop of the multi-reactor mode, from the setup functor
to destruction.  `conn` holds the object, its channel, the registration, and the
socket; `todo` is the functor queue (with `batch`, the part of it this iteration
runs) — the abstraction `SerialExecutor` justifies.  A request or response is a
unit of data; partial writes are responses left in the output buffer.  `Alive` is
the reference count: the map, functors that capture a `shared_ptr`, tasks that
have locked theirs.  `handleEvent` is followed step by step: hangup and error
first, then read, decode, write.  In single-reactor mode `stop()` runs the
shutdown directly on the main thread instead of through the queue; that
difference is not modelled.  Requests of kind `Sync` are, to a connection, like
those refused by the gate or the full queue (both are in the run); the violation
run has one.

* `HandlersRunOnLive`: channel callbacks, which hold a plain `this`, run only
  while the object lives, except on a channel that is closed and back in epoll
  (`BackInEpoll`), which is what the violated property below is about.
* `NothingWaitsUnseen`: edge-triggered epoll still has to report whatever the
  loop goes to poll with.
* `AnsweredOnceInOrder`, `ServedIsAnswered`: the output path neither repeats,
  reorders nor forgets.
* `PoolIsGated`: the authentication gate, under pipelining.
* `ClosedIsFreed`: every reference to a closed connection goes.
* Violated: `ChannelRemovedBeforeDestruction`, which a comment of
  `~TcpConnection` requires: a close in the read half of an event with EPOLLOUT
  makes `handleWrite` register the channel again.

### Server

`TcpServer` with several connections, on one loop or on Base and its workers
(`multi` is chosen at the start, as `reactor.mode` is).  The inside of a
connection is in `TcpConnection`; here it is in the backlog, accepted, open or
closed (`sock`), and has a loop and a number for a name.  A loop turns: it handles
events one by one (`at` = "poll"), may be in the accept loop, swaps its functors
(`Swap`) and runs them.  The server starts after the loops have entered `loop()`,
which `EventLoop` is about.

| State | Code |
|---|---|
| `backlog`, `edge` | the listen queue and epoll's pending, edge-triggered event |
| `next`, `nextConnId`, `connections` | `next_`, `next_conn_id_`, `connections_` |
| `making[l]` | the connection `createConnectionOnLoop` is setting up in loop l, with the value of `next_conn_id_` it has read |
| `todo[l]`, `batch[l]` | `pending_functors_`, and `functors` of `doPendingFunctors` |
| `pooled`, `replying` | tasks in the pool, and those that have locked their connection |
| `main`, `toStop`, `quit` | where `main()` is, the copy `stop()` works through, `quit_` of each loop |

`Place` is `onNewConnection`: on Base the connection is made at once, otherwise a
setup functor goes to the worker.  `RunSetup` reads `next_conn_id_`, and `Create`
stores it and does the rest: between the two, another worker may read.
`AcceptFails` covers any error of `accept4`, which ends the accept loop, whether
it takes the connection out of the backlog or not.  An empty turn of a loop changes
nothing but for the last one (`LastTurn`), which is where functors are left behind.
Each connection in `Asking` sends one asynchronous request; `TaskEnds` locks the
`weak_ptr`, `QueueReply` is `queueInLoop` after it.

* `OpenAreHeld`: only a race of worker loops on `next_conn_id_` takes an open
  connection out of the map (and so frees it under its loop, and lets `stop()`
  miss it); neither closes, late erases, failing replies nor `stop()` do.
* `NothingPendsUnseen`: a connection in the backlog has an event to come, unless
  the last accept loop ended at an error.  Then it waits for the next client:
  with EMFILE, whoever was waiting stays unseen after descriptors are free again.
* `ClosedLeaveTheMap`: what is closed, by whatever party, leaves the map, unless
  its loop ends before the erase.
* Violated: `RepliesFindALoop`.  `main()` joins the worker loops, and so destroys
  them, before it drains the pool (`main.cpp:275-278`), while the map still has
  their connections: a task that ends then gets its connection from the `weak_ptr`
  and queues the reply on a loop that is gone.  `strayed` collects such replies.
  `docs/系统设计.md` 4.4 drains the pool right after `TcpServer::stop`, and
  `docs/多Reactor架构.md` has the order of the code.  In single mode there is no
  such reply, as `Return` waits for the pool.

### AsyncLogger

`append` is one step (the mutex); the backend tests the predicate, sleeps,
is woken by notification, by the timeout or spuriously, swaps and writes outside
the mutex; `stop()` stores, notifies and, when the thread is joined, writes both
buffers.  A file that cannot be opened drops its block (`lost`).

* `WritesInOrder`: the logger implements `LogFile`.
* `StopWritesAll`: what was appended before `stop()` is written (or was lost to a
  file that did not open) when it returns.
* `LinesAreFlushed`, `StopReturns`: liveness that rests on the timeout.

### ToolManager and PluginManager

`tools` maps each registered name to the file (or the server) its code is from;
`calls` has the calls between `callTool`'s lookup and its return, with what was
taken from under them: the `Tool` object, the mapped code, the plugin's state.
Calls take no mutex and interleave with every step.  `image` is what `dlopen` has
mapped: contents, handle count, and whether the plugin's globals are set up.
`job` is the operation holding the `PluginManager`'s mutex: what is still to be
validated, unloaded and loaded.  Files are replaced or removed between
operations, with any library.  `life` follows `main()`: the unload at exit comes
before the pool stops, so a queued reload may follow it and the destructor
finishes the job.

The C library is external: `dlopen` of a path that is mapped returns the mapped
image whatever the file now holds, and the last `dlclose` unmaps (the dynamic
linker may keep some C++ libraries mapped longer, which is kinder than this
model).

* `HandlesBalanced`: every handle is kept or in hand, through all exits of load and
  validate.
* `BuiltinsStay`: no plugin takes a name of the server, by registering it or by
  having it unregistered with its own.
* `LoadsTheFile`: because dlopen goes by path, a single handle left over by
  validation would make a reload activate the *old* code; none is.
* `RegisteredIsMapped`, `LoadedServesItsTools`, `CodeGoesLast`: a tool that can be
  found has its code mapped; the tools of plugins are those that the loaded plugins
  recorded; a call that loses its code has lost its tool before.  All three say it
  of libraries as the repository has them (`OneToolEach`: one tool at most, and no
  failure once it is registered), and the libraries of the run are such.
* Violated: `LoadedPluginsAreLive` — validating a loaded plugin shuts down the
  one that serves; if the reload is then given up it stays shut down.

Without `OneToolEach` no tool need have its code mapped: a plugin that has registered
one tool and fails at the next is closed (`LoadFailed`, `plugin_manager.cpp:511`) and
its first tool stays in the registry, its code unmapped.  Give `MCPluginManager` the
library `Library("register", <<"shell">>, TRUE)` and check `UnregisteredBeforeClosed`
to see it.  `docs/插件热重载.md:184-187` has tools unregistered before every `dlclose`.

In two more places the code differs from the docs, and the model has the code's
order.  The docs (`docs/插件热重载.md:184`, `docs/系统设计.md:338`, among others) unregister a plugin's
tools and then shut it down; `unloadPlugin` shuts down first, so a caller in between
finds a tool without state.  `docs/系统设计.md` 4.4 drains the pool before the
plugins are unloaded; `main.cpp:277` unloads first, from under the calls of the pool.

What a reload takes from the calls under way is no finding:
`docs/插件热重载.md:216` admits it.  An unload takes tool, code and state; a
validation of a loaded path takes the state only, which register replaces and
shutdown deletes.  Two simplifications: files change between operations only, and
not between the validation and the load of one reload; and calls may begin while
the first load is still under way, which the code rules out, as the server starts
after it.

### Buffer and Framing

`store`, `readIdx` and `writeIdx` are the vector and the indices of `Buffer`;
`AppendBytes` is `append` with the whole of `ensureWritableBytes` (enough room,
compaction, growth), `Retrieve` is `retrieve` with its reset to the prepend
offset.  `prepend`, `prepareWrite`, `hasWritten`, `retrieveUntil` and `clear` have
no caller and are left out.  `Framing` puts the codec behind it: `at` says whether
the connection is in the read loop of `handleRead` or in the loop of
`processInput`; a call of `decode` is a series of header lines (`ReadHeader`) and
then a return, with a message (`TakeBody`, or a bad header) or with none
(`NoHeaderYet`, `BodyIncomplete`).  A read returns any number of bytes up
to `ReadSize`, and the read loop may see EAGAIN at any point, so the stream is cut
in every way.  The peer writes whole frames, whose body may be no message, and
between them lines that are no header and headers whose length is no number.

A byte of a body or a line is a byte of the model; the text `Content-Length: n` is
one byte, because `decode` looks at a header only once its CRLF has arrived, and
what it does in the meantime does not depend on how much of the text is there.
Ghosts, which no action reads: `peak`, the largest backlog so far, and `due`, the
message owed for each frame and where the frame ends.  `written` is the bound's
counter.

* `ReceivesTheStream`: buffer and socket together implement `ByteStream`; no
  compaction or growth loses, repeats or moves a byte.
* `CapacityFollowsBacklog`: the vector is at its initial size or smaller than
  the prepend area and twice the largest backlog; it does not grow with traffic.
* `FramesComeOutWhole`: each frame's message comes out once, in order, not before
  the frame is whole, and `processInput` stops with none left.

The bodies of the run do not *start* with a line break: `WellFramed` says so, `MCFraming`
assumes it, and TLC evaluates it.  For one that does,
`FramesComeOutWhole` fails (give `MCFraming` such a body, without the assumption,
to see it).  The blank line between
header and body is optional to `decode`, which looks for it at each call; when the
read ends after the separator, the body's own line break is taken for a second
one.  `encode()` writes no such body, but a JSON text may begin with white space.
`WellFramed` also leaves out bodies shorter than the separator, which are no
JSON-RPC messages: such a body can be complete by length when only the `\r` of the
separator has come.

### ShellTool

`pc` is the caller's place in `runCommand`: `fork`, `parent` (until the parent's
write ends are closed), and the loop, which looks at the clock and at the child
(`check`), kills and reaps (`reap`), polls and reads (`read`).  `proc` and `holds`
are the kernel's: each process that may have a write end, and which.  The pipes
are made without O_CLOEXEC, so the child of a call on another pool thread
(`stranger`) inherits them if it is forked in between; a job the shell starts has
those of its shell and may leave its process group.  `readFromPipe` is `ReadSome`,
one `read()`, as often as there is something, then `Drained`.  A byte is its
number in its stream, so that "the beginning of the stream without a hole" can be
said.  `KillProcessGroup` finds nobody while the child has not called `setsid()`.

Not followed: the pair of descriptors leaked when the second `pipe()` fails; the
branch for an error of `waitpid`, which cannot occur for a child not yet reaped;
texts appended for the exit status.  The model has a deadline: `execute` refuses
a timeout that is not positive, but a `default_timeout` of 0 or less, from the
configuration, would switch it off.

* `OutputIsWhole`: what is returned is the beginning of each stream, within
  `max_output_bytes_`, and says `[TRUNCATED]` exactly when something is missing;
  what is still in the pipes when the command exits or is killed is not lost.
* `CallReturns`: once the deadline comes, the call returns.  TLC needs each of the
  three exceptions, and they are what the code does: a process that the kill does
  not reach (a job in a session of its own, a stranger, or a job of a shell that
  exited before the deadline, after which the clock is not looked at) holds a
  pipe open; the kill came before `setsid()`; or a command writes faster than
  `readFromPipe` reads, whose loop has no bound.
* `WritersAreNotBlocked`: what `shell_tool.h` says of reading while waiting; a
  full pipe is read, with or without a deadline.

## 3. Runs

| Run | Expect | Bounds | Why they are enough |
|---|---|---|---|
| `event_loop` | pass | 2 posters, 2 foreign, 1 handler, 2 nested functors | two posters race each other as well as the swap; nested functors in two generations; quit at any point |
| `thread_pool` | pass | 2 workers, 2 IO threads, 4 tasks, queue bound 1 | the overshoot of the bound by one, a full queue, a waiter and a busy worker, shutdown at any point |
| `thread_pool_shutdown` | violation | 1 worker, 1 task | |
| `tcp_connection` | pass | 3 requests (pool, right token, wrong token), socket room 1 | every order of the three pipelined requests; a second response always meets a full socket; peer close, reset and server stop at any point |
| `tcp_connection_freed` | violation | 2 requests, no authentication | |
| `server` | pass | 2 connections, one of which asks; single mode, or 2 workers | two loops race on the counter, the second connection arrives during or after an accept loop, a reply meets every stage of the exit, stop meets open, closing and half-made connections |
| `server_stop` | violation | the same | |
| `async_logger` | pass | 3 lines, threshold 2, 2 starts | lines on both sides of a swap and of a restart |
| `plugins` | pass | 2 files, 6 libraries, 1 caller | one library per outcome and one name clash with the other file and with the server; calls do not affect each other |
| `plugins_reload` | violation | the same | |
| `framing` | pass | 16 bytes written, reads of at most 4, vector of 6 with 1 to prepend | two frames with a line between, cut in every way; the vector both compacts and grows; a body ends in CRLF, a line in a lone CR before its CRLF |
| `shell` | pass | 2 bytes kept, pipes of 2, one job, one stranger | truncation within a stream and between the two, a full pipe, every order of exits, kill, inheritance and end of file |

The bounds inside models are `MaxStarts` of `AsyncLogger` and `MaxStream` of
`Framing`; `ShellTool` stops numbering bytes at `MaxBytes + 1`, past what is ever
kept, while its command may write for ever; all other models are finite because functors, tasks, requests and
lines are each handed in once.  Deadlock is not checked where the system may come to rest (a loop, pool or logger
that was stopped, a connection that is freed, a peer that has
written all it may, a server or a call that has returned); `PluginManager` has an explicit
step for the end of the process and is checked for deadlock.

### Fairness

* `EventLoop`: weak fairness of the loop thread's own steps and of calls already
  begun — threads are scheduled.  Nobody has to post or quit, and poll need not
  time out.
* `ThreadPool`: weak fairness of each worker and of begun calls; strong fairness
  of an IO thread's enqueue, which competes for the mutex with workers: a mutex
  that is free again and again is obtained.
* `TcpConnection`: the loop runs, tasks end, the peer reads what it is sent.  The
  peer need not send, close or reset.
* `AsyncLogger`: the backend and a begun `stop()` go on; strong fairness of the
  timeout, because the deadline of `wait_for` is absolute: being woken
  and going back to sleep does not postpone it.
* `Server`: each loop, each task and `main()` is scheduled.  No client need come,
  close or ask, and no signal need arrive.
* `ShellTool`: the calling thread is scheduled; a forked child gets as far as
  `setsid()`; `poll` does not fail for ever (strong fairness: a failure kills
  the child and the loop goes on).  Nothing is asked of the command, and the
  deadline need not come.
* `PluginManager`, `Framing`: safety only.

## 4. Proofs

All for any values of the constants, subject to the named `ASSUME`s (sets of
functors by origin disjoint; finite sets of workers and clients, a natural queue
bound; positive threshold; bodies and lines sequences of bytes, a prepend area no
larger than the vector; requests of each kind disjoint; what the sort of a scan
returns lists what was scanned; a positive limit on a command's output).  Each
invariant below that strengthens a property was checked by TLC on the run of its
module before it was proved.

* `EventLoop_proofs` — `TypeCorrect`; `NothingStranded` from `StrandedInv`, which
  says of *every* place of the loop thread what may be pending there without a
  wakeup: `NoStrandedFunctor` speaks only of poll and is not inductive, since a
  post may come between handling the wakeup and the swap, where the swap itself is
  what will take the functor; `QuitWakes`; `LoopIsASerialExecutor`, the refinement:
  each step maps to a submit, an execute (with or without a nested submit) or a
  stutter, the swap being a stutter because it moves the boundary inside
  `batch \o pending`.
* `ThreadPool_proofs` — `TypeCorrect`; `QueueIsBounded`: the invariant counts the
  clients that have passed the check together with the queue, and the step that
  passes it can only start from a queue below the bound; `PoolNeverSleepsOnWork`
  from `SleepInv`, which covers a worker between its test and its sleep, who holds
  the mutex and so keeps pushes out.  `PoolIsATaskService`, the refinement: a step
  maps to one of `TaskService` only if its task is in no second place, which is
  `OnePlace` (queue, hand of a worker, hand of a client, settled): what is taken
  from the queue is in no other hand and has not been run (`OneRunner`), and the
  phase of every other task stays (`SamePhase`).  The pool is
  closed with an empty queue because every worker is gone by then and the last one
  found it empty (`ExitedIsFinal` of `SleepInv`).
* `AsyncLogger_proofs` — `TypeCorrect` from `TypeInv`, which adds that the flush
  buffer is empty wherever the next swap may happen; `LoggerIsALogFile`, the
  refinement to the abstract log, with lemmas on blocks leaving a sequence at its
  front; `StopLosesNothing` from `KeepInv`: a line that was appended is in a
  buffer, in the file, or gone with a file that did not open, wherever the backend
  and `stop()` are.
* `TcpConnection_proofs` — four invariants on top of `TypeOK`.
  `Origins` and `LifeInv` (what epoll knows follows from the connection's state,
  the setup is the first functor and the erase comes after the close, the map has
  the connection from the setup to the close) give `HandlersAreOnLive`: the map
  keeps the connection for the rest of an event that closes it, as the erase is
  only queued.  `SeenInv` says at *each* place of the loop that what is ready is
  still to be reported or is in the events being handled, and gives
  `NothingUnseen`.  `GatedInv` ties the flag `authenticated` to a request that was
  served, for `GateHolds`.  `AnswersOnceInOrder` needs `SentOnce` (no request is
  twice in what was served, what is buffered and what is in the socket),
  `OneAnswer` (an unanswered request is in one place: with the pool, with a task
  that locked its connection, or in a functor) and the order itself over
  everything written and still to be written.
* `Server_proofs` — `TypeCorrect`; `BacklogIsSeen` from `PendInv`, which speaks of
  every place of Base outside the accept loop.
  `MapHoldsTheOpen` needs, besides that Base goes with `main()` and has every
  connection in single mode (`LateInv`), five facts together (`HolderInv`): what is in the
  backlog is there once and not accepted; an accepted connection has one ticket
  (a setup functor or the `making` of its own loop) and is set up once;
  only what is closed has an erase queued; in single mode names are below the counter
  and differ; and what the map does not hold shares its name.  Most steps are
  `Quiet`: they queue no setup, name nobody, and queue an erase only for what they
  close, and `QuietHolds` treats them at once.
* `PluginManager_proofs` — `TypeCorrect`, `HandlesAreBalanced` and
  `LoadActivatesTheFile` from `BaseInv`: which lists of the operation are empty in
  each phase (`JobShape`), no path twice in `plugins_`, what is to be unloaded
  there and what is being loaded not (`ListedOnce`), and for each file one handle
  per plugin that is loaded and one for the step under way (`EachHandleDue`).
  `BuiltinsAreKept` needs besides that no recorded name is the server's
  (`RecordedAreOthers`): names are unregistered without looking at the owner.
  These hold for all libraries.  The properties of `ToolsAreMapped`, `LoadedServe`
  and `CodeIsTakenLast` have the condition `OneToolEach`, that each
  library registers one tool at most and does not fail after it, as
  `shell_plugin.cpp` and `minimal_plugin.c` do (one call of `register_tool`, whose
  failure is the plugin's), and without which they are false (section 2).
  They rest on `ServeInv`: the tools of
  a file are at any moment those its plugin recorded, but for the ones the unload
  under way has taken and with those of the load under way (`Serves`), and a call
  that has not lost its code runs that of a plugin that is loaded or about to be.
  `CodeIsTakenLast` needs `CallsKeepTool` besides: a call that still has its tool
  runs the one that is registered under its name, so when an unload comes to the
  `dlclose`, and its plugin has no tool left, no call of it has one either.
* `ShellTool_proofs` — `TypeCorrect`; `OutputHolds` from `EndsInv` (a stream that
  is no longer open has an empty pipe that nobody can write to, which needs that
  the server's own write ends are closed before the loop) and `AccountInv`:
  what is kept of each stream is its first bytes, the budget is what remains of
  the limit, and unless output was truncated the pipe goes on exactly where what
  was kept ends.  `AccountInv` excepts a call whose `poll` failed, as the message
  overwrites what was kept (`FailureStays`).
* `Framing_proofs` — the lemmas `EnsuredKeeps`, `AppendKeeps` and `RetrieveDrops`
  say what each `Buffer` operation does to the readable bytes (`Readable`), the
  indices and the capacity; `DecodeTakes` that each action of the codec takes a
  prefix.  From them `TypeCorrect`, `CapacityIsBounded` (growth needs fewer free
  bytes than the append asks for, and the append raises the backlog by as much)
  and `BufferIsAStream`, the refinement to `ByteStream`.  `FramesAreWhole`, that
  `FramesComeOutWhole` holds under `WellFramed`, is about where in the stream the
  decoder is.  `InFrame` is its invariant: there are places `S` at which the bytes
  not taken can be cut into what the peer wrote (`Cuts`), each with what is owed
  for it (`Owes`); in the header state decode is at one of them, in the body state
  it is right before the rest of a frame, separator taken or not (`BodyAhead`); and
  what was returned is what is owed for the bytes taken (`Answered`).  A write adds
  a cut (`CutsExtended`), what decode takes leaves the later ones where they are
  (`CutsDropped`), and the first line break it finds is that of the unit it is at
  (`FoundFirst`), which is where the hypothesis is used; it is used again where a
  body must not be taken for a separator (`BodyAheadIs`).  At the end of
  `processInput` the next unit is longer than what the buffer holds (`NothingLeft`).

Only model-checked: liveness, which is beyond the prover (`ForeignRunsUnlessQuit`,
`QuitEndsLoop`, `QueuedTasksComplete`, `ServedIsAnswered`, `ClosedIsFreed`,
`ClosedLeaveTheMap`, `LinesAreFlushed`, `StopReturns`, `CallReturns`,
`WritersAreNotBlocked`).  Every invariant of a passing run is proved, `FramesComeOutWhole` under its
hypothesis.
The type invariants of `Server` and `ShellTool` are proved and in no run.

## 5. Not modelled

The text of headers and of JSON (a length, a message or an error is what they
come to), the integer conversion of a length, configuration, the file system
behind `read_file`, signals (SIGPIPE among them; `write()` to a
peer that has gone raises it, and `main()` does not ignore it),
the timer wheel (nothing attaches one), races on plain fields of `Logger`.
Memory is sequentially consistent in the models: the atomics of the code use
release and acquire in pairs that the mutexes and eventfds order anyway.

## 6. Plan

1. `TimerWheel` against a set of timers: neither early nor late, by rounds and
   slots, callbacks that add and cancel.
2. Base and a worker of `Server` as instances of `EventLoop`, so that the wakeups
   and the map are checked together.

Where a new run asks a larger form of an old run's question, it takes that run's
place: `ClosedLeaveTheMap` stands where one run was about functors queued by
functors, `framing` where a second one had bodies with leading line breaks, and
`server_stop`, the hazard of every exit with a task under way, where one was about a
quit before `loop()`.
