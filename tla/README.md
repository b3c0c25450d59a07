# sylar for Windows: a verification development

sylar is a C++ server framework: fibers that are scheduled over a pool of
threads, timers, blocking socket calls on top of an I/O completion port, and,
built on them, streams, a small RPC protocol ("rock"), a TCP server, and the
configuration, logging and module systems they share.  A second program, the
client, speaks the protocol over blocking sockets.  This directory holds TLA+
models of both, the TLC configurations that check them, and proofs for TLAPS.
Paths below are relative to `src/sylar/sylar/` unless they begin with `client/`.

1. [The system](#1-the-system)
2. [The modules](#2-the-modules)
3. [The runs](#3-the-runs)
4. [Fairness](#4-fairness)
5. [The proofs](#5-the-proofs)
6. [What the code gets wrong](#6-what-the-code-gets-wrong)
7. [What is not modelled](#7-what-is-not-modelled)
8. [What may come next](#8-what-may-come-next)

To check everything: `tlc -config X.cfg Module` for each run of `PROJECT.json`
and `tlapm XProofs.tla` for each module of proofs.

## 1. The system

| part | state | operations | correct means |
|---|---|---|---|
| **Scheduler** (`scheduler.*`) | the queue `m_fibers`, `m_activeThreadCount`, `m_idleThreadCount`, `m_autoStop`, `m_stopping` | `start`, `schedule`, `run`, `stop`, `switchTo` | every task runs to its end, on one thread at a time; `stop` returns and leaves nothing behind |
| **Fiber** (`fiber.*`) | `m_state`, the saved context `m_ctx` | `swapIn`, `swapOut`, the yields, `MainFunc` | a context is resumed only when it has been saved, and once |
| **FiberSemaphore** (`mutex.*`) | `m_concurrency`, `m_waiters` | `wait`, `tryWait`, `notify`, `notifyAll`, `reset` | a counting semaphore; no lost wake-up, first come first served |
| **TimerManager** (`timer.*`) | the ordered set `m_timers`, `m_tickled`, `m_previouseTime`; of each timer `m_next`, `m_ms`, `m_cb` | `addTimer`, `cancel`, `refresh`, `reset`, `getNextTimer`, `listExpiredCb` | a timer ends once, not early, and no worker sleeps past it |
| **IOManager** (`iomanager.*`) | `m_fdContexts`, of each descriptor the registered events and their `EventContext`s, `m_pendingEventCount`, the port | `addEvent`, `cancelEvent`, `cancelAll`, `tickle`, `idle`, `stopping` | a completion schedules the fiber that waits for it, and no other; work wakes a sleeping worker |
| **hooks** (`hook.*`) | the `timer_info` of a call | `do_socket` and the calls on top of it, `s_accept`, `s_closesocket` | every call returns, with its own result or a timeout |
| **FdManager** (`fd_manager.*`) | the table of `FdCtx` | `get`, `del` | the context found is that of the socket behind the descriptor |
| **Socket**, **TcpServer** (`socket.*`, `tcp_server.*`) | the sockets, `m_socks`, `m_isStop` | `bind`, `start`, `startAccept`, `stop`; `accept`, `close` | clients are handed over, no descriptor is lost, `stop` wakes who waits |
| **AsyncSocketStream**, **RockStream** (`stream/async_socket_stream.*`, `rock/rock_stream.*`) | `m_ctxs`, `m_queue`, `m_sem`, `m_waitSem`, `m_sn`, `m_autoConnect` | `request`, `start`, `doRead`, `doWrite`, `onTimeOut`, `innerClose`, `close` | a request ends once: with its response, a timeout or an error |
| **rock protocol**, **ZlibStream**, **Stream**, **SocketStream** (`rock/rock_protocol.*`, `protocol.*`, `stream/*`) | the bytes on their way, the buffers of a compression | `parseFrom`, `serializeTo`, `readFixSize`, `writeFixSize`, `encode`, `decode` | what was sent is what is parsed; the two sides agree where a frame begins |
| **ByteArray** (`bytearray.*`) | a chain of nodes, `m_position`, `m_size`, `m_capacity`, `m_cur` | reads and writes of numbers, varints, strings; buffers for sockets; files | a file of bytes with a position |
| **Config** (`config.*`) | the table of `ConfigVar`s, their values and listeners, the times of the files read | `Lookup`, `setValue`, `LoadFromYaml`, `LoadFromConfDir` | a variable has the latest value; its listeners know it |
| **Log** (`log.*`) | loggers, their appenders and formatters | `log`, `setFormatter`, `addAppender`, `clearAppenders`, the listener of `logs` | an event is written by one configuration; a pattern means what it says |
| **ModuleManager**, **Library**, **Env** (`module.*`, `library.*`, `env.*`) | two tables of modules; the arguments | `add`, `del`, `delAll`, `GetModule`; `init`, `get` | the tables agree; an argument is found |
| **client** (`client/sylar/*`) | one connection | `main`, `CreateMessage`, `GetMessageResult` | the answer to what was typed is printed |

How they interact.  A worker of an `IOManager` runs `Scheduler::run`.  It takes a
task from `m_fibers` and resumes it; if there is none it resumes its idle fiber,
`IOManager::idle`, which asks the `TimerManager` how long it may sleep and waits
for a packet of the completion port.  A packet is the completion of an
overlapped operation, or a notification of `tickle()`.  `idle()` schedules the
callbacks of expired timers and the fiber whose operation has completed, and
yields to `run`.  A socket call issues an overlapped operation, arms a timer
that will cancel the event, registers the event with `addEvent` and suspends
with `YieldToHold`.  Everything that blocks (semaphores, sockets, `switchTo`,
`request`) suspends like this: the fiber leaves a reference to itself with a
waker, then yields.

A `TcpServer` runs an accept loop for each listening socket and schedules
`handleClient` for each client; a `RockServer` makes a session of it, an
`AsyncSocketStream` with one fiber that reads messages and one that writes them.
A message is put into a `ByteArray`, compressed by a `ZlibStream` if it is long,
and sent behind a header with `writeFixSize`.  Sizes and timeouts come from
`ConfigVar`s; loggers are rebuilt by a listener of the variable `logs`.

What is hard in it, and hence what the properties are about:

- a fiber is handed to its waker *before* it has suspended, in six places;
- the counters that `stopping()` and `tickle()` decide on are atomic, but they
  are read and written in steps that other workers come between;
- the last look at the queue, counting as idle, and the wait are three steps;
- completion, registration, timeout, cancellation and close of one call are in
  different threads and in any order;
- the response, the timer and the end of the connection race to end a request,
  while the stream may be lost, closed and connected again;
- `stop` of a server races its accept loops, and the kernel hands out the values
  of closed descriptors again;
- bytes arrive in pieces that know nothing of frames, buffers or nodes;
- `setValue` notifies and assigns under two locks; loggers are rebuilt in several
  critical sections while others log;
- the clock is the wall clock.

`PROJECT.json` lists the hazards one by one with the properties that cover them.

## 2. The modules

| module | models | abstraction |
|---|---|---|
| `Scheduler` | `scheduler.cpp`, `scheduler.h` and the switches of `fiber.cpp` | a task is a name; what it does is which yields it makes |
| `CountingSemaphore` | nothing: the promise | two variables |
| `FiberSemaphore` | `mutex.cpp`, `mutex.h` | the scheduler is reduced to "a scheduled fiber is resumed after it has suspended" |
| `TimerManager` | `timer.cpp`, `timer.h`, the wait of `idle()` | a timer is its address and two times |
| `IOManager` | `do_socket` of `hook.cpp`, the events and packets of `iomanager.cpp` | data is the identity of the operation it came from |
| `IdleWait` | `run()` around `idle()`, `tickle`, `stop` | tasks do not yield; timers and completions are tasks that a woken worker schedules |
| `RequestPromise` | nothing: what `request()` promises | three variables for each call |
| `RequestStream` | `async_socket_stream.cpp`, `rock_stream.cpp` | a message is its number; the socket is up or down |
| `TcpServer` | `tcp_server.cpp`, listening and accepting in `socket.cpp`, `hook.cpp`, `fd_manager.cpp` | a client is a name; its handler closes it some time |
| `ByteArray` | `bytearray.cpp`, `endia.h` | operators on a record; the loops over nodes in closed form; a byte has `Radix` values |
| `NodeChain` | `client/sylar/bytearray.cpp` | the same class, loop by loop |
| `FlatBuffer` | nothing: the promise of a `ByteArray` | bytes and a position |
| `ByteBuffer` | a `ByteArray` in use, with the buffers that sockets fill and send | |
| `EchoService` | nothing: what server and client are for | what was typed and what was printed |
| `RockExchange` | the client and a session of the server over one connection: `stream.cpp`, `socket_stream.cpp`, `rock_protocol.cpp`, `protocol.cpp`, `zlib_stream.cpp` and their copies in `client/` | bytes are `ByteArray`'s; zlib is a code that counts zeros |
| `Settings` | `config.*`, `log.cpp`, `module.cpp`, `library.cpp` | a file is a list of members, of which some are not listed or refused; a pattern is a sequence of characters |
| `LogFormatter` | the parser of patterns in `log.cpp` | |
| `Environment` | `env.cpp` | a path is a sequence of names |
| `MC*` | | the modules for TLC: the worlds, symmetry, and what only TLC can evaluate; the others are checked as they are |
| `*Proofs` | | theorems and proofs |

**Worlds.**  `TimerManager`, `IOManager`, `RequestStream`, `TcpServer` and
`Settings` have a constant `Worlds` and a variable `world` that never changes.  A
world says what the surroundings may do in one behaviour: which calls are made,
whether operations complete early, whether the peer leaves, whether the owner of
a server waits for it to come to rest.  One run checks the union of the worlds,
and a property that holds in some worlds only says so in its text (`Causes`,
`Pends`, `Alone`, `world.manners = "orderly"`).

The scheduler loop appears twice, cut differently.  `Scheduler` has the fibers'
states and contexts but a worker that finds nothing to do spins, as
`Scheduler::idle` does.  `IdleWait` has no fibers but the wait for packets, the
notifications and the counters that decide on them.  `IOManager` and
`TimerManager` hold the two sources of work a waiting worker is woken for.  The
stream appears twice as well: `RequestStream` has its fibers and messages without
bytes, `RockExchange` the bytes without the fibers.

### Scheduler

One action is one critical section of `m_mutex`, one access to an atomic counter
or to `Fiber::m_state`, or one stack switch.  The worker's place in `run()` is
`pc`, its local `ft` the item it took:

    fetch -> dispatch -> swapin -> exec -> (parking ->) leaving -> back -> examine
    examine -> (requeue | hold ->) fetch
    fetch -> none -> idling -> idleback -> fetch,  none -> exited

`parking` is the time between handing itself to a waker (`Park`, `SwitchTo`) and
`YieldToHold`; `leaving` the time between publishing a state (`fiber.cpp:205`,
`213`, `233`, `237`) and the assignment of `fiber.cpp:170`, which saves the
context on the scheduler's stack after the jump.  `saved[f]` says whether `m_ctx`
of `f` can be jumped to, and `ended` which fibers have come to the end of
`MainFunc`, whatever their `m_state` says.  `examine`, `requeue` and `hold` take
apart what `run()` does with a task that has come back (`scheduler.cpp:284-290`,
`314-319`): it reads `m_state` without a lock, and `Hold` then writes `HOLD` over
whatever the state has become, the `EXEC`, `READY` or `TERM` of another worker
included.  A `swapIn` of a fiber that another worker executes has
no defined continuation, nor has one that is over: `SwapInFault` records how it fails
and the model halts.
The constants `Holders` (tasks that use `YieldToHold`), `Twice` and `Pins` select
which uses of the scheduler are explored, because several of them break it
(section 6).

### FiberSemaphore and CountingSemaphore

The operations are atomic: each is one critical section of the spinlock.
`wait()` is three steps, entering the list, suspending, being resumed.  `reset()`
takes no lock; nothing in the repository calls it, and it is modelled for a caller
that does not overlap it with another operation.  The refinement mapping counts
the permits that scheduled fibers carry: `permits <- concurrency +
Cardinality(woken)`, `waiting <- woken \cup ToSet(waiters)`.

### TimerManager

Callers run `addTimer`, `cancel`, `refresh` and `reset`, each cut where it reads
`m_cb` before the lock, at the lock, and at `m_tickled` and `tickle()` after it.
Workers clear `m_tickled`, compute the delay, wait, read the clock, and list the
expired callbacks.  Waits are durations, due times are points of the wall clock,
which `Jump` sets back.  `Periods`, `Hour` and `MaxTimeout` stand for values in
milliseconds.

### IOManager

A call's place in `do_socket` is `pc`:

    none -> issue -> (timer ->) find -> (make ->) add -> added -> held -> ready -> leave -> none
                                                         added -> hailed -> ready

`added` is registered and on its way to `YieldToHold` (`iomanager.cpp:153`,
`hook.cpp:185`); a fiber that is scheduled before it has got there is `hailed`
and runs on when it has suspended.  `held` is suspended, `ready` scheduled.  The
kernel is external: an operation in `inflight` ends once.  When it completes, its
packet, which names the `FdContext` (the key of the port), the `EventContext` (the
address) and the operation, goes to `port`, if the socket is associated with the
port by then.  When it fails (`Fail`) or is cancelled, its packet is swallowed by
the inner loop of `idle()` (`iomanager.cpp:318-328`) and changes nothing, so that
none is modelled.  `cancelEvent` and `cancelAll` look the `FdContext` up under
the read lock, which they give up before they take its mutex: `Found` is what they
may have found.  The addresses of `EventContext`s are used again as soon as neither
a call nor an `FdContext` holds them.  `loss` is a history: why nothing will
schedule the fiber of a call, if so.  A world names the descriptors that have an `FdContext`
already (`warm`) and, as `env`, what may happen:

| member | what it allows |
|---|---|
| `"immediate"` | an operation succeeds at once (`hook.cpp:129`) |
| `"early"` | an operation completes before `addEvent` has registered it |
| `"error"` | an operation ends with an error |
| `"timeout"` | calls have a timeout |
| `"cancel"` | `cancelRead`, `cancelWrite`, `cancelAccept` |
| `"close"` | `s_closesocket`, and the same descriptor value for a new socket |
| `"shared"` | a fiber sends on a socket while another one receives |

### IdleWait

`queue` is a set: no property here depends on its order.  `Share` is the tickle
of a worker that leaves something in the queue, `Trigger` what a woken worker
schedules, `ScheduleOutside` a thread that is not of the pool (the tasks of
`Outside`).  The wait may always end by itself, which is the cap of 3000 ms.

### RequestStream and RequestPromise

A call of `request()` is at `call[c]`: `add` (its context and timer), `push` and
`notify` (`enqueue`), `parked`, `done`.  The reader, the writer, `start()` and the
handlers of the peer's messages have places of their own (`at`, `handler`); they
are cut at every lock, atomic, semaphore and socket operation.  `ctx[c]` is the
`Ctx`; that `doRsp` takes its scheduler by compare-and-exchange is what makes the
end unique.  A call may pass a request object that another call has used, a
retry, so that two contexts may have one number (`object` of the world).  `m_sn`
counts modulo `MaxSn + 1`.

`RequestPromise` knows of a call that it waits, what has happened to it (its
response came, its timer ran out, the connection was closed under it) and what it
reported.  `KeepsPromise` says that a call is woken once, returns once, and
reports something that happened.

### TcpServer

`pc[a]` is the place of accept loop `a` in `startAccept`, `Socket::accept` and
`s_accept`; `stop[s]` that of a call of `stop`, whose function runs on the pool;
`closing` the calls of `s_closesocket`, which cancels the events, removes the
`FdCtx` and closes the socket in three steps.  A closed descriptor's value goes to
the next socket (`NextFree`).  Closing a socket, by `s_closesocket` or by
`~Socket`, ends what is pending at it.  `FdManager::get` looks under the read lock
and fills under the write lock, two steps (`KeepCtx` or `MissCtx`, `MakeCtx`); an
`FdCtx` that is there is kept.  An `AcceptEx` that ends with an error wakes nobody
(`CompleteFails`).  The kernel's part is a table of associations with
the port, the operations in flight, the packets, and the clients queued at a
listening socket.

### ByteArray, NodeChain, ByteBuffer

The server's and the client's `ByteArray` are the same code.  `NodeChain` follows
it loop by loop with recursive operators; `ByteArray` says in closed form what the
loops come to, and `SameAsLoops` checks that they agree from every array the run
reaches.  The other modules use the closed forms.  A read of no bytes at the end
of the last node dereferences a null pointer (`bytearray.cpp:468`); its result
is `"faults"`, after which there is no process.

### RockExchange

Every read and write of a socket takes a piece of any size.  `in[s]` is what side
`s` is reading (the header, then the body into the buffers of an array), `out[s]`
what it is writing.  Header, lengths, the magic number, compression above
`gzip_min_length` and the fields of requests and responses are those of the code;
that a decoder refuses a length at `gzip_min_length` of its own side, not at
`max_length`, too.  zlib is external: `Deflated` counts zeros, so that its output
is shorter or longer than its input, `Inflated` undoes it, and `ZlibStream` is the
list of buffers of `BuffSize` bytes around them.

### Settings, LogFormatter, Environment

A caller loads the file, sets a variable, calls `Lookup`, adds and removes modules
or changes a logger; it is cut at the locks (`caller[c].pc`).  The time of the
file is in seconds: an edit moves it on or leaves it, and the history
`file.noted` says whether a load had noted that second before the edit.  A module
is told of its unloading after the lock has been given up (`Unloads`); in between
it is in neither table and in `caller[c].out`.  A library that does not load gives
no module (`LibraryFails`).  The listener of
`logs` is four steps for each definition that has come, changed or gone
(`NotifyLevel`, `NotifyFormatter`, `NotifyClear`, `NotifyAdd`), one for each lock
of a logger it takes; `NotifyNext` picks the definition.  The loggers of all
names exist from the start: `LoggerManager::getLogger` makes them on demand, and a
logger nobody has asked for writes nothing.  An event is
written in steps as well: the test of its level, the appenders of its logger under
the logger's lock, or those of the root logger if there are none.  The tables of modules are two
sets, `byId` and `byType`.  `LogFormatter` parses a pattern character by
character, a fold over its positions, because a property is about it.  The texts of values are kept as the
fields that are written and read, without their layout.

## 3. The runs

The number in brackets is the number of distinct states.

| run | what it shows | instance and why it is enough |
|---|---|---|
| `scheduler_pool` (348 000) | no context is resumed twice (`TakesOnlySuspended`); states are truthful (`ExecWhileRunning`); a stop leaves nothing behind but items for a worker that has exited (`StopDrains`); stop returns and tasks end (`PoolFinishes`) | 2 workers, a fiber and a function that yield twice and schedule each other, for one worker or for any: two workers suffice to race for a task. The first two are proved for any number of workers and tasks |
| `scheduler_hold` (3 200 000) | `CountsExact`, and what no worker has taken can be resumed (`ReleasedIsResumable`), also along the paths that end in a faulty resumption | 2 fibers with `YieldToHold` and `switchTo` on 2 workers, two yields each. Both are proved for any number |
| `fiber_semaphore` (1 900) | `NoPermitWhileWaiting`, `FirstComeFirstServed`, `KeepsPromise` | 4 fibers, so that a waiter in the middle of the list exists |
| `timers` (658 000) | `NoOversleep`, `OneOutcome`, `NeverEarly`, `TimersEnd` | worlds: 1 caller and 2 workers, one that clears `m_tickled` while the other waits or lists with a stale reading; 2 callers on the same timers with cancel, refresh and reset; a clock that is set back. One of the two timers recurs; the clock passes a shortened hour |
| `io` (2 979 000) | `PendingExact`, `RegisteredAwaits`, `NobodyForgotten`, `OwnResult` | 2 fibers with 2 calls each on a descriptor, 2 workers; worlds: timeouts, cancellations and early completions on a descriptor nobody has used yet, so that two first calls make two `FdContext`s; close and reuse of the descriptor with immediate successes and early completions; both with a reader and a writer at once; timeouts and closes; errors with timeouts, cancellations and early completions; and immediate successes only, where nobody may be forgotten at all. The first three properties are proved for every world |
| `io_early` | refutes `CallsReturn` | section 6; the smallest instance |
| `idle_pool` (44 000) | `NoSleepOnWork`, `AllTasksRun` | 2 workers; a task for any, one for one worker and one from outside. Both are proved for any number |
| `request_stream` (504 000) | `OwnResponse`, `StartsAlone`, `NothingStuck`, `KeepsPromise`, `CallsReturn` | worlds: a call while the connection is lost, closed and made again; a call and its retry, from number 0 and 1; two calls at once; a request and a notification of a peer that leaves. Two contexts suffice to meet on one number or in one queue |
| `byte_buffer` (6 100) | `SameAsLoops`, `RoundTrips`, `ActsAsBuffer` | nodes of 3 bytes, so that a word lies over two of them and a long over three; positions up to 8 and 4 operations reach every offset in the first nodes, with and without a node behind; numbers at the edges of every length of a varint. The last two are proved for every size of nodes |
| `rock_exchange` (61 000) | `FramesInStep`, `RefusedForCause`, `Echoes` | 2 texts of 2 lengths, every cut of every piece; a limit that compresses neither, one or the other side, and one that makes the server refuse; nodes of 8 bytes, so that one response ends with a node, buffers of 4. All three are proved for every size, text and limit |
| `tcp_server` (319 000) | `NothingLeaks`, `KnowsItsSockets`, `StopWakes`, `ServesTheQueue` | 3 descriptor values; worlds: more clients than descriptors; two lives of a server with an orderly owner; accepts that fail; owners who bind, stop and start as they like; a server that is stopped while it is being stopped |
| `settings` (652 000) | `OldStaysStored`, `LoggersFollow`, `NeverMixed`, `LatestTakesEffect`, `ModulesAgree`, `TextsAreKept` | worlds: a file edited three times, within a second or not, and loaded, with a variable that comes late or not; a file that sets what is set directly as well; direct changes while an event is written, or with `setFormatter` in a daemon; two threads that set; modules of one identity with one thread, modules that differ with two; all patterns of at most 5 characters; all command lines of at most 5 words |

`PoolFinishes` assumes that the queue is free of pinned items again and again.
Without that it is false: a worker may exit before the last item for it is
queued (section 6).

Bounds.  `MaxYields`, `MaxStarts`, `MaxCalls`, `MaxObjects`, `MaxCloses`,
`MaxClock`, `MaxPosted`, `MaxPermits`, `MaxSn`, `MaxLoops`, `MaxStops`, `MaxOps`,
`MaxTexts`, `Most` and the numbers in the worlds keep counters finite.  In
`TimerManager` calls stop when a due time would pass `MaxClock`, where the clock
stops, so that no timer is left that can never be due.  In `IdleWait`
notifications above `MaxPosted` are not told apart, which loses none that
matters with as many workers.  `PendingExact`, `OwnResult` and `OneOutcome`
depend on a second call, object or timer, which is why these bounds are 2 and
not 1.  `Radix = 4` scales a byte to two bits: a varint has one bit of it for the
continuation, as it has one of eight in the code, and what the codecs do depends on
`Radix` only through it.

`SYMMETRY` is used in `io` only, which has no liveness property; fibers, addresses
and workers are interchangeable in it, and a world names all descriptors or none.

`CHECK_DEADLOCK FALSE` is used where the system really comes to rest: there are
finitely many calls, tasks, operations, texts or clients, and in `IOManager` and
`IdleWait` fibers are forgotten or the pool has been stopped.  `Scheduler` says
itself when all is over (`Terminated`), so that a deadlock in it is found.

## 4. Fairness

- Threads: the operating system runs every thread.  `WF` on a worker's next step,
  on `StopRequest`, `StopJoin`, `StopNotify`, on a caller inside an operation.
- In `TimerManager` `GetQueuedCompletionStatus` returns when its time is over or a
  packet is there (`WakeDue`), and time passes (`WF(Tick)`).
- Wakers: who holds a reference to a parked fiber uses it (`WF(Wake)`, in
  `Scheduler`); woken fibers are resumed (`WF(Resume)`, in `FiberSemaphore`).
- The `CallsReturn` of `IOManager`, which `io_early` refutes, takes for granted
  that the peer answers (`WF(Complete)`): the call does not return even so.
- `RequestStream`: `WF` on the steps of the system taken together (`System`: calls
  that have begun, the fibers of the stream, its timers).  The peer need not do
  anything, so that `CallsReturn` rests on the timer of the call, not on an
  answer.
- `TcpServer`: `WF` on each accept loop, on each `stop` that has begun, on the
  closing of sockets and on the kernel's completions.  Clients need not come.

Nobody is obliged to call `schedule`, `stop`, `addTimer`, `cancel`, `request` or to
make a socket call.  No strong fairness is used.

## 5. The proofs

The theorems hold for every value of the constants that satisfies the named
assumptions of the modules: any number of threads, tasks, fibers, timers,
calls, callers, and any set of worlds.  The pool is a finite set of threads; nothing else has to be finite.

**`SchedulerProofs`**

- `TypeCorrect`.
- `CountersExact`: needs that the worker's `pc` and the counters move together;
  holds without any condition on how tasks yield.
- `ReleasedCanResume` (`ReleasedIsResumable`), without any condition: the context
  of a task that no worker has taken is saved and its state is one `run()`
  resumes.  From `SharedInv`: the saved context is a lock.  The worker that jumps
  through it consumes it and stores it again, so that a task is on one stack at
  most, up to the step that goes wrong.
- `ResumeIsSafe`, `Exclusive`, `StateTellsExecution`: `NoFault`,
  `TakesOnlySuspended` and `ExecWhileRunning`, under the condition `Safe` that
  there is one worker, or that no task uses `YieldToHold` and none is scheduled
  twice.  The invariant says that a reference to a task is in one place only: an
  item of the queue, the item of one worker, or a `schedule` call still to come;
  and that the context of a task that nobody is on has been saved.  It is needed
  since none of the three properties knows about the queue, from which the next
  resumption comes.  `EndedDead` and `Alive` say that a fiber that has ended keeps
a state of the end and that no reference is to one, so that no worker resumes it or
writes over its state.  The condition is not a convenience: with two workers and
  `YieldToHold` all three are false (section 6).
- `ParkedStays` (`ParkedIsResumable`) under `Solo`, one worker and nothing
  scheduled twice: `ParkPlaces` adds where the one reference to a task is while
  it waits.  With two workers it is false (section 6), and no run checks it.
- `StopLeavesNothing` (`StopDrains`) under `Plain`, no `YieldToHold` and nothing
  scheduled twice: `DrainInv` says that an idle fiber ends only on an empty and
  stopping pool, and that a task which has yielded, or an item nobody has taken,
  is one some worker has still to look at, or one for a worker that has exited.

**`TimerManagerProofs`**

- `TypeCorrect`: with `ms[t] <= next[t]`, so that the start time `reset()`
  computes does not wrap.
- `CallbackFlag` (`CallbackMeansQueued`), from an insertion belonging to one
  caller; `cancel()` erases the result of `find` without a test and relies on it.
- `EndsOnce` (`OneOutcome`).
- `NoEarlyCallback`: `[]ReadingsAreFresh => NeverEarly`, in runs of any length.
  `ReadingsAreFresh` says of the surroundings that no worker is kept for more than
  an hour between its reading of the clock and the lock of `m_mutex`
  (`timer.cpp:214-224`).  Then `detectClockRollover` cannot take a stale reading for
  a clock that was set back; with an older reading it does, and lists every timer.
- `FirstIsWatched` (`NoOversleep`): `Vigilant` says that a worker which waits
  longer than the first timer has its notification on the way: in the port, or
  due from a caller that is between the lock and `tickle()`, or from a worker
  that will come round because `m_tickled` is set (`TickleSeen`).

**`IOManagerProofs`**

- `TypeCorrect`, `PendingIsExact` (`PendingExact`), `OnlyWaitersAreWoken`
  (`RegisteredAwaits`), in every world.  `Sound` adds that a registration is in
  the `EventContext` its call has made (`OwnContext`, `Placed`), that only `READ`
  is ever registered, and that there are finitely many registrations, so that
  counting them up and down by one is meaningful.
- `WaitersAreAwaited` (`NobodyForgotten`), in every world.  A fiber that waits is
  registered and its operation in flight, its packet in the port or in a worker's
  hand, or its call has met one of five things, each only where the world lets it
  happen (`Causes`).  `Known` says that traces are of calls that have begun, which
  the freshness of the next one needs; `Ruled` what does not exist in a world
  without its cause: closed sockets (`AllOpen`), timers (`Timeless`), packets before
  the registration (`Late`), a second `FdContext` or one without the port (`Fixed`);
  `Awaited` is the property with these.
- `OwnLength` (`OwnResult`, an action property), where `Pends` holds: no
  immediate result and no closed socket; timeouts, cancellations and early
  completions are allowed.  `Single` says
  that a call has one trace at a time, `Stored` that a fiber that is scheduled
  finds the length of its own operation in its context.

**`WakeupProofs`**: whoever waits is woken, in `FiberSemaphore` and in `IdleWait`.

- `NoLostWakeup`, `ResumedOnce`, `OrderOfService`, and `ImplementsPromise`, the
  safety part of the refinement of `CountingSemaphore`.  `OrderOfService` follows
  from the list having no duplicates; `ImplementsPromise` from the list and
  `woken` being disjoint, so that the number of carried permits changes by what
  `notify` gives.
- `TypeCorrect`: with both counters exact, hence never negative.
- `PoolAwake` (`NoSleepOnWork`).  Whoever queues a task is awake and looks at the
  queue again before it sleeps; it may pass over a task only if that is pinned.
  The invariant adds that a worker which has ended and passes over a pinned task
  is not the one that others rely on.
- `NothingLeft` (`AllTasksRun`).  Tasks that a woken worker is about to schedule
  are counted nowhere.  It holds all the same: the *last* worker to end finds the
  queue empty and nobody active, and all others have ended and get tasks only
  from the queue.

**`RequestStreamProofs`**

- `TypeCorrect`, `StartIsAlone` (`StartsAlone`), `WriterIsWoken`
  (`NothingStuck`).  `Lanes` gives each fiber of the stream its places; `Tokens`
  says that `m_waitSem`, the reader, the writer and `start()` have two permits
  between them, so that `start()` goes on only when both fibers have left;
  `Working` ties what is queued to a call or a handler that will notify.
- `StreamKeepsPromise` (`KeepsPromise`, the safety part of the refinement of
  `RequestPromise`).  `Ending` says who may still end a call and with what: its
  entry in `m_ctxs`, its timer, the list of a closing connection, or an ender
  that holds the context.  Only the compare-and-exchange of `doRsp` keeps two of
  them apart, so a step that ends a call is a step of the promise, and every
  other step a stutter (`PhasesFollow`).
- `ResponsesAreOwn` (`OwnResponse`) under `FewCalls`: not more calls than there
  are numbers, hence none given twice while its response may be on the way.
  `Numbering` says which numbers have been given to which objects, `OnTheWay` that
  what the peer has or sends back carries them.  With 2^32 numbers in the code
  this is a matter of how long a response may be delayed.

**`SettingsProofs`**, for any set of patterns, names, callers and events.

- `OldIsStored` (`OldStaysStored`): any number of threads.
- `TablesAgree` (`ModulesAgree`): `Apart`, one thread or no two modules of one
  identity.  `ModulePlaces` says where a module is while `add` and `delAll` are
  between their critical sections, in the hands of one thread that is about to call
  its `onUnload` included: from the removal to that call a module is in no table
  and has not been told.
- `EventsAreUnmixed` (`NeverMixed`), with one thread that sets: a logger has the
  appenders of one definition at any time (`OneTag`), and an event that is being
  written has taken them in one critical section.
- `ConfigurationIsFollowed` (`LoggersFollow`), with one thread that sets: while
  the listener works, the definitions it has dealt with suit their loggers and
  those still to come are in its list (`LogsChange`).  It is about levels, patterns
  where nobody calls `setFormatter`, dismissed loggers and the copy of a listener;
  the appenders of a logger that has a definition are left open, since the code does
  not keep them (section 6).
- `FileTakesEffect` (`LatestTakesEffect`), with one thread that sets: a variable
  is as the file says, or the load that began after the edit has still to get to
  it (`Serves`), and a time is noted only by a load that reads the file (`Times`).
  Left out are unforced loads of an edit whose second had been noted before it
  (`Stale`), and differences that `operator==` does not see, which are those of
  appenders (section 6).

**`TcpServerProofs`**, for any number of addresses, descriptors, clients, loops and
calls of `stop`.

- `TypeCorrect`, with what a loop has while it is in a call (`Working`).
- `SocketsAreOwned` (`NothingLeaks`), in every world and also when a loop has
  crashed.  `Held` says more than the property: an open descriptor has
  somebody who *will close or hand it over*, and an object whose socket is being
  closed is not he.  It needs `Known`: `Socket::init` drops a client that has no
  `FdCtx` (`socket.cpp:576`), so that one without it must be in the hands of
  `accept`, which is about to make it, or of `s_closesocket`.  `Live` keeps
  `AcceptEx` to open sockets, `Made` the objects of the next `bind` unused.
- `SocketsAreKnown` (`KnowsItsSockets`), from two invariants.  `Apart`, while the
  owner is orderly or asks for one `stop`: one function of `stop` at a time
  (`OneStop`), so that no two objects, loops, handlers or calls of
  `s_closesocket` have the same descriptor, and what the first cancels and the
  last closes is one socket.  `Quiet` and `Answers`, while nobody stops the server:
  a listening socket has one loop, and each operation in flight and each packet is
  the answer to the call this loop is in.

**`BytesProofs`**, for nodes of any size, bytes of any number of values, and texts
of any length: the array (`BufferSpec` of `ByteBuffer`) and the conversation over
it (`Spec` of `RockExchange`).

What these modules compute is defined by recursion over a sequence.  The provers
cannot instantiate the induction theorems of the library, which take an operator;
they can use that every set of natural numbers has a least member (`Least`, from
`NatLessThanWellFounded` and `WFMin`), so that an induction is a set of indices
that holds 0 and with `i` also `i + 1` (`UpTo`).  `Recursion` and `SameStart` say
once that a recursive function exists and that its values depend on the part of
the sequence before them; the definitions then unfold step by step.

- `TypeCorrect`; `CursorKeepsUp` (`CursorAtPosition`); `ImplementsBuffer`
  (`ActsAsBuffer`, the refinement of `FlatBuffer`).  The invariant `Inv` says that
  the array is `Sound`: the capacity is a whole number of nodes, the position does
  not pass the size, nor the size the capacity, and the current node is the
  position's, none at the end of the last node.  Every operation keeps it, also
  with the node that `addCapacity` appends in the middle of a write and with the
  buffers that a socket fills; what the user sees of a sound array, `Bytes`, then
  moves as the file does.
- `EverythingReturns` (`RoundTrips /\ EveryValue`): from any state that the array
  reaches, in either byte order, every signed or unsigned number of up to eight
  bytes, fixed or as a varint, and every string that fits its length come back as
  they were written, with the position where the writing left it.  `RoundTrips`,
  which the run checks, takes numbers and strings at the edges, `EveryValue` all.
  Left out is the empty string at the end of the last node, which faults; a file
  keeps what is written to it only under the condition in `ThroughFile`, without
  which it does not (section 6).  It follows from `Inv` alone.  `Lies(c, p, s)` says that `c` holds `s` behind its
  first `p` bytes: a write makes it so (`LiesWhereWritten`), and no write behind
  `s` ends it (`LiesStill`); `Stands(b, c, q)` says that `b` is `c` with its
  position at `q`, which is what each read of a part leaves (`ReadThere`).  On the
  numbers: a number is the sum of its digits in any base (`SumOfDigits`), for the
  bytes in memory (`MemoryIs`) and for the groups of a varint, whose loop is in
  closed form in `Loop` and has ended when the groups have (`VarintThere`,
  `WithinLimit`); two's complement and the zigzag code are undone on their range
  (`SignedBack`, `ZigzagBack`).  On the files: `SoFar` is the state of
  `writeToFile` after `k` nodes; the condition in `ThroughFile` is what the first
  node needs (`NextPiece`), the others begin at their start.  The hypotheses are
  those under which the code can do it: a byte has more than two values, or the
  groups of a varint are empty, and a string's length fits into the two bytes of
  `writeStringF16`.
- `ImplementsEcho` (`Echoes`, the refinement of `EchoService`), `AlwaysInStep`
  (`FramesInStep`) and `AlwaysForCause` (`RefusedForCause`).  First come the
  codecs: a word, a text, a request and a response that are written are read back
  (`HasWord` and what follows it), and what `zlib_stream.cpp` cuts into buffers,
  compressed and unpacked, is what was put in (`InflatedDeflated`, for the
  stand-in of zlib).  Then `ExchangeInv`, which says of the bytes that are *under
  way*, and not of where they are: while both sides are there, what a side has got
  of a frame, what the link holds and what the other has still to write are,
  one after the other, nothing or the whole question (`Asking`) or the whole
  answer (`Answering`).  A read or a write of a piece moves bytes
  from one of the three to the next and changes nothing of their concatenation
  (`OnlyForward`), so that the size of the pieces drops out.  None of the
  three properties is inductive without it: none knows what is still to come.
  `ServerAlone` and `ClientAlone` say what one side may find after the other has
  gone, `Causes` why a side gave up.
- `ExchangeAssumption` is what the code gives: a text that `scanf` reads is not
  empty and has no zero byte, and a frame, at most twice its message after
  compression, has a length that fits the header.  With `Radix = 256` the second
  is a text of less than two gigabytes, where the client's buffer has four
  kilobytes.

Only model-checked:

- all liveness properties (`PoolFinishes`, `TimersEnd`, both `CallsReturn`,
  `StopWakes`, `ServesTheQueue`, the liveness of the refinements): fairness and
  `ENABLED` are out of the prover's reach;
- `SameAsLoops`: `NodeChain` and `MCByteBuffer` declare recursive operators, so that
  no theorem can be about them.  That the closed forms are the loops rests on the
  run; what follows from the closed forms is proved for every size;
- `TextsAreKept`: the parsers of patterns and command lines go over their text in
  nested recursions, and nothing rests on them.

## 6. What the code gets wrong

One run is refuted by TLC, and is a finding in `PROJECT.json` with the comment that
the code does not keep: in `io_early`, a completion that comes before `addEvent` is
dropped and its fiber never scheduled.

Others come out of the same modules with a formula or another choice of constants.
They have no run of their own; to see one, check the formula with the constants
given.  Those marked with a star have their formula in the module.

| where | constants | what happens |
|---|---|---|
| `Scheduler` `TakesOnlySuspended`* | `SchedulerHold.cfg` | a fiber publishes `HOLD` (`fiber.cpp:213`) before its context is saved (`fiber.cpp:170`); a waker has scheduled it already, and another worker jumps through a context in use, though the comment at `scheduler.cpp:255` promises to skip fibers that are running |
| `Scheduler` `ExecWhileRunning`* | `SchedulerHold.cfg` | the worker that comes back stores `HOLD` over the `EXEC` of the next one (`scheduler.cpp:290`; `fiber.h:84` promises `EXEC`), or over its `READY`, so that the task is not queued again, or its `TERM`, so that the next reference resumes a fiber at the end of `MainFunc`, which is never to be reached (`fiber.cpp:257`) |
| `Scheduler` `ParkedIsResumable`* with two workers | `SchedulerHold.cfg` with three yields | the worker that comes back finds `READY`, which the fiber has got from its next yield on another worker, and queues it a second time (`scheduler.cpp:284`): that reference resumes it while it is parked, and its waker finds it running or ended |
| `Scheduler` `RunsWhereAsked`* | `SchedulerPool.cfg` | a function scheduled for one thread (`scheduler.h:69`) continues on any after it yields (`scheduler.cpp:315`) |
| `Scheduler` `StopReturns`* | `SchedulerPool.cfg` | between `--m_activeThreadCount` (`scheduler.cpp:283`) and the requeue a worker exits, and what is pinned to it stays in the queue for ever |
| `IdleWait` `OutsideIsHeard`* | `IdlePool.cfg` | a task scheduled from outside between the last look at the queue and `++m_idleThreadCount` (`scheduler.cpp:349`) waits for up to three seconds |
| `TimerManager` `NoOversleep` without `jumps = 0` | `Timers.cfg` | the clock is set back while a worker waits; a refresh then makes the timer due earlier than the worker will look, and notifies nobody |
| `TimerManager`: a timer at the front is announced | `Periods = {1, 2}`, `MaxTimeout = 3` | it is not while `m_tickled` is left over (`timer.cpp:152`); `NoOversleep` bounds the harm: some worker has yet to look at the timers |
| `IOManager` `CallsReturn`* | a world with `"cancel"` or `"timeout"` | `cancelEvent` clears the bit that `triggerEvent` tests (`iomanager.cpp:212`, `46`): a call that times out or is cancelled is never scheduled, though `socket.h:134-137` promises a result |
| `IOManager`: no fiber gets to `"dead"` | `"shared"` | sending registers `READ`, as receiving does (`hook.cpp:378`): using a socket both ways fails the assertion of `addEvent` |
| `IOManager`: a timeout cancels its own call | 2 calls, `"timeout"` | the callback of a timeout tests, then cancels, and may meet the next call on the descriptor (`hook.cpp:160-166`) |
| `IOManager`: no fiber gets to `"hailed"` | any world | the packet is handled between the unlock in `addEvent` (`iomanager.cpp:153`) and `YieldToHold` (`hook.cpp:185`): a fiber that still runs is in the queue, as in the first row |
| `IOManager` `CallsReturn`* | `"error"` | `idle()` goes on with its inner loop when a packet carries an error (`iomanager.cpp:318-328`): the call whose operation has failed is registered and never scheduled |
| `IOManager` `OwnResult` without `Pends` | `"immediate"` or `"close"` | a packet of an operation that succeeded at once, or of a closed socket, stores its length through an address that the next call has got (`iomanager.cpp:345`) |
| `IOManager`: a call that timed out has no data | `"timeout"` | the data arrives between the test and the return (`hook.cpp:160`) |
| `RequestStream`: a response in time ends its call | `TwoTries` | the timer of the first attempt erases the entry of the retry, which has the same number (`async_socket_stream.cpp:246`); the retry ends by its own timer |
| `RequestStream`: a closed stream stays closed | `closes` | `close()` between the reader's decision to reconnect and `start()`, or within `start()`, is overridden (`async_socket_stream.cpp:149-195`) |
| `RequestStream`: `disconnectCb` once for a connection | `closes` | `innerClose` of the reader and of the writer both find a socket to close |
| `RequestStream`: two `start()` at once | | both wait for `m_waitSem`, which is posted twice, and each may take one: neither goes on (`async_socket_stream.cpp:335`) |
| `RequestStream`: the number 0 means "none" | `sn = 0` | the first object gets number 0, and a retry of it another one (`rock_stream.cpp:66-72`) |
| `RockExchange`: no side ends with `"faults"` | `RockExchange.cfg` | `readStringF32` needs the bytes of length and string (`bytearray.h:307`); for an empty one at the end of the last node it reads a null pointer (`bytearray.cpp:468`). A response has an empty body, so that a text of 4075 bytes ends the client |
| `RockExchange`: nothing shorter than `max_length` is refused | `<<15, 50>>` | the decoder compares with `gzip_min_length` and logs `max_length` (`rock_protocol.cpp:236-239`): a side with a lowered limit refuses ordinary messages |
| `RockExchange`: a client that gets no response goes on | a refused request | `main` uses the null response (`client/sylar/main.cpp:37`) |
| `ByteBuffer` `ThroughFile` without its condition | `ByteBuffer.cfg` | `writeToFile` subtracts the offset from the last stretch too (`bytearray.cpp:566`): bytes are lost, or the walk leaves the chain; `getMd5` has the same loop |
| `TcpServer`: nothing but clients is handed over | worlds where `stop` is called | `cancelAll` wakes the accept without marking it cancelled, so that it succeeds, with a socket that is no client (`tcp_server.cpp:121`, `hook.cpp:345`) |
| `TcpServer`: `~crashed` | the same | `stop` between two rounds of a loop closes the socket; `FdMgr::get` gives null, which is used (`hook.cpp:276-279`) |
| `TcpServer` `StopWakes` from every state | the same | a loop that registers after `s_closesocket` has cancelled is held for ever (`hook.cpp:387-405`) |
| `TcpServer` `ServesTheQueue` without `Forgotten` | `errors` | the packet of an `AcceptEx` that ends with an error wakes nobody, and the loop accepts no more (`iomanager.cpp:318-328`) |
| `TcpServer`: a new server on an old descriptor value is served | two lives | the value's `FdContext` is not new, and the new socket is not associated with the port (`iomanager.cpp:147`) |
| `TcpServer`: `start` after `stop` runs | hasty owners | the function that `stop` scheduled closes the sockets of the new start (`tcp_server.cpp:117-125`); a failing `bind` of a running server clears `m_socks` under its loops (`70-73`) |
| `TcpServer` `KnowsItsSockets` without its condition | hasty owners, 2 stops | the functions of two `stop` calls that overlap both find the socket open (`socket.cpp:343`) and close the same descriptor value twice, the second time perhaps another socket's |
| `Settings` `LatestTakesEffect` for a variable that is also set directly | a world with both | an unforced load skips a file whose time it has noted (`config.cpp:74`), so that the value of the file does not come back |
| `Settings` `LatestTakesEffect` for all loads | a file | an unforced load skips an edit made in a second that has been noted (`config.cpp:72-77`): `st_mtime` is in seconds |
| `Settings` `LoggersFollow` for two threads | `{c1, c2}` | the listener notified last need not be told the value assigned last (`config.h:318-333`); `NeverMixed` fails as well |
| `Settings`: a change of appenders takes effect | `Swapped` after `Quiet1` | `appenders == appenders` (`log.cpp:600`) compares a value with itself: definitions that differ only there count as equal, and neither an edit of the file nor `setValue` has an effect |
| `Settings` `ModulesAgree` for two threads and one identity | `Upgrade`, `{c1, c2}` | two `add`s delete, then insert; the older one's entry stays in the table by type (`module.cpp:110-116`) |
| `Settings`: a module that is in no table has been told | two threads | `del` gives up the lock before it calls `onUnload` (`module.cpp:132-133`): another thread finds the module gone, and may load its successor, before it has unloaded |
| `Settings`: a module's variable has the file's value after `GetModule` | `Two` | `library.cpp:86` passes a path that is absolute already, and `LoadFromConfDir` makes it absolute again (`config.cpp:64`): a path that begins with a drive letter gets the working directory in front (`env.cpp:149-160`), and nothing is found there |
| `Settings` `EscapesHold`* | all patterns | the comment at `log.cpp:440` names `%%` an escape; the parser collects the first percent sign and looks at the second one again (`log.cpp:451-455`): `%%m` becomes a percent sign *and* the message, and `%%` before anything but the name of an item is an error |

Seen on the way, and outside what the models distinguish: names of variables with a
`9` are refused (`config.h:426`, against the comment at `401`); an
appender's level is never read from a file (`log.cpp:630-665`); `setFormatter(nullptr)`
with an appender that has no formatter dereferences it; `library.cpp:65` does not
compile as written, and its test does not detect a library without `CreateModule`; `main` overrides the `-c` option and ignores the result of
`init` (`main.cpp:34-37`); its `fails` vector is never cleared, so that a `bind` that
failed once never counts as successful; the delay of the first timer is cast to
`int` before it is capped (`iomanager.cpp:311`), and waited for anew after the packet of
an error (`308-328`), which no model has; `Socket::send` returns an
uninitialised count in the client (`client/sylar/socket.cpp:245-260`); the test of
`endia.h` compares multi-character constants and comes out reversed with MSVC on
x86, on both sides alike; `cancelWrite` cancels an event that no send registers
(`socket.cpp:133`).

## 7. What is not modelled

- `use_caller = true`: the thread that makes the scheduler as one of its workers,
  `Fiber::call` and `back`, `SchedulerSwitcher` between two schedulers.
- The stacks and reference counts of fibers; memory that is freed while a packet
  points to it shows as the reuse of an address.  The assertion of `Fiber::~Fiber`
  on the state of a fiber that is freed is not stated.
- Data races on plain members (`m_stopping`, `m_autoStop`, `m_tickled`,
  `m_state`, `m_isStop`) are atomic accesses in the models, in program order.
- `m_threadIds`, `dump`, names, log output, the texts of `toString`.
- In `IOManager`: `delEvent` and events with a callback, which nobody uses;
  `connect_with_timeout`, `s_sleep`, the socket options.
- In `IdleWait`: timers and pending events in `stopping()`.  The set of timers and
  the count of events only keep it from being true.
- `AsyncSocketStreamManager`, which spreads requests over streams and which nothing
  uses; `RockConnection::connect`; the decoding of bodies by protobuf, which nothing
  instantiates.
- Of `Socket`: `connect`, `reconnect`, datagrams, options, SSL sockets.
- Of `ByteArray`: floating point, which copies bits; `toHexString`.
- Of `Module`: the callbacks for connections and requests, `RockModule`, the order of
  `init`, a library without `DestoryModule`.  Of `Config`: `Visit` and the removal of listeners.  Of `Log`: the texts of
  the format items, opening and reopening files.
- `Thread`: the constructor waits for a semaphore that the new thread posts; its
  threads are the workers of `Scheduler`.
- `Address`, most utilities, the singleton: drivers of libraries and system calls
  without state of their own that a property could be about.  The client's copies of
  `Address`, `Socket` and `ZlibStream`.

## 8. What may come next

1. `HookedCalls`: `s_sleep` and `connect_with_timeout`; the abstract blocking call,
   which `IOManager` implements when completions come after the registration and
   nothing is cancelled.
2. `AsyncSocketStreamManager`, and the caller thread of `use_caller = true`.
