# A TLA+ development for sylar

sylar is a C++ fiber library for network servers: stackful fibers, an N:M
scheduler, an epoll-driven I/O manager with timers, hooks that turn blocking
system calls into fiber switches, and the usual utilities around them. This
directory holds TLA+ models of its concurrent core, the TLC configurations that
check them on small instances, and TLAPS proofs of the results that hold for
every instance. `PROJECT.json` maps every definition to the lines it models.

    tlc -workers 2 -config <run>.cfg <MC module>
    tlapm <Module>Proof.tla

## 1. The system

| component | state | operations | what is hard |
|---|---|---|---|
| `Fiber` (fiber.*) | `m_state`, context, stack | `swapIn/swapOut`, `call/back`, `YieldToReady/Hold`, `reset`, `MainFunc` | the state changes before the context is saved |
| `Scheduler` (scheduler.*) | queue `m_fibers`, two thread counters, `m_stopping`, `m_autoStop`, root fiber | `schedule`, `start`, `stop`, `run`, `idle`, `switchTo` | run() loops race for the queue and decide on counters when to leave |
| `Timer`, `TimerManager` (timer.*) | ordered set of timers, `m_tickled`, `m_previousTime` | `addTimer`, `cancel`, `refresh`, `reset`, `getNextTimer`, `listExpiredCb` | several idle threads collect; the wall clock jumps; a flag suppresses wake-ups |
| `IOManager` (iomanager.*) | `FdContext`s, epoll, tickle pipe, `m_pendingEventCount` | `addEvent`, `delEvent`, `cancelEvent`, `cancelAll`, `idle`, `stopping`, `contextResize` | edge-triggered reports are stale when handled; counters decide about stopping |
| hooks (hook.*) | per thread flag; `timer_info` per call | `do_io`, `connect_with_timeout`, `sleep`, `close`, ... | a timeout races the event it guards against; descriptor numbers are given out again |
| `FdManager` (fd_manager.*) | vector of `FdCtx` | `get`, `del` | contexts must not outlive their sockets; resizing and double creation |
| `Socket` (socket.*) | descriptor, connected flag, cached addresses | `connect`, `bind`, `listen`, `accept`, `send`, `recv`, `close`, ... | error paths between system calls that switch fibers |
| `ByteArray` (bytearray.*) | list of nodes, position, size, capacity, current node | fixed and varint reads and writes, `setPosition`, buffers for readv/writev | node boundaries, the end of a full buffer |
| `ConfigVar`, `Config` (config.*) | value, listeners, the registry | `setValue`, `fromString`, `LoadFromYaml`, `Lookup`, `addListener`, ... | listeners run under the read lock, the value is stored under the write lock, in between there is none |
| `Logger`, `LogAppender`, `LoggerManager`, `LogIniter` (log.*) | loggers with level, formatter and appenders | `log`, `setFormatter`, `addAppender`, ..., the listener of "logs" | loggers are taken apart and put together while threads log through them |
| `Thread` (thread.*) | handle, id, semaphore | constructor, `run`, `join`, destructor | the new thread and the constructor share the object |
| `FiberSemaphore`, `Mutex`... (mutex.*) | count, waiters | `wait`, `tryWait`, `notify` | a waiter is scheduled before it has yielded |
| `Address`, utilities | | | I/O, formatting, mask arithmetic |

How they interact. `IOManager` is a `Scheduler` and a `TimerManager`. A pool
thread runs `Scheduler::run()`: it takes a task from the queue, swaps into its
fiber and looks at the fiber's state when it comes back. Without a task it
enters the idle fiber, in the IOManager a loop around `epoll_wait()` that
schedules expired callbacks and the fibers whose events were reported. A fiber
that would block registers itself with an event (`addEvent`), a timer or a
semaphore and calls `YieldToHold()`; whoever triggers the event calls
`schedule()`. `schedule()` and an insertion at the front of the timer set call
`tickle()`, which writes to a pipe that is in the epoll set. `stop()` sets two
flags, tickles and joins; a thread leaves when `stopping()` is true in its idle
fiber. Two listeners connect configuration with the rest: one keeps a copy of
`tcp.connect.timeout` for the hooked `connect()`, the other configures the loggers. `SYLAR_ASSERT` is active in the build (`-O3` without `NDEBUG`): a failed
one ends the process.

What makes it correct, per component:
- Scheduler: a fiber runs on one thread at a time, is not lost between two
  loops, does not run after it has finished; counters are exact; `stop()`
  returns, and only when no work is left.
- Timer: a live timer is in the set; a one-shot fires once and not after a
  successful `cancel()`; the first deadline is never overslept.
- IOManager: the contexts, the kernel's view and the pending count agree; a
  waiting fiber is in one place; no edge is lost; no assertion fails;
  `stop()` leaves no waiter.
- Hooks, FdManager, Socket: a call works on the socket it was made for, with that
  socket's context; every waiting fiber can be reached; timers end with their
  calls; no error path loses a descriptor; no hooked call blocks its thread.
- Config and Log: what listeners keep is the value once a change is stored; no
  message that passes its level is lost during a reconfiguration; every call returns.
- Thread: the object is shared only while the constructor waits.
- ByteArray: it cannot be told from one flat array; what was written is read back.

The hazards these are aimed at are listed in `PROJECT.json`, each at its line.

## 2. Modules

| module | models | extends / uses |
|---|---|---|
| `TaskPool` | abstract: the life of each work item as a user sees it | |
| `Scheduler` | fiber.cpp, scheduler.cpp | instantiates `TaskPool` |
| `SchedulerProof` | theorems about `Scheduler` | `Scheduler` |
| `Timer` | timer.cpp, the timer half of `IOManager::idle()` | |
| `TimerProof` | theorems about `Timer` | `Timer` |
| `IOManager` | iomanager.cpp, `close()` of hook.cpp | |
| `IOManagerProof` | theorems about `IOManager` | `IOManager` |
| `ContextTable` | `m_fdContexts` and `contextResize()` | |
| `ContextTableProof` | that it is read in range | `ContextTable` |
| `Thread` | thread.cpp, `Semaphore` | |
| `Config` | config.h, config.cpp, the listener of hook.cpp | |
| `Log` | loggers and the listener of log.cpp | `Config` |
| `ConfigProof` | what listeners copy, and what the listener of "logs" makes of the loggers | `Log` |
| `Process` | threads that configure and log, or register events | `Thread`, `Log`, `ContextTable` |
| `ProcessProof` | theorems about `Process` | `Process`, `ContextTableProof`, `ConfigProof` |
| `Hook` | hook.cpp, fd_manager.cpp; of the IOManager and the timers only what calls need | |
| `Socket` | socket.cpp on the hooked calls | `Hook` |
| `SocketProof` | theorems about `Socket` | `Socket` |
| `FlatBuffer` | abstract: one array of bytes with a position | |
| `ByteArray` | bytearray.cpp, endian.h | instantiates `FlatBuffer` |
| `ByteArrayProof` | theorems about `ByteArray` | `ByteArray` |
| `MC*` | the instances TLC checks | the module of that name |

Each specification keeps deliberately wrong variants of some actions ("Mutant:")
directly before the action they vary. They are not part of `Next`; replacing the
action by its variant makes the property named in `PROJECT.json` fail, which
shows that the property depends on that line of the code.

### Scheduler
`pc[t]` is the place of a thread in `run()`; `ft`, `cb_fiber`, `idle_term` are
its locals. `pick` is the scan under `m_mutex`, one step. `enter` is between the
unlock and the swap; `body` is user code; `yield` is between handing the fiber
to an event source and `YieldToHold()`; `swap` is the window between the
assignment to `m_state` and the end of `swapcontext()`; `settle` is after it,
between the decrement of `m_activeThreadCount` and the end of the branch. `owner`
is the place of the owner's thread in `stop()`. `parked` is the set of fibers
that an event source holds. `failed` is the first assertion that failed, or
"stack shared", the undefined use of a context that is not saved.

`EarlySchedule` separates two worlds. If FALSE, a fiber is scheduled again only
once `run()` has left it, and the pool is right: this is what `sched_pool` and the
theorems `OneThread`, `AssertionsHold` and `IsATaskPool` show. If TRUE, wake-ups come whenever the code permits:
`sched_shared_stack` is the consequence for two threads, while one thread alone is
not harmed (`sched_single`).

`Scheduler` implements `TaskPool` under a mapping of two parts. `Runners(w)` is the set of
threads that execute on the stack of an item's fiber, from `swapIn()` until the context
is saved; `TaskPool` lets at most one be there, and none after the item has finished.
`Status(w)` is computed from where the item's fiber is and from its `m_state`. An
item that is entered again is running, finished or not, and one that neither the pool
nor an event source holds is "lost", a status no step of `TaskPool` leads to.

### Timer
One action per operation under the manager's lock; `addTimer()` is two steps,
the constructor (which reads the clock) and the insertion, and a third one for
the tickle after the lock is released. An idle thread goes through
`getNextTimer()`, its sleep, the three parts of `listExpiredCb()` (clock, test
under the read lock, collection under the write lock) and the scheduling of what
it collected. A set of timers with a total order by deadline and address is
modelled as a set, and `Earliest` allows every order among equal deadlines.
Time is in ticks; the wall clock may be set back, the sleep does not follow it.
`idle()` converts the time left to int (iomanager.cpp:302, 308): `AsTimeout` keeps the
low 32 bits of it, of which `IntLimit` is half the range, and a negative timeout is no
timeout for `epoll_wait()`.

### IOManager
A critical section under a context's mutex is one step. `interest`, `level`,
`edge` and `open` are the kernel: the registered mask, what is ready, which
descriptors have an edge to report, which are open. `got[t]` are the reported
events thread t has not handled yet. The pipe is `empty`, `ready` (an edge to
report) or `seen`. The scheduler is reduced to a set of queued fibers and the
states of fibers. A sleep ends by an event, a tickle or after MAX_TIMEOUT, which
the model allows whenever there is nothing to report. A thread for which `stopping()`
was true has ended its idle fiber (`idle_term`); `run()` scans the queue once more
and leaves at the next scan that finds nothing, without asking `stopping()` again.
`late` records that such a thread took a fiber in between.
Simplifications: `schedule()` appends and tickles in one step; fibers run with
no early wake-up (a queued fiber that still executes is skipped, as in `run()`,
and `Scheduler` has the rest); callbacks instead of fibers are not
distinguished; timers are in `Timer`.

### ContextTable
The vector alone, with the two locks of `addEvent()` as two steps. A context is
named by its descriptor and the resize that allocated it, so that a context that
was dropped and one that took its place differ. `Process` starts the threads that
use it.

### Thread, Config, Log and Process
`obj[t]` is a `Thread` object and `at[t]` the place of its thread in `run()`; one
owner makes and destroys all objects, as `Scheduler` does. A call of `setValue()` is
`frame[t]`: it calls the listeners in `todo` (`call`, or `log` while LogIniter's
listener works), gives up the read lock and waits for the write lock (`store`).
`LoadFromYaml()` is a list of names and texts; a text that cannot be converted, and a
listener that throws, do not end it. The rwlock is glibc's default, which prefers
readers. The listener of "logs" is a list of operations on loggers, `work[t]`, each
with the lock it takes; other threads log, set formatters and add appenders between
them. `owner[n]` is the thread that keeps a logger's lock while it asks the root
logger. `clean` and `before` are history: whether the last change of a variable was
made by one call alone whose listeners all returned, and the value before it.
Values, patterns and documents are small sets; a definition of "logs" in the instance
has an unknown file, one differs from another only in an appender's file, which makes
`setValue()` call the listeners, and there is a second node of the same name and a
pattern with an error. Every process either registers events or configures and logs, as the two share
nothing but the threads. Left out: messages that the listeners log themselves, and the
lock of the logger manager and of an appender, which are held over no other call.

### Hook and Socket
A call of a fiber is a record `call[f]` and a place `pc[f]`: `try` (the system call),
`arm` (the timer), `reg` (`addEvent()`), `wait`, `woken`, `check` (`SO_ERROR`), the
steps of `close()` and of `FdManager::get()`. A method of `Socket` (`meth[f]`) makes
one or more calls; other fibers run at every place. A socket of the kernel has an
identity `id` the program cannot see: contexts, slots and calls remember the one
they were made for, and the properties compare them. `calls[f]` names the
`timer_info` of a call, so that `winfo.lock()` succeeds exactly while the call runs.
Timers and event slots are reduced to what `Timer` and `IOManager` establish: a
one-shot callback runs once, a slot is emptied by whoever resumes its fiber. A refused
or failing socket is reported with both events (`ReportError`): if only one of them is
registered the assertion in `triggerEvent()` ends the process (`aborted`), as run
`io_hangup` shows. The behaviours of `Socket` go on to that point.
The timer's callback is two steps: the assignment to `cancelled`, and `cancelEvent()`.
Clients use an object the way the tests and the servers of the repository do
(`Sharing` = FALSE): methods of one object overlap only if one reads and the other
writes, and nobody closes an object in use; `cancelRead()` and its likes may come at
any time. With `Sharing` another fiber may close an object in use
(section 3). An object for which `CreateUDP()` got no descriptor counts as connected;
clients ask `isValid()` before they use it (otherwise `FdManager::get(-1)` indexes
before its vector).

### ByteArray
`nodes` are the contents of the list from `m_root` on, `m_cur` an index. Widths are
scaled (two data bits per varint byte, five-bit numbers, blocks of two bytes) so that
every boundary is near; the width is a constant and the codec is checked for all
numbers of it. Functions that do not change the object are operators, compared with
the data in every state. Dereferencing a null node ends the program (`failed`). Two
calls do it, and `FlatBuffer` has them as steps of their own after which nothing follows:
`SeekEnds`, `setPosition()` to the end of a full buffer (bytearray.cpp:458), and
`ReadEnds`, an empty string read there (bytearray.cpp:391). So the refinement says
that no other call ends the program, and none at another place.

## 3. Runs

"pass" runs finish without an error. "violation" runs check one statement the
repository makes about itself and show that the code does not satisfy it; each
has an entry under "findings".

| run | checks | expect |
|---|---|---|
| `sched_pool` | `OneThreadPerFiber`, `NoAbort`, `IdleCountExact`, `ImplementsTaskPool`, `StopReturns`, `WorkIsServed`: 2 workers, a fiber, a function, 2 stops, under fairness | pass |
| `sched_single` | `NoAbort`, `ActiveCountExact`, `ImplementsTaskPool`: the caller alone, early, double and pinned scheduling | pass |
| `sched_shared_stack` | `OneThreadPerFiber` with early wake-ups | violation |
| `timer_pool` | `NoLostTimer`, `OneShot`, `FirstDeadlineIsWatched`: 2 collecting threads, the clock set back | pass |
| `timer_live` | `TypeOK`, `ExpiredIsCollected` under fairness: 1 thread, the clock set back by less and by more than the hour | pass |
| `io_duplex` | `PendingExact`, `EpollInSync`, `NoAbort`, `ReadyIsServed`, `QueuedIsRun`: 1 thread, reader and writer on one socket, `close()`, under fairness | pass |
| `io_readers` | `NoLostWaiter`, `NoAbort`, `StopLeavesNothing`: 2 threads, 2 sockets | pass |
| `io_hangup` | `NoAbort` with a hang-up | violation |
| `io_stop` | `StopEndsAllWaits`: no event is registered when all threads have left | violation |
| `process` | `HandshakeHolds`, `ListenersAgree`, `NoDeadlock`, `InRange`, `NothingLost`: 2 threads, 3 variables, 3 loggers, 3 calls of Config and Log, 4 descriptors around the first size of the vector | pass |
| `sockets` | `CtxIsCurrent`, `NoForeignSocket`, `NoLeak`, `NoThreadBlocks`, `NoAbort`, `WaitersAreReachable`, `NoStaleTimer`: 2 fibers, 2 TCP objects and a UDP one, 2 descriptor numbers, 3 methods | pass |
| `bytes` | `CurIsAligned`, `CodecIsExact`, `LooksAgree`, `FileHoldsTheRest`, `ReadsBack`, `ImplementsFlatBuffer`: blocks of 2, up to 3 blocks, 2 writes and any number of reads and jumps | pass |

In `io_stop` thread a finds `stopping()` true and ends its idle fiber; a fiber is queued,
taken by a in the scan that follows, registers an event and waits; b has read the pending
count before. a finds the queue empty and leaves, b finds it empty and no thread active
and leaves. `StopLeavesNothing`, which `io_readers` checks, allows for exactly this: that a
thread took a fiber after its idle fiber had ended.

What TLC showed on other instances of these modules, or for other statements than
the ones kept. They are not runs of the project.
- `Scheduler`: with `MaxStops` 2 and `UseCaller` TRUE a second `stop()` enters the
  root fiber that has returned and an assertion fails (fiber.cpp:254); with a pinned
  task and a worker that leaves first `stop()` hangs (scheduler.cpp:163); a thread
  may leave while a READY fiber is between the decrement of `m_activeThreadCount`
  and the queue (scheduler.cpp:194), so that fewer threads serve it. A thread that
  then takes that fiber keeps its finished idle fiber and leaves at its next empty scan,
  so that with two workers, `Pins` {any, w1} and `MaxYields` 2 `stop()` can also return
  with a task in the queue that is pinned to a thread that has left
  (`ImplementsTaskPool` fails); the attempt to prove the refinement led to this.
- `Timer`: with two threads, or one and a client that cancels, `failed` is reachable:
  `listExpiredCb()` tests for an empty set under the read lock (timer.cpp:138), which it
  releases before it dereferences `*m_timers.begin()` under the write lock (timer.cpp:145).
  With a period of 2^31 ms (`Delays` {1, 2}, `IntLimit` 2, one thread) `ExpiredIsCollected`
  fails: the time left is negative as an int, `epoll_wait()` waits without a timeout and no
  thread wakes for the timer, which the comment at iomanager.cpp:325 rules out.
- `IOManager`: two threads and both events of one socket let the assertion in
  `triggerEvent()` fail on a stale report (iomanager.cpp:383); a fiber scheduled
  just before a thread counts itself idle is not announced and waits for
  MAX_TIMEOUT (iomanager.cpp:264); with two threads and `CanClose` a registration
  between `cancelAll()` and `close_f()` breaks `EpollInSync` (hook.cpp:382).
- `ContextTable`: with two threads `contextResize()` may shrink the vector and drop a
  context in which a fiber waits; `cancelEvent()` then no longer finds it
  (iomanager.cpp:105).
- `Socket`: with `Sharing` TRUE `NoForeignSocket` fails. `close()` resumes the fibers that
  wait on the descriptor and gives the number back; a resumed fiber only looks at its own
  timeout (the comments at hook.cpp:168 and 284 expect an event or a timeout) and uses the
  number again. If another socket has it by then, `connect()` reads that one's
  `SO_ERROR` and succeeds, and `do_io()` transfers on it. With `FionbioOff` TRUE
  `NoThreadBlocks` fails (hook.cpp:490). In the
  instance of the run itself a connecting fiber resumed by `cancelWrite()` returns
  success although the peer has not answered, as `SO_ERROR` is 0, and a timer that
  fires between `addConditionTimer()` and `addEvent()` leaves its call waiting without
  a timeout (hook.cpp:145).
- `Config`: without the restriction to changes made alone `ListenersAgree` fails: of
  two overlapping `setValue()` calls one may be the last to call the listeners and the
  other the last to store, so that the connect timeout in use is not the configured
  one; a listener that throws leaves the earlier ones with a value that is not stored
  (config.h:310). A listener that adds or removes a listener of its variable waits for
  the read lock of its own caller.
- `Log`: a definition without a name configures the root logger with no appenders and
  level UNKNOWN (log.cpp:684, 772), after which messages are lost. A logger that is no
  longer defined gets level 100, so that it logs nothing at all, while the comment at
  log.cpp:800 expects it to log through root; once it is defined without a formatter
  again it keeps the old one (log.cpp:775). An appender whose `setFormatter()` is given
  a pattern with an error keeps its own formatter and counts as having none
  (log.cpp:387), so that the next `Logger::setFormatter()` replaces it.
- `ByteArray`: `failed` is reachable by `setPosition()` to the end of a full buffer
  (bytearray.cpp:458), although bytearray.h:376 lets it throw above `m_capacity` only and
  does not exclude the capacity itself, and by reading an empty string there
  (bytearray.cpp:391). `getReadBuffers()` at a position cuts its length to
  `m_size - position` (bytearray.cpp:618), while bytearray.h:433 says to `getReadSize()`, as
  the line commented out at bytearray.cpp:613 did: from a position before `m_position` it
  returns more than that. `LooksAgree` speaks of lengths that neither of the two cuts.

Bounds. Two threads are enough for each race here: every one is between two
steps of one thread and one step of another. `MaxYields` 1 lets every body leave
its thread once and come back; `MaxStops` 2 gives a restart; `MaxQueue` bounds
only repeated scheduling of one fiber. Two timers give every order and the tie;
`MaxClock` reaches deadlines before and behind each other; `IntLimit` is beyond every
distance in both runs; in `timer_live` the clock
starts at 3 with `Hour` 1, so that both sides of the rollover test are reachable.
`MaxAdds` 2 lets a fiber wait, be woken and wait again on the same descriptor. In
`process` the first size of the vector is 2 instead of 32 and the descriptors are next
to it; three calls let one thread define a logger and remove it again while the other
logs through it, or two threads change a variable while a listener is added. In `sockets` two fibers give every pair of steps
that race for a descriptor, a slot or a context; three methods let a socket be made,
used and closed while another is made under the same number, and both descriptor
numbers can be exhausted. In `bytes` two items of up to three bytes cross block
boundaries and overwrite each other in part. The bounds appear in guards only; the theorems
hold for every value of them.

Fairness. `Scheduler`: weak fairness of each pool thread and of the steps of
`stop()`: they are running threads that the operating system schedules. Bodies
are part of the thread: a body that never returns or yields is not covered.
Nothing obliges a client to schedule or an event to happen. `Timer`: weak
fairness of time, of each thread (a sleeper has no step until its time is over
or the pipe is ready) and of the client that is about to tickle; MAX_TIMEOUT is not relied
on. `IOManager`: weak fairness of each thread's loop, including the return of
`epoll_wait()` after MAX_TIMEOUT, and of a fiber's return to its thread.

## 4. Proofs

TLAPS checks the following for every value of the constants that satisfies the
named assumptions (`ConstantsAssumption`, `TimerAssumption`, `IOManagerAssumption`,
`ContextTableAssumption`, `ByteArrayAssumption`, `ItemsAssumption`, `HookAssumption`,
`SocketAssumption`, `ConfigAssumption`, `LogAssumption`, `ProcessAssumption`; TLC
evaluates them in each run). They say that names are distinct, bounds are numbers, and a
pool has at least one thread (`SYLAR_ASSERT(threads > 0)`, scheduler.cpp:15). Two more are
about what clients do. `FitAssumption`: a number that is written has the width of its
type, and a string is no longer than its length field can say; C++ has the first by
typing and does not check the second. `LogsAssumption`: "logs", the one variable with
LogIniter's listener, is empty at first (log.cpp:759), and what it is set to defines the
root logger with an appender, has no definition without a name, and leaves the loggers
alone that the program configures by itself; without it messages are lost or loggers
differ from their definition (section 3, `Log`). Only `NothingIsLost` and
`ListenersAlwaysAgree` use it. What a theorem assumes beyond these is in its statement:

| assumption | theorems | without it |
|---|---|---|
| `~EarlySchedule` | `OneThread`, `AssertionsHold`, `IsATaskPool` | run `sched_shared_stack` |
| `UseCaller => MaxStops <= 1` | `AssertionsHold`, `IsATaskPool` | the root fiber is entered again (section 3) |
| `Pins \subseteq {AnyThread}` | `IsATaskPool` | a pinned task is left behind (section 3) |
| `OneWaiter`, `WholeReports` | `EventsAreRegistered` | run `io_hangup`, stale reports (section 3) |
| `CanClose => Alone` | `EpollStaysInSync` | a registration races `close()` (section 3) |
| `~Sharing` | all of `SocketProof` | a call uses a later socket (section 3) |
| `ShortDelays` (in the property) | `DeadlineIsAlwaysWatched` | a timer is overslept (section 3) |
| `~late` for registered events (in the property) | `NothingIsLeft` | run `io_stop` |
| `~FionbioOff` | `SocketsNeverBlock` | a hooked call blocks (section 3) |

Each of those about constants holds in the passing run that checks the property on more than one thread
or fiber.

`SchedulerProof`. `TypeCorrect`, `ActiveCountIsExact`, `IdleCountIsExact` follow
from `CountInv`. The counters are not inductive alone: a decrement stays in Nat
only because the thread that makes it is counted, and `start()` sets worker
places without looking at them, so `OwnerOK` is needed (no worker is left when
the pool is stopped and its owner is outside of `stop()`). `HandOK` says that
what a thread treats as a fiber is one. `OneThread` needs
`ExclInv`: queue entries are distinct, no queued task is in a hand or parked, no
two hands hold the same task, and a parked fiber in a thread's hand is on its way
out (`ParkedLeaving`). The last part is what an early wake-up breaks.
`AssertionsHold` adds `AbortInv`: a fiber is EXEC exactly where a body is executed, a
`cb_fiber` that is kept has finished or was reset, the root fiber is entered once.
`IsATaskPool` is the step simulation of `TaskPool`. `ServeInv` says where work is:
`FiberOK` ties the place of a fiber (the queue, a hand, a stack, an event source) to its
`m_state` and to the life of its item, `CbInv` gives a live function one fiber at most,
`AliveInv` says that a live item has a place, and `ExitInv` that the last thread leaves
an empty queue behind. `AloneInv`, at most one thread on an item, follows from these
and `ExclInv`. A step touches one fiber (`Touches`); the lemmas about such steps
leave only that fiber to look at (`WorksOnServe`), and its status follows from its state
(`StatusOfFiber`). As a by-product `DropFinished` is never taken without early scheduling.

`TimerProof`. `Inv` adds to `TypeOK`, `NoLostTimer` and `OneShot`'s strengthening
that a timer being added is not in the set yet and that only added timers have
a callback. A one-shot callback in some thread's hands has left the timer, so no
other thread can collect it and `cancel()` returns false. `DeadlineIsAlwaysWatched` rests
on `TickledInv`: if `m_tickled` is set while all threads sleep, the byte is in the pipe or
a client is about to write it. So an insertion that suppresses its tickle is not
overslept, and one that does not makes its own; a thread that goes to sleep has cleared
the flag and computed its sleep for the first deadline. `PeriodInv` bounds the distance
of a deadline by its period, so that with short periods the conversion to int changes
nothing (`ShortTimeout`).

`IOManagerProof`. `IInv` = types, `SlotInv` (a slot is filled iff its event is
registered), `PendingInv`, `ExecInv` (who runs what), `PlaceInv` (each fiber in
one place). All handlers end in `TriggerEvents`, so that one lemma,
`TriggerMoves`, covers cancellation, closing and reports. `NothingIsLeft` needs
`QuitInv`. `ThroughInv`: once every thread is past its reading of the pending count as 0,
no event is registered, as a thread that may still register is not past it, unless it is
late. `EndedInv`: a thread leaves only after its idle fiber has ended, and runs a fiber
after that only as a late one. `ServedInv`: a fiber that executes is on a thread, so the last
thread, late or not, leaves an empty queue. `EventsAreRegistered` needs `GuardInv`: a context names a fiber
that uses its event, epoll watches registered events only, and what one thread alone has
in hand is still registered.

`ContextTableProof`. fd * 1.5 exceeds fd for every fd >= 2, and a descriptor that
does not fit into the first vector is at least its size.

`SocketProof`. `SocketInv` is about ownership: every open descriptor has one owner, an
object or the one method that is about to store it (`OwnInv`, `ShareInv`), and a method
works on what its object owns (`WorkInv`). It is needed because numbers are given out
again: only the owner closes, so between two steps of a call its number cannot change
hands. `CtxInv`, `SlotInv` and `TimerInv` carry this over to what remembers a socket: the
context is that of the open socket, a slot holds the fiber that waits there, a timer is
that of the call in progress. Six of the seven properties of the run `sockets` follow.
`NoForeignSocket` is left to TLC: under `~Sharing` it adds little to `SocketInv`,
and without it does not hold.

`ConfigProof` and `ProcessProof`. `CopiesAgree`, the part of `ListenersAgree` about
copies, is not inductive: it says nothing while a call is on its way. `ConfigInv` adds
that a call that counts as alone is the only one of its variable (`AloneInv`) and that
its value has reached the copy or a copying listener is still in its list
(`PromiseInv`); the list is empty when it stores. `CallKeeps` and `EndKeeps` cover
every step of a call, `EnterKeeps` its beginning, `ListKeeps` changes of the listeners.
The loggers' part, `ListenersAlwaysAgree`, needs the same promise about a listener that
works in many steps. `Progress` states it for the operations it has left: of each logger
of the new value the level is set once more or is right and not set again, and the
appenders are taken away once more with those of the definition behind that, or the first
k are built and the others come next. Every operation keeps it (`ProgressGoesOn`), clients
keep it as they leave those loggers' levels and appenders as they are, and with
nothing left it says what the loggers are (`ProgressDone`). `ValuesInv` says that
listeners are only called with values of the kind `LogsAssumption` describes.
`NothingIsLost` rests on `LoggersInv`: each operation left is on a logger that exists by
then, each appender has a formatter, and if root has no appender some listener is still
to add one (`WorkOK`: root is refilled after each time it is emptied).
`HandshakeInv` ties the count of the semaphore to the places of `run()` and of the
constructor. `ProcessInRange` carries the invariant of `ContextTableProof` over to
`Process`, whose steps are steps of the table or leave it alone (`TableMoves`).

`ByteArrayProof`. `Shape` adds to `CurIsAligned` the types it needs: whole blocks,
each a function on the offsets. Every function moves by way of `Forward` and grows by
way of `Missing`; `ForwardAligned` shows that walking on from the block of a position
ends in the block of the new position, and `EnoughMissing` that the blocks added hold
what is asked for and that `m_cur` is the first of them if the list was full. Both
rest on a few facts about quotients (`DivShift`, `DivLess`, `DivEnd`). `ItemsAssumption`
says that what clients write has an encoding. `IsAFlatBuffer` is the step simulation of
`FlatBuffer`: byte i of the array is byte i % BaseSize of block i / BaseSize, a copy out of
the blocks is a slice of the array (`CopyIsSlice`), a copy into them changes that slice
(`PutIsWrite`), and new blocks change no byte of the data (`GrownBlocks`). A call that ends the program
maps to `SeekEnds` or `ReadEnds`: the missing node is the one behind a full list.
`LooksAlwaysAgree` uses the same lemmas. The rest is about recursive functions: the loop
of `writeToFile()`, powers, the value of a sequence of digits, the varint loop. The
library's induction takes an operator, which the provers cannot instantiate, so
`Induction` is stated for a set of numbers and proved from the existence of a least
element. With it `FileLoopUnfolds`, `PowerUnfolds`, `NumberUnfolds` and `VarintUnfolds`
show that the functions exist, by better and better approximations, and thus satisfy their
equations. `FileAlwaysHoldsTheRest` is an induction over the rounds of the loop,
`VarintIsExact` over the bytes that are left; with
`ZigzagIsExact` and `FixedIsExact` it gives `CodecIsAlwaysExact`. `WhatIsWrittenReadsBack`
needs `TapeHolds`: the encoding of every item that nothing has overwritten is in the array,
inside of the data; a write touches only its own bytes and takes the items it overlaps off
the tape.

Left to TLC: everything under fairness; `NoForeignSocket`; `NoDeadlock` (it speaks of enabled actions);
`ImplementsTaskPool` with pinned tasks, as in `sched_single`.

## 5. Plan

1. Theorems: `IsATaskPool` with tasks pinned to the only thread, as in `sched_single`.
2. `FdManager`: the growth of its vector under the read lock, and descriptors such
   as -1; the conversions of times in hook.cpp as arithmetic with their widths.
3. `FiberSemaphore` with its count over the scheduler; the cached addresses of
   `Socket`, which `close()` keeps and only `reconnect()` resets.

## 6. Not modelled

The formatting and the files of `Log`, the YAML parts of `Config` (among them the
set of characters of names, which lacks the q, config.h:374), `Address` formatting, name
resolution and masks, `util.*`, `singleton.h`: I/O, formatting and string processing
without protocol state. The static counter of `addListener()`, which variables of one
type share under different locks (config.h:318), and `Thread::SetName()` through
the pointer of a thread whose object is gone (thread.cpp:24) are not modelled. Memory management of stacks and contexts is modelled only where an
assertion is about it. pthread primitives and epoll are external and modelled by
their documented behaviour as the code uses them.
