# CMSIS C++: TLA+ models

CMSIS C++ wraps the C API of CMSIS-RTOS2 (RTX5) in classes that look like those
of the C++ standard library. The code keeps little state of its own. What is hard
about it is what it adds to the RTOS: a conversion of durations to ticks, a
condition variable made of semaphores and a list, thread handles, a queue that
owns what is in it, timers that call back, and answers of the RTOS that it turns into
results and exceptions. These modules model that code, TLC
checks them on small instances, and TLAPS proves what matters most for all
instances.

Paths below are relative to the repository (`src/Mutex.cpp`, `include/Mutex.h`).
Everything models a build with C++ exceptions; without them the code calls
`std::terminate` wherever it would throw. The RTOS is RTX5, modelled from how
the wrapper calls it; definitions that stand for it are marked external in
`PROJECT.json`.

## The system

| Component | State | Operations | What makes it correct |
|---|---|---|---|
| Condition variable (`ConditionVariable.*`) | list `m_wait` of pointers to semaphores on the stacks of the waiting calls, `m_mutex` | `wait`, `wait_for`, `wait_until`, `notify_one`, `notify_all` | no wakeup is lost; waiters wake in order; the lock is held on return; no list node or semaphore is used after its end |
| Duration conversion (a copy in `Mutex`, `Semaphore`, `MessageQueue`, `EventFlag`, `ThreadFlag`, `Timer`, `Thread`) | none | microseconds to ticks | exact, not much shorter than asked, long waits stay long |
| Thread handles (`Thread.*`) | `m_pThread` per handle; `m_id`, `m_detached` per `thread_impl` | construct, move, swap, `join`, `detach`, destroy; the routine returns or throws | a joined thread has ended; a handle acts on its own thread only; nobody waits for himself; control blocks come back |
| Message queue (`MessageQueue.*`) | an RTOS queue; the specialization for `unique_ptr` owns what is in it | `put`, `get`, both with a duration, `clear`, destroy, move | every object has one owner, none is lost |
| Timer (`Timer.*`) | RTOS timer, callback, period | `start`, `stop`, `running`, the handler, destroy | a stopped timer is silent; a callback that returns false stops it; the handler survives |
| Mutex (`Mutex.*`) | RTOS mutex | `lock`, `try_lock`, `try_lock_for`, `unlock` | what a caller was told is what it owns; `try_lock` reports a busy mutex |
| Semaphore (`Semaphore.*`) | RTOS semaphore | `release(n)`, `acquire`, `try_acquire`, `try_acquire_for` | no token made or lost; `release(n)` is as good as atomic |
| Event and thread flags (`EventFlag.*`, `ThreadFlag.*`, `WaitFlag.h`) | 31 bits | `set`, `clear`, `get`, `wait` for any or all, with or without clearing | a waiter returns with the flags it asked for, consumed once; each RTOS object has one handle |
| Memory pool (`Memory.*`) | RTOS pool; deleters that refer to the pool object | `allocate`, `deallocate`, `make_unique`, `make_shared`, move | no block used twice, none lost, each given back to its pool |
| Kernel, dispatch lock (`OS.*`), thread list (`Threads.*`) | kernel state; saved lock state in `dispatch` | `initialize`, `start`, `suspend`, `resume`, `lock`, `unlock`, enumeration | locks are balanced; the list is of one moment |
| Clocks (`Chrono.*`) | the tick count | `now` | a clock that says it is steady does not go back |
| `OSException.*` | none | error texts | (formatting) |
| RTX5 glue (`rtx_os.cpp`) | none | idle and error hooks | an error of the RTOS does not go unnoticed: its hook never returns |

Who calls whom. The condition variable uses `mutex` and makes one binary
semaphore per call of `wait_for_usec`. Every timed operation converts its
duration with its own copy of one expression. Operations with a deadline
(`_until`) subtract `Clock::now()`, a count of ticks, and call the form with a
duration. Timer callbacks run in the one timer thread of the RTOS; thread
routines in a thread each. `threads::enumerate` holds a `dispatch` lock.
Otherwise the classes do not know each other.

What is hard: between the steps of a call any other thread may run (the condition
variable between timeout and erase, `clear()` between test and get, the timer
handler between test, callback and stop); identifiers outlive what they name
(`m_id` after a join, entries of `m_wait`, queued expiries, moved pools); a call
fails after its first half (a `unique_ptr` released, a lock given up); numbers
overflow at the one duration the library itself passes,
`microseconds::max()`. `PROJECT.json` lists these hazards line by line.

## The modules

| Module | Models | State, and how it corresponds to the code |
|---|---|---|
| `StdConditionVariable` | what a condition variable promises (abstract) | owner of the mutex, FIFO queue of waiters, set of the notified ones |
| `ConditionVariable` | `ConditionVariable.cpp`, step by step | `m_wait` a sequence of threads (an entry is the thread on whose stack the semaphore is), `listOwner` is `m_mutex`, `sema` the tokens, `lockOwner` the caller's mutex, `pc` the place in `wait_for_usec` or a notification |
| `TickConversion`, `TickGrid` | the conversion expression, and the clock's inverse of it; a walk over all durations and frequencies of a width | pure operators over any width; `usec`, `freq` |
| `TimedWait` | how long `wait_for`, `wait_until`, `sleep_for`, `sleep_until` and the loop over a predicate stay blocked | microseconds, the tick count, the call under way, the ticks left |
| `Thread` | `Thread.cpp` | `handle` is `m_pThread`, `impl` the `m_id` and `m_detached`, `tcb` the control blocks of the RTOS, `run` what became of each routine |
| `MessageQueue` | `message_queue<std::unique_ptr<T>>` over `message_queue_impl` | `held` the caller's `unique_ptr`, `ptr` the released pointer of a put that waits, `queue` the pointers in the RTOS, `heap` the objects |
| `Timer` | `Timer.cpp` | `timer` the RTOS timers, `expiries` the queue of the timer thread, `at` and `handled` its place in `handler` |
| `Kernel` | `OS.cpp` (kernel, `dispatch`), `Threads.cpp`, and what the classes below share | `kernel` the state of the RTOS, `runner` the thread that has it to itself, `saved` the lock state in each `dispatch`, `held` the locks, the outermost first, `listing` the vector of each `enumerate`, `busy` who is inside a call |
| `Mutex` | the four classes of `Mutex.h` | `owner`, `count`, `asked` and `status` what the RTOS was asked and answered, `belief` how often a caller was told that it has the mutex |
| `Semaphore` | `Semaphore.*` | `tokens`, `taken` the answers, `update` the turns that are left of each `release(n)`, `balance` what callers put in less what they were told they took |
| `StdSemaphore` | what a counting semaphore promises (abstract) | the counter |
| `Flags` | `EventFlag.*`, `ThreadFlag.*`, `WaitFlag.h` | `id` is `m_id` of each event, `flags` what is set, `request` and `answer` the calls of `osEventFlagsWait` |
| `MemoryPool` | `Memory.*` | `poolId` is `m_id` of each pool object, `used` the blocks, `pointer` the smart pointers with the pool object their deleter refers to, `making` the calls of `make_unique` |
| `Objects` | a program of threads with dispatch locks and one other class | `plan` which class, threads and locks |
| `MC_*` | instances for TLC | |
| `ConditionVariableProofs`, `TickConversionProofs`, `ThreadProofs`, `MessageQueueProofs`, `TimerProofs`, `ObjectsProofs`, `SyncProofs`, `MemoryPoolProofs` | theorems | |

One action is one stretch of code that no other thread can observe half way. `m_wait`
is touched under `m_mutex` only, so a critical section is one step, except where it
releases a semaphore and a waiter may run before the section ends (`NotifyOne`,
`PopFront`; `NotifyAll`, `ReleaseNext`, `Clear`). `wait_for_usec` is `BeginWait`,
`Insert`, `UnlockToWait`, one of `AcquireToken`, `AcquireTimeout`, `AcquireThrows`,
then `Relock` and `Erase`. `handler` of the timer is `Handle`, `Call`,
`CallbackReturns` or `CallbackThrows`, `StopAfterFalse`; the ticks of a timer are
`Elapse` (all but the last) and `Expire`, or `Overflow` where the queue is full.
`clear()` of the queue is `Clear`, `TestEmpty` and `Pop` in a loop, and `Reset`.
`join` is `Join`, the end of the thread, and `JoinReturns`; `detach` is `Detach` and
`DetachReturns`: the call of the RTOS and the store to `m_detached` are two steps,
with others in between. A call of a mutex, semaphore or flags is two steps, what the
RTOS does (or later, for a thread that waits: the hand-over or the timeout) and what
the class makes of the answer, because any thread may run in between; `release(n)` is
a step a turn; `make_unique` is `Make` and, when the constructor has run, `Made` or
`MakeThrows`; `enumerate` is `Enumerate`, `ReadThreads` and `EnumerateReturns`.
Undefined behaviour and `std::terminate` stop a model: `program` then says why, and
only `Stopped` remains. Each module has a few mutated forms of its actions, which no
definition uses; they stand for plausible mistakes, and each property is known to fail
under one of them.

## The runs

| Run | Question | Result |
|---|---|---|
| `cv_timed` | every timeout, allocation failures, two notifiers: is a wakeup lost, a semaphore released twice, is the invariant of the proofs inductive in small? | holds |
| `cv_fair` | does the code implement the abstract condition variable, do waiters come back? | holds |
| `cv_race` | can `wait()` and `notify_one()` alone meet undefined behaviour? | they can (`NoStaleIterator` fails) |
| `time` | how early may a timed operation give up, and can wakeups make it late; is the conversion exact where nothing overflows; what is `microseconds::max()`? | less than two ticks and a microsecond early, less than one tick and a microsecond late; exact; 0 ticks at even frequencies |
| `ticks_long` | do durations beyond 32 bits of ticks wait forever, as the code tests for? | they do not (`LongWaitsForever` fails) |
| `thread` | handles over reused control blocks: own thread, no lost block, no self-join, join returns, and only after the end | holds |
| `thread_killed` | can a handle kill another handle's thread? | it can (`JoinableIsNotKilled` fails) |
| `queue` | puts, gets, timeouts and clears of three threads: one owner each, nothing lost unannounced | holds |
| `queue_clear` | does `clear()` avoid leaks, as its comment says? | it does not (`ResetFindsNothing` fails) |
| `timer` | expiries queued while timers are stopped, started and destroyed, until the queue overflows: who is called, and who not any more? | holds |
| `objects` | the other classes under a kernel that is locked and suspended: do their callers learn what the RTOS did, and is nothing lost on the way? | holds |
| `try_lock` | does `try_lock` return false for a mutex that another thread has? | it throws (`TryIsNoError` fails) |

### What the passing runs show

*Condition variable.* `NoStrandedWaiter`: a registered waiter without a token is
in the list, beyond what a notifier has released. `NotifyNeverTerminates`: no
semaphore is released twice, which would throw in a `noexcept` function.
`PendingEntriesAreLive`: without negative durations every entry a notification
will release belongs to a call that has not returned. `ImplementsStd`: as long
as the program runs its behaviours are those of `StdConditionVariable` (FIFO,
the lock held on return, `timeout` returned only by a waiter that no
notification was spent on). Its refinement mapping takes the entries past
`cursor` for the queue and the threads with a token, or with one just taken, for
the notified ones.

*Time.* The standard promises that a timed operation does not give up before its
time. The code truncates to whole ticks, the first tick may be about to come, and
`Clock::now()`, which a loop over a deadline reads again, drops the fraction of a
microsecond: `EarlyByTwoTicks` (and a microsecond) is what is left of the promise.
`DeadlineIsMet` is the other side: such a loop does not start its time anew at each
wakeup, nor does it spin past its deadline when less than a tick is left.

*Threads.* `JoinableIdIsOwn`, `NoOrphanBlock`: as long as a handle is joinable, and no
`join` or `detach` of it has come back from the RTOS (`GivenUp`), `m_id` refers to its
own thread or what is left of it, and a block whose thread has ended is kept only for
such a handle. Without the exception it is false: between `osThreadDetach` and
`m_detached.store(true)`, and likewise in `join`, the handle still says that it is
joinable, while the thread may have ended and its block have gone to another.
`JoinedHasEnded` and `JoinComesBack`: join returns after the end of its own routine,
and does return when a client called it, whatever the routines join: two routines may
wait for each other for ever, but nobody else can then wait for either of them.
`NobodyJoinsItself`: the comparison of control blocks in `join` refuses every
self-join, by whatever handle; that it refuses nothing else is `JoinableIdIsOwn`.

*Queue.* `OneOwner`: a live object is in one place, a deleted one in none.
`NothingElseIsLost`: an object is lost only where its put said so (full, timeout,
an exception), where it was put during a `clear()`, or in a queue that was
destroyed. In particular `clear()` loses no object whose put began earlier, not
even when that put was waiting for a place.

*Timers.* `NoCallbackAfterFalse`, `OneLateCallback`: queued expiries do not
outlive a stop, but for the one callback that the handler was about to make.
`TerminatedByARace`: the handler's own `stop()` throws only if somebody else's
stop, or an expiry, came in between. `PeriodicIsCalled`: a running periodic timer
gets its callback called, however the expiries of others are queued before its own,
unless it is restarted for ever before its last tick (`start()` restarts the ticks of
a timer that runs), or the program ends, or hangs because the queue of the timer
thread overflows: RTX5 then calls `osRtxErrorNotify` in the tick handler, and the one of
`src/rtx_os.cpp`, a weak definition that an application may replace, never returns.
Nothing in the code prevents that: it is reachable (`program = "hung"`), as is the
end by a callback that throws.

*Kernel and thread list.* `LockIsBalanced`: the kernel is locked exactly as long
as somebody holds a `dispatch` object, whatever was nested, suspended or refused
meanwhile; each object restores the state it saved, so this is about how the
saved states fit together. `ListIsASnapshot`: what `enumerate` reads in three steps
is of one moment, because of the lock it holds.

*Mutex.* `BeliefIsOwnership`: what `lock`, `try_lock`, the timed forms and
`unlock` have told a thread adds up to what the RTOS counts it as owner of. A timeout
that meets a hand-over, a poll, a call in a locked kernel (which may not wait), a
negative duration (refused before the RTOS is asked) and a recursive mutex at its limit
are the cases.

*Semaphore.* `TokensAreConserved`: no answer is misread, whether a token was taken or
not. `ReleaseThrowsOnlyOverbooked`, `ImplementsStdSemaphore`: as long as callers keep
`std::counting_semaphore`'s rules, `release(n)`, which is `n` releases with other
threads in between, throws for nobody, and is the atomic one of `StdSemaphore`; the
refinement mapping counts the turns that are left as released already.

*Flags.* `WaitsTellTheTruth`: a wait that reports its flags had what it asked
for, one that does not took none; and of the waits with a time those throw whose time is
negative (the test at the beginning of `wait_for_usec`), and no others, also where they
poll or the kernel is locked. `OneHandleEach`:
moves, swaps and assignments of events neither share nor lose an RTOS object, but for
the constructor that throws after it made one.

*Pool.* `UsedIsOwned`: the blocks in use are those of one smart pointer or of one call
of `make_unique` each, and belong to pools that exist. `DeleterFailsAfterAMove`: a
deleter, which refers to the pool object and not to its pool, ends the program
only where a pool object was moved under living pointers. The documentation asks
only that a pool is not deleted under them, which the model keeps to.

### What the violations show

* `cv_race`. A waiter that times out relocks the caller's mutex before it erases
  its entry; a notification in between drops the entry, and `erase(it)` is
  undefined. `wait()` is enough, because it is
  `wait_for(microseconds::max())`: the product with an even frequency below 10^6
  wraps to a negative value of less than one tick, which converts to 0 ticks
  (`UntimedWaitIsAPoll`), so that `wait()` times out at once. "Forever" is what the
  code intends; `UntimedTicks` lets a run choose.
* `ticks_long`. The test `timeout > numeric_limits<uint32_t>::max()` follows the
  cast to `uint32_t` and is never true.
* `thread_killed`. `~thread_impl` terminates `m_id` even when the thread was joined
  or detached. The control block may belong to another thread by then:
  `t.join(); t = thread(f);` is one way. A detached thread is killed by the
  destruction of its handle for the same reason.
* `queue_clear`. The loop of `clear()` and the reset are not one step.
* `try_lock`. `osMutexAcquire` with no ticks answers `osErrorResource` for a mutex
  that another thread has; the code takes `osErrorTimeout` alone for "busy"
  and throws. The classes call themselves an "STL like implementation"
  (`include/Mutex.h`, line 77), and the README offers them as `std::mutex`.

Known behaviour without a run of its own, since no document says otherwise: a
`clear()` that loses the race for the last message waits for the next one and
deletes it; a `get` that times out deletes what the caller's `unique_ptr` held;
on RTX5 the callback of a one-shot timer does not run unless the timer was
started again, because the timer is no longer running when `handler` tests it; an
overfull expiry queue hangs the program, and a callback that throws ends it (`program =
"hung"`, `"terminated"` in `Timer`); a wait on a condition variable with a negative
duration throws without its lock and leaves a dangling entry (`AcquireThrows`); the
constructor of an event leaks its event flags if its mask is refused (`leaked`); a
timer destroyed while its expiry is queued is used afterwards (`program =
"undefined"` in `Timer`).

### Bounds

* Condition variable: two waiters, one of which also notifies, and one more
  notifier; a heap of two list nodes, so that insertion fails when a dangling entry is
  left. Two waiters make the order and the relock race matter; a third thread
  makes a notifier that is not a waiter. The proofs have no bounds.
* `TimedWait`: a second of 10 microseconds and 7 ticks, so that a tick is not a
  whole number of microseconds and the fraction that the clock drops counts,
  durations up to seven ticks, 20 microseconds. No wrap of the clock or overflow of the conversion happens in
  this run: those are the business of the grid and of `ticks_long`.
* `TickConversion`: 9-bit durations, 4-bit ticks, all frequencies up to one tick
  per microsecond; both overflows occur. The proofs are for any width. The walk over
  this grid is part of the run `time` (`MC_TimedWait`), before its time begins.
* `Thread`: two clients, three handles, three blocks, three routines: a block is
  reused while another handle is alive, and two routines join each other while a
  client joins the third. `MaxRuns` bounds the routines. The proofs have no bounds.
* `MessageQueue`: three threads, one place, four objects: two threads wait while
  a third clears. Each object lives once, so `Objects` bounds the run. Threads and
  objects are interchangeable, and only invariants are checked, so that the
  symmetry is sound.
* `Timer`: one timer of each type and two queued expiries, so that the queue overflows;
  everything is unbounded in time.
* `Objects`: each behaviour has a plan (`MCPlans`): one class, its threads, its locks,
  and whether it suspends the kernel. The list has three threads and two dispatch objects,
  so that locks nest and a thread can end between two steps of `enumerate`; mutex,
  semaphore and pool have three threads and one dispatch object (an owner, and two
  that wait or time out); flags two threads with a lock, and events three without, so
  that two wait for the flags that a third sets. A mutex can be locked twice
  (`MaxCount`), a semaphore has two tokens (`MaxTokens`) and is released by -1, 1 and
  2; there are two events and one RTOS object for them (a second constructor fails),
  two flags; two pools of one block, two pool objects and two pointers. The
  classes do not know each other and share only the kernel, so one class at a time
  loses nothing.

### Fairness

* Condition variable: a thread inside a call goes on (weak), an owner of the
  caller's mutex releases it (weak), and a step that takes a mutex is strongly fair,
  because RTX hands a mutex to its waiters in order. Nobody has to start a wait
  or a notification.
* Threads: routines that are not in a join return, and a thread that was woken, or is
  in the middle of a `detach`, runs (weak). Without the first no join comes back.
* Timers: the timer thread is scheduled and callbacks return or throw (weak). Time
  passes: the ticks of a timer that goes on running do (weak, `Elapse`), and the last of
  them comes unless the timer is stopped or restarted first (weak), whatever the queue
  holds by then: `Expire` if it has a place, and else `Overflow`. Nothing is assumed about
  the queue, and a timer that is restarted again and again need not expire.
* `TimedWait` has no liveness: a thread that is ready runs before time goes on.
* `Objects` states no fairness. Its refinement is one of safety; that a waiter is served
  is the RTOS's promise, which the wrapper adds nothing to.

Deadlock is checked except where a program may really stop: `MessageQueue` (all
threads may wait for a message), `Thread` (routines may join each other, or
`std::terminate` ends the program) and `Objects` (all threads may have ended, or wait).

## What is proved

`ConditionVariableProofs`, for any number of waiters and notifiers, any timeouts and
any heap: `Inductive`, `TypeCorrect`, `NoWakeupIsLost`, `NotifyIsNoexcept`, and
`EntriesLive` (which assumes that no duration is negative). From: `ThreadsAssumption`,
`TimeoutAssumption`, `NodesAssumption`. `NoStrandedWaiter` is not inductive alone:
`Erase` and `PopFront` keep it only if no thread has two entries and the entry a
notifier drops has been given its token. `IndInv` adds that (`EntriesInv`), that
`m_mutex` is owned by the one notifier that is half way (`ListMutexInv`), which steps
of a wait, and which ends of it, hold the caller's lock (`LockInv`), and the types.
`NotifyNeverTerminates` then follows because an entry past `cursor` has no token yet.
The proof has a lemma per action; the actions that remove an entry rest on what
`RemoveAt` and `Tail` do to a sequence. `ImplementsTheStandard` is the refinement
`ImplementsStd`, action by action, for programs that give no negative duration (with
one, an entry of a dead semaphore stays in the list, and the mapped queue would name a
waiter that is gone). It rests on `NothingDangles` and on `IndInv`: `Insert` and
`ReleaseEntry` are the steps that the abstract specification calls the registration
and the notification, one waiter of a `notify_all` after the other, and what drops the
released entries is a stutter. `StaleIteratorMeansNotified` says that the undefined
`erase` of `cv_race` has no other cause than the one described there.

`TimerProofs`, for any timers, types and queue length: `Inductive`, `TypeCorrect`,
`FalseStopsTheTimer`, `StopIsAlmostImmediate`, `TerminationNeedsARace`. The
invariant adds that a running timer has been stopped by nobody and owes no
callback (`HistoryInv`), and that the handler never works on a timer that was not
started or that it has stopped itself (`HandlerInv`); `handler` enters its
callback only from a timer that runs, which is what keeps the count at one.

`MessageQueueProofs`, for any threads, objects and capacity (`ConstantsAssumption`):
`Inductive`, `TypeCorrect`, `EveryObjectHasOneOwner`, `OnlyExcusedObjectsAreLost`.
`OneOwner` becomes `Separate` (every two places hold different objects) with
`PointersLive`. What a reset forgets is excused because a put waits only while the
queue is full, so that a thread that found it empty found no put waiting either,
and what came later came during its `clear()` (`ResetInv`). `TakeQueue` says what a
get does to the queue and to the puts that wait, whichever of them gets the place;
`SetToSeqsOnto` that the reset serves each put it chooses once.
`ResetFindsLatePutsOnly` is the counterpart to the run `queue_clear`: the messages that a
reset finds after all, in the queue or in a put that waits, came during a `clear()`, its
own or that of another thread.

`TickConversionProofs`, for any width (`WidthAssumption`): `ConversionIsExact` and
`UntimedWaitIsAPoll`, over every duration and frequency of the width, and
`LongWaitsAreCutShort`, which says to what the durations of `ticks_long` convert instead of
to forever. And of `TimedWait`,
for any frequency, durations and length (`TimeAssumption`): `SpecTimedTypeOK`, and, where
durations fit and the tick count does not wrap (`DurationsFit`, `CountFits`, which are
hypotheses of the theorems and are checked of the run's instance),
`SpecEarlyByTwoTicks` and `SpecDeadlineIsMet`. Neither bound is inductive: `TimeInv` adds
that the count is that of the time (`CountIsTicks`), that a deadline was fixed when its
call began (`DeadlineIsFixed`), and between which bounds the ticks that are left will end
(`EndsNotTooEarly`, `EndsNotTooLate`). A call blocked at first and one blocked anew
are one case (`BlockedInTime`): what the clock says is left of the duration.

`ThreadProofs`, for any clients, handles, control blocks and number of routines
(`ConstantsAssumption`): `Inductive`, `TypeCorrect`, `AJoinableHandleKeepsItsThread`,
`NoBlockIsLost`, `AJoinWaitsForItsOwn`, `NoThreadWaitsForItself`. `JoinableIdIsOwn` is
not inductive: a block given back by one step could be that of another joinable
handle. It excepts the handles of a `join` or `detach` that is past its call of the
RTOS, as the run does; `DetachedIsLoose` says of such a `detach` that the thread it
detached has a block that comes back by itself. `IndInv` adds that no two handles have
the same `thread_impl` (`HandlesDiffer`), that a block and the routine it runs know
each other (`BlocksFit`, `RunsFit`), that a block which can be joined has a joinable
handle (`JoinablesHaveHandles`), that a thread joins alone (`JoinsFit`), and that no
block names a routine whose join has returned (`JoinedIsGone`). `EndsInv` is the
heart: the end of a thread, by return or by a stale destructor, with the wakeup it
causes. `OnlyStaleHandlesKill`, an action property, says that the way of
`thread_killed` is the only one: the thread of a joinable handle is killed only by the
destruction of a handle that was joined or detached, has no running thread of its own,
and names the control block that this thread has now.

`ObjectsProofs`, `SyncProofs` and `MemoryPoolProofs` are about `Objects`, for any plans,
threads, limits and sizes (`KernelAssumption`, `MutexAssumption`,
`SemaphoreAssumption`, `FlagsAssumption`, `PoolAssumption`, `PlansAssumption`). A step
of one class leaves the variables of the others alone, so that each class has an
invariant of its own, over `TypeInv`, which adds to the types that a mutex has an
owner just while its count is positive, and that a call in flight has its object.

* `SpecTypeOK`, `SpecLockIsBalanced`, `SpecListIsASnapshot`. `KernelInv` adds `LocksNest`
  (the outermost lock has saved "unlocked", those inside it "locked", no object is held
  twice) and `ListingsAreLocked` (the threads whose stacks hold a lock are those inside
  `enumerate`; the kernel is theirs, so that nothing starts or ends).
* `SpecBeliefIsOwnership`, `SpecTokensAreConserved`, `SpecWaitsTellTheTruth`,
  `SpecOneHandleEach`. What is added says who may be in which call (`MutexCalls`,
  `SemaphoreCalls`), which answers the RTOS gives to which question (`AnswersFit`: an
  answer without flags has taken none, only a call without ticks is refused by the RTOS,
and only one with a negative time before), and
  that no handle refers to the event flags a constructor left behind
  (`LeaksHaveNoHandle`).
* `SpecTryLockNeverSaysFalse`, `SpecTryLockForThrowsAtTheLimit`, which delimit the finding of
  the run `try_lock`: `try_lock` has no answer but true and the exception, and
  `try_lock_for`, with a duration that is not negative, throws only at the recursion limit,
not for a mutex in other hands.
  `RefusalsInv` says which answers the RTOS gives to a poll and to a wait, and that the
  owner and the count stay as they are while an owner is being refused.
* `SpecReleaseThrowsOnlyOverbooked`, `SpecImplementsStdSemaphore`. The counter of the
  abstract semaphore is the tokens and all turns that are left, a sum over the threads.
  `CountsFit` adds that, while the rules are kept, this sum is within the limit and no
  thread has a negative number of turns, so that a turn never finds the semaphore full.
  The sum is a fold of the community modules. No induction theorem with an operator
  as its parameter is used for it: `SubsetInduction` is stated for a set of subsets of a
  finite set and proved from the well-foundedness of `<` (`NatSets`), and
  `SumFunctionUpdated` and `SumFunctionBounded` are all that the refinement knows of sums.
* `SpecUsedIsOwned`, `SpecDeleterFailsAfterAMove`. `PoolInv` adds `PoolsFit` (no pool has
  two pool objects), `MakingFits` (a call has a block of the pool it was made for) and
  `PointersFit` (the pool object of a deleter has the pool of its block, until a pool is
  moved under living pointers).

No theorem uses a bound of a run. Only model-checked are the liveness properties
`NotifiedWaiterReturns`, `TimedWaitReturns`, `JoinComesBack` and `PeriodicIsCalled`, which
are beyond this prover. What the violation runs show are counterexamples, which TLC gives.

## What is not modelled

* Suspension, priorities, names and stack sizes of threads: single calls of the RTOS,
  which the wrapper passes on. The moment at which `m_id` is assigned while the new
  thread may run already: its routine has no way to the handle yet. What becomes of
  a handle whose joiner is killed between the return of `osThreadJoin`, or of
  `osThreadDetach`, and the store to `m_detached`: the model stops there (`program =
  "severed"`).
* Moves and swaps of message queues, and message priorities. The templates for
  plain data and plain pointers copy what they are given.
* `allocate` and `deallocate` of a pool by hand, which leave ownership to the caller;
  the destructor that a deleter runs on an object whose constructor threw.
* `kernel::set_idle_handler`: it replaces the function that the idle thread may be in
  the middle of, and says nothing about when it may be called; `version`, tick
  and timer frequencies, `get()` of flags, which read one value each.
* Interrupt handlers as callers, and RTOS errors that need an invalid handle.
* Timer callbacks that never return, which the fairness of the timer thread excludes.
* The default maximum of `counting_semaphore<>`, which is beyond the tokens that RTX5 can
  count: `MaxTokens` is a limit that the RTOS accepts.
* `OSException.*` (texts), the idle hook of `rtx_os.cpp`, `_getpid`, `_gettimeofday` and
  `time_t` conversions: no state.

## Plan

1. Done: `StdConditionVariable`, `ConditionVariable`, `TickConversion`, `TimedWait`,
   `MessageQueue`, `Timer`, with proofs; then `Kernel`, `Mutex`, `Semaphore` against
   `StdSemaphore`, `Flags`, `MemoryPool` and their composition `Objects`, with proofs;
   `Thread` with routines as callers and its proofs.
2. `MessageQueue`: moves and swaps of the handle, whose destructor then throws.
   `Kernel`: the idle handler, once a document says when it may be replaced.
3. Proofs: done for every invariant and refinement that a run checks. Left is what
   further components bring.
