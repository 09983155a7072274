# TLA+ models of Pthreads4w

Pthreads4w implements POSIX threads on Win32: threads, events, kernel
semaphores and interlocked operations are given, everything else in the API is
built from them. The code is short and almost all of it is concurrent; what can
go wrong in it goes wrong between two interlocked operations of two threads.
This directory holds TLA+ modules translated from that code, the TLC
configurations that check them and TLAPS proofs about them. `PROJECT.json` ties
every definition to the lines it stands for, every property to a fault of the
code that it detects (the definitions marked "Fault" in the modules), and every
hazard to the properties that cover it.

Contents: 1 the system; 2 what is modelled and how it corresponds to the code;
3 the runs; 4 the proofs; 5 findings; 6 what is not modelled; 7 the plan.

## 1. The system

### Components

| Component | State it keeps | Operations | Uses |
|---|---|---|---|
| MCS lock (`ptw32_MCS_lock.c`) | lock word = tail of a queue of nodes; per node `next`, `readyFlag`, `nextFlag` | acquire, try_acquire, release, node_transfer; the flag routines set and wait | interlocked operations, an event per wait |
| Mutex (`pthread_mutex_*.c`, `ptw32_mutex_check_need_init.c`) | `lock_idx` (0 free, 1 locked, -1 locked and perhaps awaited), auto-reset `event`, `ownerThread`, `recursive_count`, `kind` | init, destroy, lock, timedlock, trylock, unlock, initialisation on first use | MCS lock `ptw32_mutex_test_init_lock` |
| Robust mutex (the same files, `pthread_mutex_consistent.c`, `pthread_win32_attach_detach_np.c`) | also `stateInconsistent` and the owner's list `robustMxList` | also consistent, inherit, add and remove; the termination of the owner | the thread's `robustMxListLock` |
| Semaphore (`sem_*.c`) | `value`, and a Win32 semaphore for those that wait | init, destroy, wait, timedwait, trywait, post, post_multiple, getvalue | MCS lock `s->lock`, cancellation |
| Condition variable (`pthread_cond_*.c`) | `nWaitersBlocked`, `nWaitersGone`, `nWaitersToUnblock`; the list of them all | init, destroy, wait, timedwait, signal, broadcast, initialisation on first use, the walk of `pthread_timechange_handler_np` | two semaphores (`semBlockLock`, `semBlockQueue`), a mutex (`mtxUnblockLock`), the caller's mutex, `ptw32_cond_list_lock` |
| Read-write lock (`pthread_rwlock_*.c`) | `nSharedAccessCount`, `nExclusiveAccessCount`, `nCompletedSharedAccessCount` | rdlock, wrlock, timed and try variants, unlock, destroy, initialisation on first use | two mutexes, a condition variable |
| Barrier (`pthread_barrier_*.c`) | `nCurrentBarrierHeight`, `nInitialBarrierHeight` | init, wait, destroy | a semaphore, an MCS lock handed on with node_transfer |
| Spin lock (`pthread_spin_*.c`) | `interlock`, or a mutex where there is one processor | init, destroy, lock, trylock, unlock, initialisation on first use | interlocked operations, a mutex |
| pthread_once | `done` | once | an MCS lock held across the routine |
| Thread lifecycle (`create.c`, `ptw32_threadStart.c`, `ptw32_reuse.c`, ...) | thread structure, its `state` and `detachState`; the list of structures for reuse | create, exit, join, tryjoin, timedjoin, detach, self | `stateLock`, `ptw32_thread_reuse_lock` |
| Cancellation (`pthread_cancel.c`, ...) | `cancelState`, `cancelType`, `cancelEvent`, `state` | cancel, testcancel, setcancelstate, setcanceltype, cancelable waits, delay, kill | `stateLock`, SuspendThread |
| Thread-specific data (`pthread_key_*.c`, `ptw32_tkAssoc*.c`, ...) | associations, each on a chain of its key and one of its thread | key_create, key_delete, setspecific, getspecific, destructors at exit | `key->keyLock`, `threadLock` in opposite orders |
| Cleanup handlers (`cleanup.c`) | a chain of handlers on the stack of the thread | push, pop, the end of the thread | `ptw32_cleanupKey` |
| Scheduling (`pthread_setschedparam.c`, `pthread_setaffinity.c`, ...) | `sched_priority` and `cpuset`, beside what is in force in Windows | set and get, inheritance at creation | `threadLock`, `ptw32_thread_reuse_lock` |
| Names (`pthread_setname_np.c`, ...) | `tp->name`, `attr->thrname` | set and get | `threadLock` |
| Attribute objects (`pthread_*attr_*.c`) | one record each | init, destroy, a setter and a getter for each field | |
| Time (`ptw32_relmillisecs.c`, `ptw32_timespec.c`) | none | conversions between FILETIME, timespec and milliseconds | |
| Process (`ptw32_processInitialize.c`, `ptw32_processTerminate.c`, `pthread_win32_attach_detach_np.c`, `dll.c`) | the keys of the library, QUSEREX.DLL, all thread structures | attach and detach of process and threads | the list for reuse |

Signals, named semaphores, and the reads of a thread's number or Win32 handle
keep no state that matters elsewhere; section 6 gives the reason for each.

### How they interact

Calls go downwards only: condition variables call semaphores and mutexes, those
call the MCS lock, the MCS lock calls Win32. There are three exceptions, and
they are where most of the difficulty lies. Cancellation enters a wait from
outside, and the clean-up handler of the wait then runs the counter's protocol
a second time (`sem_wait.c`, `pthread_cond_wait.c`). The termination of a thread
goes through the mutexes that it holds (`pthread_win32_attach_detach_np.c`). A
destructor of thread-specific data may call back into the key functions.

### What is hard, and what makes each component correct

* **MCS lock.** A node is a local variable of its thread: it is gone when the
  routine returns. Mutual exclusion, FIFO order, no access to a node whose owner
  has left, no SetEvent on a closed handle, no leaked handle, no thread left
  behind (a releaser must wait for a successor that has exchanged the lock word
  but not linked itself yet).
* **Mutex.** A newcomer overwrites the -1 that says somebody waits; this is safe
  only because it puts it back before it sleeps. Mutual exclusion also across
  the initialisation on first use; an owner record that can be trusted; nobody
  asleep beside a free mutex.
* **Robust mutex.** The owner can die between any two steps. A death is noticed
  by somebody who waits, is reported to the next holder, and a mutex that was
  given up as unrecoverable is refused to all.
* **Semaphore.** Two counters, `value` and the count of the kernel object, are
  changed at different times by different threads. They must agree on who waits,
  also when a wait times out just as it is posted.
* **Condition variable.** `semBlockLock` is a lock that one thread closes and
  another opens. The three counters must count the waiting threads, the gate
  must not be opened twice or left closed, and a broadcast must reach those that
  wait and let nobody overtake them.

* **Read-write lock.** Readers count themselves in under one mutex and out under
  another, so that nobody knows how many there are but a writer that holds both.
  A writer turns the count of those that have left into minus the number of those
  still to come, waits, and must turn it back when it gives up. Readers and a
  writer exclude each other, the three counts always give the readers that are
  there, through INT_MAX too, and a waiting writer is neither forgotten nor
  overtaken.
* **Barrier.** The last thread to arrive lets the others go and the last one to
  leave releases the lock that the former has moved to the barrier's own node.
  Rounds must not mix, one thread of each is the serial one, and the barrier must
  not be destroyed under a thread on its way out.
* **First use.** Mutexes, read-write locks, condition variables and spin locks
  may be initialised by whoever comes first: the second must look again under the
  lock. A cancelled routine of pthread_once is run again by another thread.
* **Thread lifecycle.** A structure outlives its thread and is used for another:
  a handle must name its own thread or none, and so must the key under which a
  thread finds its own structure. Who destroys the structure, the
  thread that ends or the one that joins or detaches it, is decided by two fields
  that both sides read and write.
* **Cancellation.** The target is tested while it runs, suspended a moment later
  in the middle of anything, and sent elsewhere; or it is told by an event, which it
  must not miss between a test of its state and a wait. A request is acted upon once,
  by the thread named, and no thread is stopped with its own `stateLock` locked.
* **Thread-specific data.** The ending thread reaches an association from its own
  chain, everybody else from that of the key: it has to give way and look again,
  while the association it was to look at next may go. No value without its
  destructor, no destructor after the key is gone, and the end of the thread and
  the deletion of the key both come to an end.
* **Cleanup handlers.** A handler may exit the thread or push others while it is
  run. Each is run, innermost first, and none twice to its end; at the end of a
  thread that the library did not make none is run, whatever the comments say.
* **Scheduling, names.** What is recorded and what is in force are changed
  separately; Windows has no call that reads an affinity, so it is read by
  changing it. A name is freed by whoever replaces it, while others read it.
* **Time.** Truncation, widths and INFINITE: a wait must not become shorter than
  what is left by a millisecond or more, nor endless.
* **Process.** The structure of a thread is reached from its thread-specific data,
  from the list for reuse and from a joining thread, and freed once.

`PROJECT.json` lists the hazards at their lines, with the properties that cover
them.

## 2. The modules

| Module | Models | Proofs |
|---|---|---|
| `FifoLock` | what an MCS lock promises (abstract) | |
| `MCSLock` | `ptw32_MCS_lock.c`, shown to implement `FifoLock` | `MCSLockProofs`; with failing events `LocksProofs` |
| `OwnedLock` | what a mutex promises, robust or not (abstract) | |
| `Mutex` | non-robust mutexes of the three kinds, shown to implement `OwnedLock` | `MutexProofs` |
| `RobustMutex` | robust mutexes and the death of their owner, likewise | `LocksProofs` |
| `CountingSemaphore` | what a semaphore promises (abstract) | |
| `Semaphore` | semaphores, shown to implement `CountingSemaphore` | `SyncObjectsProofs` |
| `WaitSet` | what a condition variable promises (abstract) | |
| `CondVar` | condition variables, shown to implement `WaitSet` | `CondVarProofs` |
| `CondList` | the list of all condition variables, and their first use | `SyncObjectsProofs` |
| `SharedLock` | what a read-write lock promises (abstract) | |
| `RWLock` | read-write locks, shown to implement `SharedLock` | `RWLockProofs` |
| `Barrier`, `SpinLock`, `Once` | barriers, spin locks, pthread_once | `SyncObjectsProofs` |
| `ThreadStruct`, `Thread`, `Cancellation` | thread structures; the life of threads; cancellation, pthread_kill | `CancellationProofs` |
| `ThreadData` | thread-specific data | `DataProofs` |
| `Cleanup` | cleanup handlers | `DataProofs` |
| `Scheduling`, `Names` | priority and affinity; names of threads | `DataProofs` |
| `Attributes` | attribute objects and what is made from them | `DataProofs` |
| `TimeConversion` | the arithmetic of time | `DataProofs` |
| `Process` | attach and detach of process and threads | `DataProofs` |

The modules whose names begin with `MC` give the others their model values
(`MCSLock` excepted). Components that share no state, as they are modelled, are
checked by one run, each behaviour being that of one of them: `MCLocks` has the
queue lock, the queue lock with failing events, and robust mutexes; `MCMutex`
mutexes and robust ones; `MCSyncObjects` semaphores, the liveness of the queue
lock, barriers, spin locks, pthread_once and the list of condition variables;
`MCData` what belongs to a thread or to the process. The first variable there
(`scene`, `object`, `part`) says which it is, and the specification is the
conjunction of theirs, with their fairness.

**Common conventions.** `pc[t]` is where thread t is; "idle" is outside the
routines of the module. An action is what a thread does between two operations
that other threads can see: one interlocked operation or kernel call in
`MCSLock`, `Mutex` and `RobustMutex`, one critical section in `Semaphore` and
`CondVar`. Reads and writes of fields that only the holder of a lock touches are
joined to the step next to them. A variable marked "history" is not in the code;
it records what a property speaks of (who holds the mutex, which permits are
due). Calls that fail at once and change nothing (EINVAL, EPERM, EBUSY) are
steps only where they are the end of a longer path.

### The abstract specifications

Each says in a few actions what a component does for its callers, and nothing of
how; the module of the component instantiates it with expressions over its own
variables, and `FifoSpec`, `OwnedSpec`, `TakeoverSpec`, `PermitSpec`,
`WaitersSpec` and `SharedSpec` are the properties that its behaviours are
behaviours of the abstract one.

| Abstract | State | Steps | Mapping |
|---|---|---|---|
| `FifoLock` | the queue, who has been let in | Arrive, Grant, Depart, Move | the history `queue`; who holds |
| `OwnedLock` | `depth` of each thread's lock, `health` of what it protects | Take, TakeOver, Again, Answer, GiveBack, Die, Destroy, Create | `held`; `stateInconsistent` |
| `CountingSemaphore` | `permits` | Take, Give, Destroy, Create | the history `due` |
| `WaitSet` | who waits, how many of them have been signalled | Join, Signal, Leave, Destroy, Create | the places inside a wait; `nWaitersToUnblock` |
| `SharedLock` | readers, writers, the writer that has a claim | Read, Claim, Withdraw, Write, Leave, Destroy, Create | `hold`; who waits for the readers |

`OwnedLock` serves both kinds of mutex: of one that is not robust nobody dies, and
`health` stays "consistent". `SharedLock` has the order of the calls in it too: no
Read and no Write of another thread while there is a claim, and no claim without
a reader to wait for.

### MCSLock

`lock`, `next` and `flag` are the lock word and the fields of the nodes; `ev`
are the events made in `ptw32_mcs_flag_wait`. A thread has one node, named
after it; `Proxy` is the node in `pthread_barrier_t_` that node_transfer moves
the lock to. `Swap`, `Link`, `Notify`, `AwaitReady` are the steps of acquire;
`Try` is try_acquire; `Release`, `Free`, `AwaitNext`, `Reload`, `Pass` those of
release; `Transfer`, `Spin`, `AwaitLink`, `Copy` those of node_transfer;
`FlagSet`, `Signal` and `FlagWait`, `CreateEvent`, `StoreEvent`, `Wake` the flag
routines. `EventExhaustion` decides whether CreateEvent may fail, in which case
the code goes on without waiting (lines 148-162). The `Keepers` are the threads
that only release a transferred lock: they play the last thread to leave a
barrier.

### Mutex

One mutex of any kind from its static initialiser to its destruction and its
next initialisation. `ExchangeOne`, `CompareExchange`, `Swap`, `Wake`, `TimeOut`
and `Own` are the steps of the locking calls, `Disown`, `Release` and `Signal`
those of unlock, `CheckNeedInit` the initialisation on first use,
`Destroy`/`Free` and `DestroyStatic` the two halves of destroy. The event is
auto-reset. The lock `ptw32_mutex_test_init_lock` excludes as `MCSLock` shows,
so its sections are single steps. Rules for the callers: a normal mutex is not
locked by its holder (that thread would wait for itself, as POSIX says), and an
allocated mutex is destroyed or re-initialised only when no other thread holds
it or is in a call on it (section 5 says why it must be that strict).

### RobustMutex

The robust branches of the same routines. `state` is `stateInconsistent`, with
"ownerDead" for the -1 that a terminating thread exchanges in; `lists` says who
has the mutex on its `robustMxList`. `Terminate`, `Mark` and `WakeOne` are the
part of `pthread_win32_thread_detach_np` that goes through that list; `Inherit`
is `ptw32_robust_mutex_inherit`; `Woken` and `Final` are the tests that lock
makes after its wait; `PassOn` is the unlock by a thread that finds the mutex
lost; `Add` and `Remove` update owner and list; `Create` starts a thread in the
place of a dead one. Which locking calls are made is a parameter (`Ops`,
`TimedKinds`), since timedlock of a normal robust mutex is a finding.

### Semaphore

`value` is `s->value`, `tokens` the count of the Win32 semaphore, which post
releases only for threads that wait. A critical section of `s->lock` is one step
(`MCSLock`). A wait lowers `value` (`Wait`), waits for a token (`Wake`), or
times out or is cancelled (`TimeOut`, `Cancel`) and then runs the clean-up
(`Cleanup`), which takes a token that came late or raises `value` again.
The clean-up of sem_wait, which is not that of sem_timedwait, passes over a
`value` of 0: that is the code, and a finding; `Cancels` says which waits are
cancelled. A semaphore is destroyed when
`value` is not negative and no thread is still in a call.

### CondVar

The counters, the gate (`gateValue` and `gateTokens`: `semBlockLock`, as
`Semaphore` has it, since cancellation can reach it) and `queue`, the permits of
`semBlockQueue` (a `CountingSemaphore`). `Wait`, `Announce`, `Release`, `Take`
or `GiveUp`, `Retract` or `Retire`, `Rebase`, `Open`, `Relock` are the stages of
a wait; `Signal`, `Close`, `Post` a signal or broadcast that finds the gate
open, `SignalMore` one that finds it closed already; `Destroy` and `DestroyEnd`
the destruction. A section of `mtxUnblockLock` is one step (`Mutex`) unless the
thread waits for the gate inside it: then `unblocker` is the thread. The caller's
mutex is `external`. Cancellation at the gate is a variant, `CancelSpec`, since
it breaks the gate (section 5); in `Spec` a cancelled wait is a wait given up at
the queue, which runs the same clean-up as a time-out. Rules for the callers:
waits are called with the mutex locked; destruction is called with it locked and
while nobody signals.

### CondList

The links `head`, `tail`, `next`, `prev`, and `ptw32_cond_list_lock`. `Create`
and `CreateFails` are pthread_cond_init, `Use` and `NeedInit` the first use of a
static variable, which creates it under `ptw32_cond_test_init_lock`;
`DestroyBegin`, `DestroyEnd`, `Remove` the destruction, which waits for the gate
of the variable with the lock of the list held; `WalkBegin`, `Walk`, `WalkEnd`
`pthread_timechange_handler_np`. `Close` and `Open` stand for the users of the
variable, who close its gate and open it again (`CondVar`, `GateReopens`).

### RWLock

The three counts, the owners of the two mutexes, and the set of threads that the
condition variable has woken. A reader holds neither mutex while it reads;
`Enter`, `RdLock`, `CountIn`, `Rebase` are the steps of rdlock, `TimedRdLock` and
`SharedTimesOut`, `TryRdLock` those of its variants; `WrLock`, `WriterWaits`,
`WriterWakes`, `WriterEnters` those of wrlock, `WriterGivesUp` and `CancelWrWait`
the end of a wait that times out or is cancelled; `CountOut`, `LeaveShared` and
`LeaveExclusive` are unlock. `IntMax` is INT_MAX. Whether a reader may time out
while it waits to rebase the counts is a constant, `RebaseMayTimeOut`, FALSE in
the run (section 5).

### Barrier, SpinLock, Once

`Barrier`: `Arrive`, `Breach` (the last to arrive), `Pass`, `CountOut`, `Leave`,
`Return`; `lock` is the owner of `b->lock`, which may be `Proxy`. `DestroyEarly`
says whether the application destroys the barrier while some are on their way
out: it is FALSE in the run (section 5).
`SpinLock`: `interlock` holds "unlocked", "locked" or "use_mutex". `Once`: `done`
is read without the lock and again with it; `Cancelled` is the clean-up handler.

### ThreadStruct, Thread, Cancellation

`ThreadStruct` has the structures and the list of those that are free; a handle
is a structure with the value that its counter had. `Thread` extends it with the
life of threads: `Create` to `CreateFails`, `Start`, `Exit`, `Throw`, `Unwind`,
`ThreadDetach`, `Leave` follow a thread from pthread_create to the end of
`pthread_win32_thread_detach_np`; `Self` is the implicit handle of a Win32
thread; `Join`, `JoinEnds`, `JoinTimesOut`, `Detach`, `Destroy` are what others
do with a handle. `Cancellation` extends that with pthread_cancel in its three
ways (`CancelSelf`; `CancelTestAsync` and `CancelAsync`; `CancelTest` and
`CancelSet`), the cancellation points, and the setters. `stateLock` is a lock that
is held over steps; the thread that ends reads and writes its state without it, and
so does the model. An asynchronous cancellation is two steps, the test under the
lock, and the suspension with what follows it: between them the target runs on.
`AwaitsOwnLock` names the places where it may by then stand in the queue for the
lock that its canceller holds; redirected there, it leaves its node in the queue,
and is given the lock without ever releasing it. `SelfFails` is a failing
pthread_self, by which a thread may be left with a structure that is on the free
list. `Calls` says which functions each thread calls. Four things that the library
does not survive are excluded in the run `threads` by constants:
`DetachMeetsExit`, `CancelMeetsStart`, `AsyncMeetsCall` and `AffinityFails`
(section 5). With `AsyncMeetsCall` FALSE a thread that has been found to be
asynchronously cancelable, and not suspended yet, may still go on in its own code, return
or call pthread_exit, and come as far as its clean-up handlers; it makes no other call
and does not come to `pthread_win32_thread_detach_np`.

### ThreadData, Cleanup

`ThreadData`: `keys[t]` and `threads[k]` are the two chains that every
association is on. `SetCall` to `SetValue` are pthread_setspecific, `DeleteCall`
to `DeleteDrains` pthread_key_delete, `Exit`, `Round`, `NextAssoc`, `TryFails`,
`TrySucceeds`, `Unlock`, `DestructorReturns` the rounds of destructors; a
destructor may call the key functions. `Cleanup`: `cleanupKey` and `prev` are the
chain; `calls` is what is being executed, handlers and `ptw32_throw`, so that a
handler may push, pop or exit within another. `posix` says whether pthread_create
has made the thread: `Exit` of one that it has not made is its end, with no handler
run (`pthread_exit.c:83-103`, `ptw32_throw.c:92-129`), and only the others come to
`PopAll`.

### Scheduling, Names, Attributes, TimeConversion, Process

`Scheduling`: `priority` and `mask` are in force in Windows, `sched_priority` and
`cpuset` recorded. `SelfWiden` and `SelfRestore`, and `GetAffinity` with
`AdoptAffinity`, are the two calls by which an affinity is read. `self[t]` is the
thread whose structure is under the key of t: t itself, but for a thread whose
pthread_self has failed in those calls (`AffinityFails`, FALSE in the run), which is
left with a structure that is wiped and free, and after `New` with that of another. The
application
may change either behind the library's back; what is recorded need not hold then
(`known`, `raced`). `Names`: buffers on the heap, with `name[x]` for the name of
a thread; they are read a character at a time. `Attributes`: one action per
function, of each of the five families, and `Make` for what the initialisation of
an object takes from it. `TimeConversion`: the same expressions with smaller
units and widths; `Ask` gives the application a time, `Tick` lets some pass,
`TimedWait` and `Delay` turn it into milliseconds. `Process`: `ProcessAttach`,
`ProcessDetach`, `ThreadDetach`, `Join`, `Enter` (the first call of a Win32
thread) and `EnterFails` (one that fails), and `LazyInitialize` (the first use before
any attach).

### How the modules rely on one another

There is no module that runs the code of two layers step by step: the product
would be out of TLC's reach and would show little. Each layer is checked against
what it promises, and the layer above uses the promise: critical sections of an
MCS lock are atomic because `MCSLock` implements `FifoLock`; those of
`mtxUnblockLock` are because `Mutex` excludes and wakes; `semBlockQueue` is a
bag of permits because `Semaphore` implements `CountingSemaphore`; a barrier, a
read-write lock and pthread_once use locks, permits and a condition variable in
the same way. `Cancellation` extends `Thread`, which extends `ThreadStruct`:
there the layers do run together, since they share every field. The promises
hold under the conditions stated for each module (no failure of CreateEvent, no
sem_wait cancelled, callers that follow the rules), and sections 3 and 5 say
what happens without them.

## 3. The runs

| Run | What it checks | Distinct states |
|---|---|---|
| `locks` | queue lock: `TypeOK`, `MutualExclusion`, `NodesLive`, the refinement `FifoSpec`; where events may run out: `EventsClosed`; robust mutexes: `RobustSound`, the refinement `TakeoverSpec` | 1 290 000 |
| `mutexes` | `Ownership` (with `TypeOK`), `NoLostWakeup`, the refinement `OwnedSpec`; with robust mutexes: `SleepersGoOn` | 502 000 |
| `rwlock` | `Counted`, `Excluded`, the refinement `SharedSpec` (which has `NotOvertaken` in it), `WriterWaitEnds` | 145 000 |
| `sync_objects` | semaphores: `PermitsKept`, the refinement `PermitSpec`; the waits of the queue lock: `QueueLive`; `BarrierSound`, `SpinSound`, `OnceSound`, `ListSound`, `WaitsEnd` | 44 700 |
| `cond` | `CountersKept`, `GateKept`, `CalledLeave`, the refinement `WaitersSpec`, `GateReopens` | 402 000 |
| `threads` | `StructuresSound`, `JoinSound`, `CancelSound`, `EndsReached` | 447 000 |
| `data` | `ChainsSound`, `DataEnds`, `HandlersRun`, `SchedulingKept`, `NamesOwned`, `AttributesTell`, `TimesAccurate`, `ProcessSound` | 224 000 |
| `robust_timedlock`, `robust_loss_untold`, `sem_cancelled`, `cond_cancelled`, `thread_destroyed_twice` | finding (section 5): the property is violated | |

Many of these are conjunctions, written in the `MC` modules, of properties that
the modules state one by one with a comment each; TLC names the conjunct that
fails. `JoinSound`, for example, is `JoinStatus` and `NothingLost` of `Thread`,
`CalledLeave` is `BroadcastFirst` and `DestroyedUnused` of `CondVar`, `SleepersGoOn`
is `Progress` of `Mutex` and `DeathIsNoticed` of `RobustMutex`, and
`WaitsEnd` is `PostedWake` of `Semaphore`, `RoundEnds` of `Barrier`, `OnceReturns` of
`Once` and `ListLockFreed` of `CondList`. Every action, and every disjunct, of the next-state
relations is taken in the passing runs; every property is violated by the fault
that `PROJECT.json` gives for it.

### Bounds, and why they are enough

* **Threads.** The protocols tell a thread from its neighbours in the queue, the
  holder, a waiter and a newcomer. Three threads and a keeper give the MCS lock a
  queue with a head, a middle and a tail while a transfer is under way; three
  threads on a mutex are a holder, a sleeper and a newcomer that overwrites the
  mark; four on a condition variable are two waiters called by a broadcast, a
  thread that arrives meanwhile and a signaller. Three on a read-write lock are
  two readers and a writer, or two writers of which one gives up; three on a
  barrier leave one behind when a round of two is over; two on the keys are one
  that ends and one that deletes; two on a list are one that walks and one that
  destroys. What is proved (section 4) holds for every number.
* **`MaxCount`** (3 and 2), how often a recursive mutex is locked by its owner:
  from 2 on the inner unlock differs from the last one.
* **`GoneLimit = 3`** for INT_MAX / 2: reached by three time-outs without a
  signal, with one thread left to contend for the gate, so that the rebasing of
  the counters is exercised. The code's limit is large so that it cannot be
  reached together with an overflow; with 3 every step before, at and after it
  occurs. **`IntMax = 4`** for INT_MAX in `rwlock`, likewise: more than the
  number of readers, and reached by readers that come and go.
* **`MaxValue = 3`, `MaxPost = 3`** for SEM_VALUE_MAX and the count of
  post_multiple: the limit is reached, and posts go up to, and beyond, the number
  of those that wait.
* **`Structs`, `MaxReuse`**: three structures for three threads, each used twice,
  so that a handle becomes stale while its structure has a new thread. `Calls`
  gives each of the three threads a part: one creates and detaches, one sets its
  cancelability, cancels and kills, one waits, joins and exits.
* **`Iterations = 1`** for PTHREAD_DESTRUCTOR_ITERATIONS: one round in which
  destructors are called and one that destroys what they left.
* **Times.** A tick is 2 ns, a millisecond 2 ticks, a second 3 ms, DWORD and int
  have 3 bits, so that every division truncates and every width is passed within
  40 ticks. The theorem `TimesSafety` is about the units and widths of the code.
* **`MaxAttached = 2`**: a second attach finds what the first one has left.
* **`MaxQueue`** (a constraint of `locks`, which cuts only the scene "events"):
  without waits the history of arrivals grows without end; three entries are
  enough for each thread to have arrived once and one of them twice.
* **Symmetry** is used in `locks`, whose properties are all safety.
* **Deadlock** is checked in `locks` (but for the scene "events"), `mutexes`,
  `rwlock` and `cond`, and in `sync_objects` for the
  queue lock. Elsewhere threads may come to an end, or
  wait for a post that nobody is left to make.

### Fairness

Weak fairness of the steps inside a routine: Windows schedules every runnable
thread in the end, and a thread whose wait is satisfied becomes runnable. An
auto-reset event and a Win32 semaphore wake one of those that wait, not a
particular one, so no thread is promised its turn. Beyond that:

* `MCSLock`: whoever holds the lock releases it. The library never holds an MCS
  lock across a call into user code except in pthread_once.
* `Mutex`: whoever holds the mutex unlocks it (weak fairness of `Unlock`; a
  holder stays able to until it does).
* `RobustMutex`: strong fairness of `Unlock`, as a holder may be in other calls
  on the mutex meanwhile; no fairness of `Terminate`.
* `RWLock`: whoever holds the lock unlocks it.
* `Semaphore`, `CondVar`: only the steps inside calls; nobody needs to post or
  signal, and nobody needs to time out.
* `Barrier`, `Once`, `ThreadData`: strong fairness of the steps that take an MCS
  lock, which are single steps there: the lock is FIFO, so that a thread that
  asks for it again and again gets it (`FifoSpec`, `QueueLive`). The ending
  thread in `ThreadData` only tries: that it succeeds rests on the others'
  leaving the lock alone now and then.
* `CondList`: a gate that is closed opens again (`GateReopens`).
* `Cancellation`: the steps of a thread that ends, those of one that waits and
  has been cancelled, and those of pthread_cancel and pthread_kill after their tests;
  no fairness of calls.

Liveness is stated accordingly: `QueueLive` promises each thread its turn because
the MCS lock is FIFO; `Progress`, `DeathIsNoticed` and `PostedWake` promise that
somebody goes on, or that nobody sleeps for ever although the state says that
there is nothing to wait for; `GateReopens` that the gate does not stay closed
once all signallers have returned; `WriterWaitEnds`, `WaitsEnd`, `EndsReached` and
`DataEnds` that a call comes to its end once what it waits for has happened.

## 4. The proofs

TLC checks the small instances of section 3. The theorems hold for every set of
threads (finite ones where something is counted: semaphores, condition variables,
read-write locks, barriers, cleanup handlers) and every value of the bounds. Each invariant that a
run checks is stated by a theorem too, and so are all six refinements and the action
properties (`NotOvertaken`, `AttributesTell`, and `ValuesGiven`, which is part of
`DataEnds`); the end of this section says what is left to TLC, and why.

The method is the same throughout. The property is not inductive, so it is
strengthened to one that is (`Inv`, `IInv`, or the `...Inv` of a component); a lemma
for each action, or a step of one lemma, shows that the action keeps it; the temporal
step is the last line of the theorem. Where a run checks several components side by side (`MCLocks`,
`MCSyncObjects`, `MCData`), the theorems speak of the component, and `ScenesRun`,
`ObjectsRun` and `PartsRun` show that the specification of the run implies each
of theirs.

### Assumptions

Assumptions on constants are named in the module that declares them
(`MCSAssumption`, `MutexAssumption`, `SemaphoreAssumption`, `CondVarAssumption`,
`RWLockAssumption`, `StructAssumption`), and TLC evaluates them in the runs.
Modules that share their constants with others have them as hypotheses of their
theorems instead (`RobustAssumption`, `BarrierAssumption`, `ListAssumption`,
`NamesAssumption`, ...). They say that the values for "none" are not threads or
structures, that bounds are numbers, and that INT_MAX is more than the number of
threads. Beyond that, theorems exclude what the code does not survive, each time
a finding of section 5 or something stated there:

| Hypothesis | Theorems | Without it |
|---|---|---|
| `~EventExhaustion`: CreateEvent does not fail | `Exclusion`, `NodesStayLive`, `Refinement` of `MCSLockProofs` | a thread goes on without waiting |
| `"normal" \notin TimedKinds` | `RobustSafety`, `RobustImplementation` | the owner is not recorded (finding 1) |
| `Cancels # "all"` | `Invariance`, `Implementation` of semaphores | a token stays behind (finding 3) |
| `Spec` and not `CancelSpec` | `CondVarProofs` | the gate is lost (finding 4) |
| `~RebaseMayTimeOut` | `RWLockProofs` | counts are lost |
| `~DestroyEarly` | `BarrierSafety` | the barrier is freed under a thread |
| `~DetachMeetsExit`, `~CancelMeetsStart`, `~AsyncMeetsCall` | `CancellationProofs` | a structure is destroyed twice (finding 5), a request is forgotten, a lock is never released |
| `~AffinityFails` | `CancellationProofs`, `SchedulingSafety`, `ProcessSafety` | a thread uses a structure that is free, or that of another |

### MCSLockProofs

`TypeCorrect` and `NoLeak` (`NoHandleLeak`) hold whether or not events run out.
`TypeOK` is inductive because it has the one fact that is not a type: a thread
about to write to its predecessor's node has one.

`Exclusion` (`MutualExclusion`), `NodesStayLive` (`NodesLive`) and `Refinement`
(`FifoSpec`) rest on `IInv`, which relates the memory to the history `queue`:

* `Order`: the nodes in the queue are those of the threads that wait or hold, with
  `Proxy` at most at its head, and the lock word points at its tail; `Heads`: the
  lock is held through the head.
* `Links`: `next` of a node is its successor in the queue, once that has linked
  itself; `peer`, what a thread remembers of it, likewise.
* `Flagged`: a flag of a node in the queue does not tell what has not come about
  (its turn, or a successor); `Events`: who waits in the kernel has an open event,
  and one thread at most is going to signal it; `Releases`: a releaser waits only
  for a successor that there is.
* `Locals`: what is in the local variables at each place.

A thread is let in only when its flag tells so; by `Flagged` it is then at the head
of the queue, which by `Heads` nobody else holds through. The queue is a sequence
that grows at one end and shrinks at the other: `First`, `Last` and `Succ` describe
it by its neighbours, and a lemma for each of the three changes (a node is
appended, the head is dropped, the head is replaced by `Proxy`) says what they
become. The refinement maps each step to an Arrive, Grant, Depart or Move of
`FifoLock`, or to a stutter.

### MutexProofs, LocksProofs

`MutexProofs`: `TypeCorrect`, `Exclusion` (`MutualExclusion`), `OwnerIsHolder`
(`OwnerHolds`), `OneOwner` (`Ownership`, the three together) and `NobodyForgotten`
(`NoLostWakeup`). The invariant adds `Exclusive` and `Marked` (one thread at most
has `lock_idx` to itself, a destroyer included, and then it is not 0), `Allocated`
(what `*mutex` is for a thread past the tests at the start of a call), `Owners` and
`Holders` (where the thread that `ownerThread` names can be, and where a holder has
recorded itself). The lost wake-up: if a thread sleeps, the mark is -1, or the event
is set, or somebody is about to set it, or is between its exchange by 1 and its
exchange by -1 and will restore the mark.

`Implementation` (`OwnedSpec`) maps `held` to `depth`. Exclusion makes the mutex
free whenever somebody takes it; the rest is that an unlock which gives the mutex
away gives back the last lock and no other: `HeldOnce`, itself an invariant, says
that a thread holds the mutex more than once only if it is recursive, and then not
where it is about to let it go or waits.

`LocksProofs`: `RobustSafety` (`RobustSound`: exclusion across deaths, owner and
list, and that nobody is told 0 of a state that a dead owner may have left
inconsistent). `RobustInv` adds when `ownerThread` and `robustMxList` name a holder
(`Recorded`), where a holder may be, and what `lock_idx` and `stateInconsistent`
say of it. `RobustImplementation` (`TakeoverSpec`) is the refinement across deaths:
the mark "ownerDead" that a dying owner leaves is a Die, the exchange by which
somebody inherits a TakeOver, and `pthread_mutex_consistent` and the mark that unlock sets
before it lets go are the Answer, without which nobody may give the mutex back.
`EventsNeverLeak` (`EventsClosed`) is `NoLeak` of `MCSLockProofs`, applied
to the scene of `locks` in which CreateEvent fails.

### CondVarProofs

`TypeCorrect`, `CountersAgree` (`CountersKept`), `GateExcludes` (`GateKept`),
`BroadcastReaches` (`BroadcastFirst`) and `DestroyedSafely` (`DestroyedUnused`),
and `CalledAreServed` (`CalledLeave`), the last two together.
The properties lean on one another: the counters are safe because only one thread
is inside the gate, and the gate is because a counter tells the last of the
signalled threads that it is the last. The inductive invariant is their conjunction
with six more facts: `UnlockHeld` (who holds `mtxUnblockLock` while it waits for the
gate, and that the counters do not change under it), `GoneFirst` (nobody is counted
as gone while threads are to be unblocked), `CallersHold` (who is on the way in, or
destroys, holds the caller's mutex), `Quiet` (nobody signals what is being
destroyed), `CalledAll` (after a broadcast all that wait are called) and `Goals`.
The sum in `GateKept` is kept by steps that move one thread and one permit: `Down`,
`Up`, `Moves` and `CountsMove` state that once for all of them, `Alone` and `OnlyOne`
draw the consequences.

`Implementation` (`WaitersSpec`) needs no more than this invariant: the threads
that wait are counted by `nWaitersBlocked - nWaitersGone + nWaitersToUnblock`, so
that a signal which finds somebody to wake (it compares the first two counters
only) finds one that has not been called, and a thread that announces itself has
closed the gate, with nobody to be unblocked.

### RWLockProofs

`CountsKept` (`Counted`), `Exclusive` (`Excluded`) and the action property
`NobodyOvertakes` (`NotOvertaken`). That a writer may enter rests on the counts, and
that these are right on who owns the two mutexes. `IInv` adds `Owners` (a mutex is
owned by who is at one of these places, or is the writer), `Where`, `Unused` and
`Alone` (what `*rwlock` and a destroyer say of the others), `Writing`, and `Room`:
`nSharedAccessCount` is at INT_MAX only while somebody is about to rebase the counts.
The number of readers is the cardinality of a set; one that enters or leaves changes
it by one. The counts are C ints; lemma `CIntIdentity` takes the casts away where
their arguments are in range, and that they are is part of the invariant. `Implementation`
(`SharedSpec`) maps each step: who counts itself in has mtxExclusiveAccess, so that
there is no writer and no claim; a writer that waits has found readers, because
what is left of the counts is their number; one that enters is alone by `Exclusion`
in the next state; and a lock is destroyed free and unclaimed by `Unused`.

### SyncObjectsProofs

* Semaphores: `Invariance` (`PermitsKept`) and `Implementation` (`PermitSpec`). The
  invariant has `Accounting`, which relates `value` and the Win32 count through the
  number of waiting threads, and `TimedCleanup`: only a timed wait ends in a clean-up.
  The refinement maps `permits` to the history variable `due`; each action is a
  Take, a Give, a Destroy, a Create or a stutter.
* `BarrierSafety` (`BarrierSound`): `WhereTheyAre` says of which round who is at
  which place, `LockKept` that the lock is the proxy's until the last thread of a
  round has left.
* `SpinSafety` (`SpinSound`), `OnceSafety` (`OnceSound`): small invariants.
* `ListSafety` (`ListSound`): that every element points back to the one before it
  excludes no cycle apart from the head. The invariant says that there is a sequence
  of all that are linked, each once, which `head`, `tail`, `next` and `prev` follow
  (`IsList`), and that a walk has told those before the place it has come to. Each
  action that links or unlinks gives the new sequence as the witness.

### DataProofs

* `NamesSafety` (`NamesOwned`): each buffer that is in use is the name of one thread,
  of the attributes, or of one call, which has the lock that it needs.
* `SchedulingSafety` (`SchedulingKept`), `ProcessSafety` (`ProcessSound`): likewise
  what threads inside a call have left unrecorded, and where a structure is. Both
  assume that the affinity calls of pthread_self do not fail: then no thread has the
  structure of another under its key (`OnesOwn`), or one that is free.
* `TimesSafety` (`TimesAccurate`): TLC checks all times of a small clock; the
  theorem is about ticks of 100 ns and DWORD and int of 32 bits, for any offset of
  the epoch, any interval and horizon, and a wait that begins within 2^31 seconds
  of the time at which it was asked for (so that a cast of seconds to int that has
  wrapped can be told from one that has not). A wait is what is left of its interval
  to within a millisecond: it may be that much too short, since
  `ptw32_relmillisecs.c:105` truncates.
* `AttributesSafety` (`AttributesTell`, an action property): the invariant is that the
  setters have let only legal values into the attributes of a mutex.
* `DataSafety` (`ChainsSound`) and `ValuesReach` (`ValuesGiven`): the chains of a thread
  and of a key have an association both or neither. `DataInv` adds, for each place, the
  locks that a thread has there and what it knows of its key (`DataPlace`: one that sets
  a key has the association before it sets the value, and one thread at most deletes a
  key), and that a thread in a round that has given nothing yet has the head of its
  chain before it (`DataRound`), which is why nothing is left when the rounds end. What
  happens to the chains is stated once (`TakenOut`, `PutIn`): which associations are in
  them afterwards, each once, and that the one after what is taken out is still there.
* `HandlersSafety` (`HandlersRun`): `HandlersInv` says that there is a sequence that is
  the chain, and of it: it has all that have been pushed and neither returned nor been
  popped without (`Chained`); a handler that is running or has called one that is, and
  that no ptw32_throw is going to leave, is behind those that have been pushed in its
  scope or further in, and behind no others (`Framed`), so that the one that returns is
  the one pushed last; and one that has been begun and is left behind by a ptw32_throw
  has in front of it, or is itself, one that ended the thread, which is begun a second
  time before it is (`Begun`). That is the only way to be begun twice. When a thread made
  by pthread_create has ended, the chain is empty.

### CancellationProofs

`StructuresSafety` (`StructuresSound`), `JoinSafety` (`JoinSound`) and `CancelSafety`
(`CancelSound`), for any numbers of threads and structures and any bound on their
reuse, whatever functions the threads call. One invariant serves the three, since
each leans on the others: a join finds the right status because nobody else has used
the structure, which nobody has because a handle that is behind its structure is
refused, and the lock of a structure is released because its thread is not stopped
in between.

* `Owners`: a thread whose handle is valid has its structure to itself, and no handle
  is ahead of its structure.
* `List`: there is a sequence of the free structures, each once, which the links
  follow, and every handle to one of them is behind it. `Made`: the structure that a
  thread is preparing is clean and on nobody's list.
* `Local`, for each thread: which place goes with which handle (`Place`); that who
  acts on a cancellation was asked to, and has disabled it (`Asked`); that an event
  is only set with the state (`Request`); that a thread that can be cancelled at any
  time has nothing pending and is in no call but the safe ones (`Async`); what it
  leaves in its structure on its way out (`Exits`).
* `Naming`: what a thread relies on while it works on the handle of another: that one
  still has its structure, was not detached, and nobody else is joining or detaching
  it. This is where the hypothesis on detachment is used.
* `Locking`, `Holding`: `stateLock` is held by a thread at one of the two places in
  pthread_cancel where it is kept over a step; while a request is being recorded
  ("cancel_set") the structure is not that of a thread that accepts cancellation at
  any time.
* `Aimed`: the thread that pthread_cancel or pthread_kill is about to suspend or to end
  ("cancel_async", "terminate") is still the one that it has tested, in its own code or
  on its way out, and in no call. This is where `~AsyncMeetsCall` is used, and, for
  pthread_kill, `~CancelMeetsStart`.

Most steps write some fields of one structure: `Writes` says which, and a lemma for
each conjunct says that it stays for all other threads, so that the lemma of an
action is about the acting thread (and, in pthread_cancel, pthread_kill and the
joins, the one that it names). `FreeListSound` speaks of the list as the code walks
it, by the function `Walk`, which is recursive. That the walk follows the sequence is
an induction; it is done with `LeastNatural`, the least number at which it would
leave it, which follows from the well-foundedness of < on the naturals.

### Only model-checked

* All liveness (`SleepersGoOn`, `QueueLive`, `WaitsEnd`, `GateReopens`,
  `WriterWaitEnds`, `EndsReached`, `DataEnds`): it rests on fairness and ENABLED,
  which the prover does not have.
* The five findings, which are counterexamples.

## 5. Findings

Each of the five findings with a run has a comment in the code that says
otherwise (quoted in `PROJECT.json`).

1. **`pthread_mutex_timedlock` of a free normal robust mutex does not record the
   owner** (`pthread_mutex_timedlock.c:257`): the call to
   `ptw32_robust_mutex_add` is inside the branch for a contended mutex. Run
   `robust_timedlock`, violated in one call.
2. **Not every waiter is told of the loss of a robust mutex**
   (`pthread_mutex_lock.c:177`): a newcomer overwrites the mark of a sleeper,
   finds the mutex lost and returns without waking it. Run `robust_loss_untold`.
3. **A cancelled sem_wait may leave a token behind** (`sem_wait.c:70`): the
   clean-up is given the wrong pointer and takes a `value` of 0 for a semaphore
   that was destroyed. Run `sem_cancelled`.
4. **Cancellation at the gate of a condition variable loses the gate**
   (`pthread_cond_wait.c:389`): the clean-up of one waiter consumes the post that
   was meant for another. Run `cond_cancelled`.
5. **A thread that is detached while it exits is destroyed twice**
   (`pthread_detach.c:114`): pthread_detach and the exiting thread both see that
   it is detached, and both push its structure. Run `thread_destroyed_twice`.

Excluded from the passing runs by a constant; set to TRUE, it lets TLC find the
violation:

* `CancelMeetsStart` (`RequestKept`): a thread cancelled, or killed, before it has
  started sets its state to PThreadStateRunning over the request
  (`ptw32_threadStart.c:170`), which pthread_testcancel then does not see
  (`pthread_testcancel.c:87`).
* `AsyncMeetsCall` (`LockReleased`, `ExitEnds`): pthread_cancel finds its target in
  its own code and asynchronously cancelable (`pthread_cancel.c:146-148`), and suspends
  it only at line 164. Meanwhile the target may have come to the end of
  `pthread_win32_thread_detach_np`, to one of the setters or to a pthread_cancel of
  itself, and queue for its own `stateLock`, which the canceller holds. Redirected
  there, its node in the queue is given the lock and nobody releases it: `LockReleased`
  is violated in 17 states, and the thread then waits behind itself at its end
  (`ExitEnds`). If it has ended, line 166 passes over the release. That two threads
  suspend each other is not shown: it needs two cancellers that are asynchronously
  cancelable themselves, and suspension is part of a step here.
* `AffinityFails` (`StructureOwned`, `StructsOnce`, `PriorityRecorded`,
  `AffinityRecorded`): pthread_self puts the structure under the key of the thread
  (`pthread_self.c:165`) although a call for the affinity has failed (lines 152-156),
  and then pushes it on the free list (line 176). The next pthread_self of the thread
  returns a handle to a structure that is free, and, when it has been used again, that
  of another thread. TLC finds `StructureOwned` violated in three states, `StructsOnce`
  likewise, and, with three threads, `PriorityRecorded` and `AffinityRecorded`: the
  thread is told, and its children inherit, what is recorded of another.
* `DestroyEarly` (`NoUseAfterFree`): the serial thread destroys the barrier when
  it has returned; another one that is still in pthread_barrier_wait then reads
  `nInitialBarrierHeight` of a structure that is gone
  (`pthread_barrier_wait.c:97`).
* `RebaseMayTimeOut` (`ReadersCounted`): pthread_rwlock_timedrdlock that times out
  on its second mutex, at the rebasing of the counts
  (`pthread_rwlock_timedrdlock.c:95`), counts itself out without that mutex, so
  that the increment may be lost to a reader that is leaving, and leaves
  `nSharedAccessCount` at INT_MAX for the next reader to overflow.

Stated as properties that no configuration checks, because they are violated:

* `RobustMutex`, `LostIsUnusable`: a locking call tests for ENOTRECOVERABLE before
  its exchange and, when that finds the mutex free, not again
  (`pthread_mutex_lock.c:159`; timedlock does, lines 307-315): a mutex that is lost
  and unlocked in between is acquired with the result 0.
  `pthread_mutexattr_setrobust.c:98-101` says that all attempts to lock it fail.
  `OwnedLock` allows it (Take). With the constants of `RobustLossUntold.cfg` TLC
  finds it in 15 states.
* `TimeConversion`, `DelayNeverShort`: a delay of 2^32 milliseconds or more
  becomes a short one (`pthread_delay_np.c:111-120`; its comment, lines 50-54,
  promises the interval or more).
* `Attributes`, `SharedRefused`: attributes of mutexes and others accept
  PTHREAD_PROCESS_SHARED (`pthread_mutexattr_setpshared.c:86`) where the next
  branch means to refuse it: `_POSIX_THREAD_PROCESS_SHARED` is defined, as -1
  (`pthread.h:344`). pthread_mutex_init then fails with ENOSYS.
* `Cleanup`, `ExitRunsHandlers`: a thread that pthread_create did not make ends in
  pthread_exit, or in ptw32_throw when it has a handle, before it comes to
  `ptw32_pop_cleanup_all` (`ptw32_throw.c:92-129`, 142), so that the handlers it has
  pushed are not run. `cleanup.c:115-117` says that they are when the thread calls
  pthread_exit, and `ptw32_throw.c:96-99` that the exit comes "after cleaning up POSIX
  residue (i.e. cleanup handlers, POSIX thread handle etc)". TLC finds it in three
  states. `AllRun` is therefore about threads that pthread_create has made.
* `Process`, `InitializedHasKeys`: `ptw32_processInitialized` becomes TRUE also
  when the keys could not be made (`ptw32_processInitialize.c:155`; line 67 says
  "If successful").

Met while modelling and stated here only:

* A CreateEvent that fails in `ptw32_mcs_flag_wait` lets the thread go on without
  waiting (`ptw32_MCS_lock.c:148-162`): it may enter a critical section that is
  held. The scene "events" of `locks` shows only that no handle leaks then.
* `pthread_mutex_unlock` makes its SetEvent after it has let the mutex go. A
  thread that then locks, unlocks and destroys the mutex closes the event under
  it. Hence the rule that a mutex is destroyed only when nobody is in a call.
  Likewise `sem_destroy` succeeds while a thread that has been posted has not yet
  returned from its wait.
* `pthread_mutex_destroy` takes a robust recursive mutex that the caller holds
  for a free one: the test at line 73 compares with the non-robust kind. When
  its trylock inherits the mutex it returns EOWNERDEAD and leaves it locked.
* `pthread_cond_wait.c:46` names the algorithm "8a"; the code is the second one
  of the comment, "Algorithm 9", without the prevention of spurious wake-ups
  (lines 164-167). A waiter that gives up while a permit for it is on its way
  counts as one of those to unblock and leaves the permit in `semBlockQueue`,
  where it wakes up somebody without a signal. POSIX permits that.
* `pthread_getname_np.c:67` follows a NULL pointer for a thread without a name.
* The library may be initialised by its first use (`cleanup.c:85`), without
  `pthread_win32_process_attach_np`: `ptw32_register_cancellation` is then NULL.

## 6. What is not modelled

* *Failures of kernel calls and of allocation*, except CreateEvent in `MCSLock`
  and those that the actions named `...Fails` stand for (and `SelfWiden` and
  `SelfRestore`). Most are early returns in code that one thread runs before the object
  is published. They do not all undo what was done: a pthread_self that fails leaves the
  structure under the key (modelled, section 5) and does not close `cancelEvent` or
  `threadH`, which the push wipes; and when `ptw32_new` returns no structure,
  pthread_self writes through the NULL pointer (`pthread_self.c:191`), after which no
  step is modelled.
* *Variants of the build*: NEED_SEM, Windows CE, `RETAIN_WSALASTERROR`, cleanup
  handlers in C++ and SEH (the compiler unwinds the stack there), numbered names
  for compatibility with Digital UNIX.
* *Functions on CPU sets, the scheduling policy and the concurrency level*: pure
  functions of a record, one value, and a number that nothing reads.
* *Signals* (`signal.c`): a mask that nothing else reads, and an empty file unless
  HAVE_SIGSET_T is defined. pthread_kill is in `Cancellation`.
* *Named semaphores*: they return ENOSYS.
* *Handles and numbers of threads*: reads of one field that is set before the
  thread runs.
* *errno and allocation*: no state that two threads share.
* *Threads that the application ends with TerminateThread*.
* *The suspension of the target in pthread_cancel*, step by step: SuspendThread,
  the test whether the thread has ended, SetThreadContext and ResumeThread are one
  step, which another thread cannot tell from four, as the target does not run
  meanwhile. The test of its settings and its state, before, is a step of its own.

## 7. The plan

The components are all modelled, as far as section 6 does not except them, every
safety property of the passing runs is proved, and the synchronisation objects that
others are built from are shown to implement their abstract specifications. What
could still be added, in this order:

1. **Condition variables and read-write locks over the abstract specifications**:
   `RWLock` with two `OwnedLock`s and a `WaitSet` in place of the owners and the set
   of woken threads that it has in itself, `CondVar` with an `OwnedLock` for
   mtxUnblockLock.
2. **Abstract specifications of barriers and of pthread_once**, whose promises
   are invariants of their own modules now.
3. **Scheduling**: the functions for CPU sets, which are left out.
