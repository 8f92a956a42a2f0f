# TLA+ models and proofs of the OmegaOSX kernel

OmegaOSX is a Rust kernel in two layers. `osxtd` is the framework: the only crate
with unsafe code, it owns synchronisation, tasks, memory and interrupts. `kernel`
builds Linux-compatible processes, file systems, networking and devices on it.
`osxdk` is the build tool, with two allocators as its `deps`.

The models start at the bottom, where the interleavings are worst and where every
other part of the kernel puts its trust: the wait queue and the locks built on it, RCU,
the reference counts of physical frames, the scheduler, and the locks of page tables.
Above them are the futexes of user programs, and the journal that the encrypted disk
recovers from after a loss of power.

## The parts of the system

| Part | Source | State it keeps | Depends on | Module |
|---|---|---|---|---|
| Wait queue, Waiter, Waker | `osxtd/src/sync/wait.rs` | queue of wakers, its length, a flag per waker | parking | `WaitQueue` |
| Mutex | `osxtd/src/sync/mutex.rs` | one bit | wait queue | `Mutex` |
| RwLock, RwMutex | `osxtd/src/sync/rwlock.rs`, `rwmutex.rs` | one word | wait queue (RwMutex) | `RwLock`, `RwMutex` |
| RCU | `osxtd/src/sync/rcu/` | slots, the running grace period, callbacks | context switch | `RcuMonitor` |
| Frames | `osxtd/src/mm/frame/` | reference count and metadata per frame | frame allocator | `Frame` |
| Scheduler framework, parking | `osxtd/src/task/` | current tasks, preemption flags | interrupts | `Scheduler`; parking as one step in `WaitQueue` |
| Class scheduler | `kernel/src/sched/sched_class/` | run queues | framework | `Scheduler` |
| Page table cursors | `osxtd/src/mm/page_table/` | tree of locked nodes | RCU, frames | `PageTableLock` |
| Futex, pausing, signals | `kernel/src/process/posix_thread/futex.rs`, `signal/pause.rs` | hashed buckets of waiters | Waiter and Waker | `Futex` |
| mlsdisk journal | `kernel/comps/mlsdisk/src/layers/2-edit/` | snapshots, chain of records | block device | `EditJournal` |
| Frame allocator, file range locks | `osxdk/deps/frame-allocator/`, `kernel/src/fs/utils/range_lock/` | | frames, wait queue | not modelled |
| Processes, IPC, pipes, epoll, VM areas, sockets, timers, softirq, virtio, file systems | `kernel/` | | | see `PROJECT.json` |

`PROJECT.json` lists every part with its status and the reason where it is not
modelled, the source lines behind each definition, and the hazards: what can go
wrong in this code that a test would hardly reach, at the line where it bites.

## How modules correspond to code

One action is one atomic instruction, one critical section of a spin lock, or one
evaluation of a caller's closure. All modules assume sequential consistency: the
memory orderings on the atomics are not modelled.

`ThreadSet` declares the threads that share a lock.

**`WaitQueue`** holds `wait_until` and the wake functions. `pc[t]` follows the code:
`cond` (evaluate the closure) → `enqueue` → `enqueue_num` → `cond` → `wait`
(`do_wait`) → `park` (`park_current`) → `parked`; and `wake` (`is_empty`) → `pop` →
`pop_num` → `wake_up` → `unpark`. `wakers` and `num_wakers` change in separate steps
because the fast path reads the second without the spin lock. The `Arc<Waker>` of a
dropped `Waiter` stays in the queue; all those wakers behave alike and share the name
`Closed`. The module has no specification of its own: a client supplies the condition.

**`Mutex`** is the first client; its closure is `try_lock`, its `unlock` calls `wake_one`.

**`RwLock`** is the lock word. `RwLock` (spinning) and `RwMutex` (sleeping) use the
same instructions on it. An attempt that fails after a `fetch_add` or `fetch_or`
undoes it in a second step, which other threads can see. A public `try_upgrade` called
without `upgrade` is included; it cannot succeed, since only `upgrade` sets the bit
it expects. `ReadersWriters` is the abstract lock: which guards may coexist.

**`RwMutex`** composes `RwLock` with `WaitQueue`: each acquiring call evaluates the
first instruction of its `try_` function as the closure, each drop decides from the
old word whether to wake, as the code does.

**`RcuMonitor`** has one slot, the monitor's state, and the places where an object can
be between removal and drop: `unregistered` (swapped out, not yet handed to
`after_grace_period`), `next_callbacks`, `callbacks`, `invoking`. A CPU passes a
quiescent state in two steps, the lock-free test of `is_monitoring` and the critical
section. `Rcu` is the abstract promise: a retired object is reclaimed only when no
critical section holds it.

**`Frame`** follows one frame from the allocator through construction, sharing, lookup
by address (`from_in_use`), cloning, conversion to and from `UniqueFrame`, and
destruction back to the allocator. Handles are the actors. `REF_COUNT_MAX` is the
constant `RefCountMax`, and the values above it keep their order and their wrap-around:
`2*RefCountMax` stands for `REF_COUNT_UNIQUE`, the next one for `REF_COUNT_UNUSED`.
That `Frame::from_unused` is called only on frames the allocator handed out is an
obligation of its callers.

**`Scheduler`** has one run queue per CPU. `pc[t]` is where a task is in its own code,
and only the task a CPU is running moves: `run` → `wait` (`do_wait`) → `clear`
(`reschedule` clears the flag) → `decide` (the closure, under the run queue's lock) →
`switch` → `switched`; the idle loop has `halt`, `halted` and `preempt_point`. Decision
and switch are separate steps, as in the code. `enq[c]` is an enqueue in progress on
CPU c, for its task or for an interrupt handler: `claim` (the first `set_if_is_none`),
`lock` (the second look and `enqueue_entity`, under the lock), `flag`
(`set_need_preempt`). Ticks and inter-processor calls come between any two steps that
have interrupts enabled. Which task the real-time and fair classes pick, and when a time
slice is over, is left open; the order of the classes and the one-slot queues of the
stop and idle classes are not. `TaskPlaces` is the abstract promise: a task is absent,
claimed, ready in one queue, or current on one CPU, and keeps the CPU it was first
placed on.

**`Futex`** has the buckets with their locks and the pause a wait sleeps in. A wait
goes `load` (the word and `add_item`, one critical section) → `pause`
(`set_signalled_waker`) → `check` (pending signals) → `wait` → `remove` → `drop`.
`enqueue_signal` sets the pending bit and wakes in two steps. Operations on two
addresses take the two locks one after the other.

**`EditJournal`** is the journal over its ring of blocks and its two snapshot areas.
A step makes at most one write to the disk. `Crash` keeps, for every place on the disk, the new or
an old content; the write it interrupts may also leave it torn. With `write_cache` any
write since the last flush may be the one that is lost, without it only the write in
progress. A block MAC is a number no other block has, which is what a random IV gives.

**`PageTableLock`** is the tree of nodes with their locks and stray flags, under cursors
that descend without locks (`Traverse`), lock and allocate where the tree ends
(`LockParent`), start over at a stray node (`Retry`), lock their part in pre-order
(`DfsAcquireLock`), change it, and release it in reverse.

The abstract specifications `ReadersWriters` and `Rcu` state promises and have no
lines of their own in the map.

## Runs

| Run | Bounds | States | Shows |
|---|---|---|---|
| `mutex` | 3 threads, 4 calls | 45,165 | exclusion, exact queue length, wakeups delivered, no sleeper left on a free mutex, `lock` returns |
| `rwlock` | 4 threads, `MaxReader` 2 | 600 | the word is accounted for, guards exclude, `ReadersWriters` is implemented |
| `rwmutex` | 3 threads, 3 calls (all but `try_read`, `try_upread`) | 117,503 | no sleeper left on a free lock, the steps are those of `RwLock`, calls return if every `wake_all` does |
| `rwmutex_try` | the same, all calls | violation | see Findings |
| `rwmutex_wake` | as `rwmutex` | violation | see Findings |
| `rcu` | 2 CPUs, 3 objects | 21,629 | nothing is dropped under a reader, `Rcu` is implemented, removed objects are dropped in the end |
| `frame` | 5 handles, `RefCountMax` 3 | 9,296 | the count keeps its meaning, metadata accesses are safe, `unwrap` succeeds, no revival |
| `scheduler` | 2 CPUs, 2 idle threads, 1 fair task, 1 real-time task that sleeps, both on the first CPU | 34,428 | a task is in one place, no wake-up is lost, switches do not block, `TaskPlaces` is implemented, idle CPUs take up work |
| `futex` | 3 threads, 3 words in 2 buckets, 3 calls | 107,342 | results agree with what wakers counted, no stale sleeper, no deadlock on two buckets, waits return |
| `journal` | ring of 3 blocks, 8 groups, 2 crashes, both kinds of disk | 1,185,059 | recovery gives a prefix, flushed edits survive unless a compaction was cut or the ring overrun, a snapshot is found |
| `journal_flush` | the same, 6 groups, no write cache | violation | see Findings |
| `page_table` | 2 cursors at a time, 4 in all, 3 levels of 2 entries, 2 changes | 121,555 | ranges are exclusive, locks match the tree, `lock_range` returns |

Why the bounds are enough. Three threads are the fewest with a holder, a sleeper and
a third that barges in or wakes at the wrong moment; four calls let one thread come
back while wakers of its earlier call are still in the queue. In `rwlock` four threads
exceed `MaxReader` by two, so attempts over the limit overlap. `rwmutex` with four calls
has also been checked once (720,417 states); three keep the run short. Three objects
are one in the slot, one in the running grace period and one in the next. Five handles
with a limit of three put two clones past the limit at the same time. In `scheduler`
the second CPU is there to wake, to spawn and to send interrupts against the first, where
two tasks of different classes and the idle thread compete. Wider instances were
explored once: the real-time task on either CPU (about 235,000 states), both tasks on
either CPU (466,000, with the inductive invariant of the proofs), both of them sleepers
(3.69 million, invariants only). `futex` has two words in one bucket and a third in the
other, so that a requeue stays within a bucket or crosses, in both directions. In
`journal` eight groups fill a ring of three blocks, compact, recover and fill it again,
and the second crash can hit what the first recovery left behind. `page_table` has ranges
whose sub-tree roots are on each of the three levels; three cursors with three openings
(211,978 states) and two with four openings and three changes (597,372) were explored
once. `MaxNodes` is never reached. No run uses symmetry: most of them check liveness.

Deadlock is checked everywhere but in `frame`, where an abort stops the kernel, in
`scheduler`, where a panic does, and in the three runs whose bounds end the calls
(`futex`, `journal`, `page_table`). `Mutex` and `RwMutex` have a `Done` step for the
state after the last call.

## Fairness

`Mutex` and `RwMutex`: a thread that is inside the lock's code, or holds a guard,
keeps taking steps (weak fairness of `Step`). The scheduler runs every runnable task;
a holder that never lets go would block any lock. Starting a call is never required.

`RcuMonitor`: critical sections end, since they run with preemption off; an update
goes on to register its callback; taken callbacks run; a task that passed the test of
`is_monitoring` takes the monitor's spin lock (strong fairness: the task can be
preempted between the two, and the CPU leaves its critical sections again and again). Nothing in the code obliges a CPU to switch tasks: one that has only
its idle task never calls `switch_to_task`. So `EventuallyDropped` has
`KeepsSwitching` as an explicit hypothesis. `CallReturns` likewise assumes that
`wake_all` returns, which `rwmutex_wake` shows is not a matter of course.

`Scheduler`: a CPU executes (an enqueue runs with preemption off to its end; the task's
own steps are interrupted again and again, hence strong fairness), and the interrupt
controller keeps masked interrupts until they can be delivered. What tasks choose to do is
never required. The tick is essential for `IdleGivesWay`: an enqueue asks for preemption
only when its task has a better class than the current one, and a flag that is cleared
by a decision made before the task arrived is set again only by the tick.

`Futex` and `PageTableLock`: a thread inside a call keeps taking steps. Spin locks are
not fair, and their calls are bounded here: what `PairsProceed` and `CursorsOpen` show is
the absence of deadlock and of retries without end, not the fairness of a spin lock.

## Findings

*`rwmutex_try`.* `try_read` adds a reader, and `try_upread` sets a bit, before it is
known whether the attempt succeeds. When the last guard is dropped in that window, the
drop does not see the word become 0 and wakes nobody; the undo wakes nobody either. A
`write()` that was asleep stays asleep on a free lock, until some later call drops a
guard. In `read()` and `upread()` the attempts are made inside `wait_until`, and the
thread that made them is awake and will look at the queue again or take the lock, which
is why the `rwmutex` run passes, and why `NoSleeperStranded` can be proved without these two
calls.

*`rwmutex_wake`.* `downgrade` drops its write guard, and so runs `wake_all`, while it
holds the upgradeable guard. Upreaders woken by the loop fail, enqueue again and are
popped by the same loop; `wake_all` has no bound on the wakers it visits.

*`journal_flush`.* The compaction policy that `recover` is given (`tx_log.rs:236`) is
`from_meta`'s, with `used_blocks` 0, although the recovered chain occupies blocks of the
ring. The journal wraps around and overwrites the first of them before the policy asks
for a compaction; after the next crash the chain is cut there, and edits are gone that
`flush` had reported as persistent.

Three more places where the code and a comment differ came up, which no run isolates:

- A futex wait looks for its item in the bucket it was put into. After a requeue to
  another bucket, a wait ended by a signal or a timeout finds nothing, returns `Ok(())` as
  if woken, and the item stays behind; `futex.rs:111` says the item is removed
  asynchronously "if and only if it has been woken up". `TruthfulResult` excludes exactly
  this case (`moved[t] = "across"`). `update_item_keys` with a count of 0 changes the key
  of one item.
- An enqueue that was started for a wake-up may still be in progress when its task has
  run, dropped its Waiter and exited; it then puts the exited task into a queue, and when
  that is picked, `exit_current` returns into `unreachable!()`. This is the step to
  `panicked` in `Scheduler`; liveness there is stated up to it.
- A preemption flag can outlive its reason; `might_preempt` then replaces a runnable fair
  task by the idle thread until the next tick.

Of the journal, also: after a crash between the write of a snapshot and that of its
`Version` record, recovery takes that snapshot, which is complete. But a recovery applies
edits only from the `Version` record with its snapshot's MAC on (`should_apply`), and that
record was never written: what is journalled before the next compaction is ignored by a
later recovery. This is the `cut` that `FlushPersistsUnlessCut` excludes.
Further, after a recovery `done_compact` may go below 0, which `used_blocks` follows
modulo `UsizeWrap`; on a disk with a write cache two compactions without a flush can lose
both snapshots, so `RecoverySucceeds` is stated for disks without one. `RawDisk::flush`
in `mlsdisk/src/lib.rs` returns without doing anything: `write_cache` models a block
device whose flush works.

## Proofs

TLAPS proves, for every value of the constants:

| Module | Theorems | Argument |
|---|---|---|
| `MutexProofs` | `MutexInvHolds`, `MutexTyped`, `MutexExcludes`, `NoWakeupIsLost`, `LengthIsExact`, `WakeupIsDelivered` | every step of the queue keeps `QueueInv`, whatever a client does with `CondSome`, `CondNone` and `CallWake`; `MutexInv` builds on it |
| `RwMutexInvariant` | `WordIsAccounted`, `LockTyped`, `GuardsExclude`, `LockRefines` (the word); `RwMutexImplements`, `RwMutexExcludes`, `RwMutexInvHolds`, `RwMutexTyped` (the sleeping lock) | `WordAccounted` is inductive: readers, U, W and BU each belong to a set of threads that will give them back; a step of `RwMutex` is one on the word and one around or inside the queue, so the lemmas about both apply |
| `RwMutexProofs` | `NoSleeperStranded` | `SleepInv`, inductive together with `RwMutexInv` |
| `FutexProofs` | `FutexInvHolds`, `ResultIsTruthful`, `NoWakeIsMissed` | `FutexInv` follows the item of a waiter |
| `LifetimeProofs` | `GracePeriodsHold`, `RcuTyped`, `ReadersAreSafe`, `MonitorImplementsRcu` | a CPU in the mask holds no object of the running grace period; a retired object is in exactly one of the four places |
| | `SnapshotSurvives` | `JournalInv` follows the two snapshot areas |
| | `RefCountHolds`, `FrameTyped`, `MetaIsSafe`, `UnwrapNeverPanics`, `DeadStaysDead` | the frame is in exactly one place, and the place determines the count |
| `SchedulerInvariant`, `SchedulerEnqueues` | lemmas | the invariant `IInv`, and that the steps of a task, of a decision and of an enqueue keep it |
| `SchedulerProofs` | `InvariantHolds`, `ResidenceHolds`, `NoWakeupIsLost`, `SwitchesProceed`, `SchedulerRefines` | the context switch, the induction, and the refinement of `TaskPlaces` |

Each inductive invariant was checked by TLC on the instance of the component's run
before it was proved. What the harder ones add, and why it is needed:

*Mutex.* `NoSleeperOnFreeMutex` is not inductive: it says nothing of a thread that is
about to sleep. `MutexInv` strengthens it to `Responsible`: as long as the mutex is free
and some thread is on its way to sleep without a wakeup, some thread will still look at
the lock or at the queue. A waker passes this on to the thread it wakes; one that pops
the last waker and finds it closed would drop it, and cannot, because `QueueInv` says a
thread without a wakeup is still in the queue or in the hands of another waker, and
because the length that `is_empty` reads lags behind only while a thread is enqueuing,
and that thread is responsible itself.

*RwMutex.* The same idea has to survive attempts that are visible before they fail.
`RwMutexInv` says which thread is undoing what, and that only calls that sleep have a
waiter. `SleepInv` says that while nobody holds a guard and somebody waits, some thread is
`Attending`: bound to try the lock again, or to wake somebody who will. The hard case is
the last guard's drop that finds a transient reader or U bit and wakes nobody. Then the
thread that undoes the attempt has to attend. If it has no waiter yet it enqueues and tries
again. If it has one, it may be on its way to sleep, and this is where `UndoAttended` is
needed: an attempt made by a thread that already waits, and that is not about to be woken,
can only have failed because of a writer or an upgrade, and their drop runs `wake_all`
whatever the word is, or because such a `wake_all` is still under way.

`NoSleeperStranded` has one hypothesis, `Retrying`. Its first half, that nobody calls
`try_read` or `try_upread`, cannot be dropped: with these calls the property is false, as
the run `rwmutex_try` shows. Its second half, that there are no more threads than
`MaxReader`, which is 2^60 in the code, keeps a read from failing for the limit alone.

*Futex.* `NoMissedWake` and `TruthfulResult` speak of a waiter's item, and neither says
where the item may be. `ItemInv` does: a waiter has at most one item, from `add_item`
until a wake counts it or `remove_by_waker` takes it away; it lies in the bucket of the
waiter's address and matches its key, unless a requeue has changed that, which `moved`
records. With this a wake on an address whose value has changed finds every waiter it
must find, and `remove_by_waker` finds the item exactly when no wake has counted it,
unless the item has moved to another bucket.

*EditJournal.* `RecoverySucceeds` says only that recovery never fails. `JournalInv`
says why: while the journal runs both snapshot areas are readable, the version in area 1
is that of area 0 or one more, as `latest_index` says, and at most one area has a write
under way. The index alternates, so the write always goes to the older area. A crash tears
at most that area and leaves the other, or leaves both with versions in step
(`AreasRecoverable`), from which recovery restores both.

*Scheduler.* `SingleResidence` is not inductive either. A task that is picked while
an enqueue holds a stale view of it, or that another CPU is still switching away from,
would end up in two places one step later. `IInv` adds where enqueues may go: to the CPU
the task has been on (`last_cpu`), which never changes once set, and a task that has never
been in a queue has only the enqueue of `run_new_task` (`EnqueueInv`). From this follows
that all that ever happens to a task happens under the lock of one run queue. `RunInv`
ties the run queue to the CPU: it runs its current task, except between decision and
switch; the task it has just left belongs to it. So the next task of a switch cannot be on
another CPU, and `before_switching_to` never spins. `TaskInv` says that the idle threads
neither park nor exit, so that every task that leaves has a successor, and that only a
task with a Waiter parks. The refinement uses `IInv` and the effect of each step on the
run queues: a step claims a task, inserts one, replaces one, or leaves all places alone.

Assumptions on the constants: every CPU has its own idle thread, the only task of the idle
class, and there is at most one stop task (the code creates none); affinities are not empty.
The sets of threads, CPUs and handles are finite; `Closed` and `Nobody` are not threads and
`Null` is not an object; the bounds and `MaxReader` are naturals. Fewer handles exist than
there are illegal values of the reference count (`Cardinality(Handles) < 2 * RefCountMax`);
in the code there are 2^63 of these. `Hash` gives every address a number and there is at
least one bucket; a wait has a bit set that is not empty, which the code requires. The ring
and the write buffer of the journal hold at least one block and one record, and the counter
of used blocks wraps far above the size of the ring.

Only model-checked:

- All liveness (`LockReturns`, `CallReturns`, `EventuallyDropped`, `IdleGivesWay`,
  `PairsProceed`, `WaitersReturn`, `CursorsOpen`): fairness and `ENABLED` are outside the
  reach of the proof system.
- `RecoversPrefix` and `FlushPersistsUnlessCut`: what recovery computes is a fold over the
  records of the chain, and statements about folds over sequences of any length need an
  induction over data that the installed provers cannot do.
- `RangesExclusive` and `LocksMatchTree` of `PageTableLock`, whose sub-trees are defined by
  recursion.

## Not modelled

Architecture support, boot, device drivers and on-disk formats are register and
byte-level I/O. Type-level libraries have no state. The TCP state machine lives in a
library outside the repository. Weak memory behaviour needs a different kind of model.

The frame allocator's lists and caches have sizes in the dozens, and the limits are what
one would check; an instance small enough for TLC does not have them. File range locks
are a sequential algorithm on a list of byte ranges. Processes, job control and the
process table cross several locks each, and a faithful module needs most of the process
crate. Pipes, semaphores and sockets wait in the way `WaitQueue` and `Futex` do; their data
structures are sequential. Of the modelled parts, left out are: preemption guards held
across steps, changes of policy and affinity, and the FIFO scheduler (`Scheduler`); the
order of items in a bucket, page faults on the futex word, robust futexes (`Futex`); I/O
errors without a crash, `add` and `abort` of a group in memory (`EditJournal`); entries
of level 1, page properties, and kernel tables whose top level cannot be unmapped
(`PageTableLock`); segments of frames (`Frame`).
