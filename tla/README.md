# Applesauce: TLA+ models, checks and proofs

Applesauce (a fork of touchHLE) runs 32-bit iPhone OS applications on other systems. It
executes the application's ARM code on an emulated CPU and re-implements libc, Objective-C
and the frameworks on the host ("high-level emulation"). This directory holds TLA+ modules
translated from the Rust source, TLC configurations that check them on small instances, and
proofs checked by TLAPS for every value of the constants. Paths below are relative to `src/src/`
in the repository unless they say otherwise.

Contents: [Inventory](#inventory) - [Modules](#modules-and-the-code-they-stand-for) -
[Runs](#runs) - [Bounds](#bounds) - [Fairness](#fairness) - [Findings](#findings) -
[Proofs](#proofs) - [What is not modelled](#what-is-not-modelled)

## Inventory

Every guest thread is a coroutine on one host thread. Exactly one of them runs at any time: it
executes guest code until it has used up a budget of ticks, calls a host function that blocks,
or ends. Then `Environment::schedule_next_thread` scans the thread table in ring order and the
main loop resumes the thread it returns. There is no data race between guest threads, but
every call that blocks, and every call from host code back into the guest (a `dealloc`, a
timer's callback, an audio callback), is a point where all the shared state may change.

| component | state | operations | interacts with |
|---|---|---|---|
| Guest clock (`guest_clock.rs`) | three anchors and a speed | read, `set_speed`, `host_deadline` | sleeps, timed waits, scheduler, trainer |
| Thread table and contexts (`environment.rs`) | `threads`, `current_thread`, `blocked_by`, CPU and host contexts | `new_thread`, `yield_thread`, `suspend_thread`, `resume_thread`, `switch_thread` | everything that blocks |
| Scheduler (`environment.rs`) | ring position, next awakening, deadlock grace count | `schedule_next_thread` | reads and *changes* mutexes, condition variables and semaphores |
| Host mutexes (`environment/mutex.rs`) | type, owner and count, waiting count, phantom locks | `lock_mutex`, `unlock_mutex`, `relock_unblocked_mutex_for_thread`, `destroy_mutex` | all locks, condition waits, scheduler |
| pthread mutexes (`libc/pthread/mutex.rs`) | magic number and host id in guest memory | init, lock, trylock, unlock, destroy, lazy registration | host mutexes |
| pthread condition variables (`libc/pthread/cond.rs`) | `waiting`, `waking`, `curr_mutex`, `timed_out` | init, wait, timedwait, signal, broadcast, destroy | mutexes, scheduler, clock |
| POSIX semaphores (`libc/semaphore.rs`) | open pointers, names, value, waiter set | init, destroy, open, close, unlink, post, wait, trywait | scheduler |
| pthread threads (`libc/pthread/thread.rs`), Mach threads (`libc/mach/thread_info.rs`) | `joined_by`, detach state, suspension count | create, exit, join, detach, suspend, resume | thread table, scheduler |
| Other locks: `@synchronized` (`objc/synchronization.rs`), NSLock and NSRecursiveLock (`ns_lock.rs`), rwlocks (`libc/pthread/rwlock.rs`) | a table from objects to mutex ids | enter and exit, lock, tryLock, unlock, destroy | host mutexes |
| NSCondition, NSConditionLock (`ns_condition.rs`) | a flag, two queues of threads, a condition | lock, wait, signal, broadcast, conditional lock and unlock | thread table only: they suspend and resume threads themselves |
| Objects (`objc/objects.rs`, `objc/weak.rs`, `ns_autorelease_pool.rs`) | reference counts, weak slots, pool stacks | retain, release, autorelease, weak load and store, drain | allocator, guest `dealloc` |
| Guest memory (`mem.rs`, `mem/allocator.rs`, malloc in `libc/stdlib.rs`) | used and free chunks, zeroing policy | alloc, realloc, free, reserve | everything |
| Run loops and timers (`ns_run_loop.rs`, `ns_timer.rs`, `ns_object.rs`) | timer lists, `stopped`, semaphores of waiting performs | run, add, fire, invalidate, perform, cancel | semaphores, clock, guest callbacks, audio |
| Audio queues (`audio_toolbox/audio_queue.rs`) | `buffer_queue` and OpenAL's queue, running state, microphone | enqueue, prime, start, pause, stop, reset, dispose, two handlers | run loop, OpenAL, guest callbacks |
| pthread_once and keys, operations and dispatch queues, main loop and debugger (`gdb.rs`), loader (`dyld.rs`, `mach_o.rs`), files (`fs.rs`), CPU and ABI, graphics, launchers | | | |

What is hard to test here:

* **A call interrupted by scheduling.** A blocking call checks something, yields, and is
  completed on its behalf by the scheduler *before* it runs again: the scheduler locks the
  mutex or draws the semaphore's token for a thread that other threads may suspend, or whose
  object they may destroy, in between.
* **Host code that calls the guest.** A pass of the run loop, a drain or an audio handler works
  through a list while the guest, called from the middle of it, changes what the list is about.
* **Timeouts.** A timed wait may be signalled, be unable to relock, and expire in one scan.
* **Suspension over blocking.** `thread_suspend` wraps whatever state the thread was in.
* **Contexts.** `switch_thread` moves register and coroutine contexts with `take().unwrap()`:
  one switch that forgets to put a context back panics at some later one.
* **Two copies of one thing.** The guest clock and the host's, the guest's audio queue and
  OpenAL's, weak slots in guest memory and their table on the host.
* **Addresses used again.** Timers, semaphores, objects and pools are known by address.
* **Long histories.** Chunks of the heap are cut, grown and merged under alignment rules.
* **Giving up.** The scheduler decides that the program has deadlocked and panics.

What makes each part correct: the clock neither loses, repeats nor reverses time; a runnable
thread runs and only runnable threads do; locks exclude, and are balanced; a wake-up is the
consequence of what was waited for; tokens are conserved; queues hold exactly the threads
that are blocked; everybody whose deadline or joinee is past goes on; the deadlock panic is
right; reference counts are exactly the references there are; weak slots are known; no byte of
the heap is lost or given twice; a timer is fired by whom it belongs to; the guest's view of
what is playing is OpenAL's. `PROJECT.json` lists the hazards line by line, with the properties
that watch them.

## Modules and the code they stand for

```
MutexState <- ThreadTable <- PthreadMutex <- PthreadCond <-.
                          <- Semaphore  <------------------ Environment <- MCEnvironment <- MCPrograms
Allocator  =implements=> Heap   (abstract)   <- MCHeap -------.
MutexState <- ObjcLocks  =implements=> Locks (abstract) ------ MCServices
GuestClock, AudioQueue, ObjcLifetime, NSCondition, RunLoop ---'

GuestClock, AudioQueue <- HostProofs
Allocator    <- HeapProofs
Environment  <-.
MutexState   <- MutexStateProofs <- LockProofs <- WaitProofs
ObjcLocks, NSCondition <- FoundationLocksProofs  (with MutexStateProofs)
ObjcLifetime <- LifetimeProofs
RunLoop      <- LoopProofs
```

**GuestClock** models `guest_clock.rs`: the anchors, the five speeds, `set_speed_at` and
`host_deadline_at`, with the code that decides by them: `sleep_guest`, the timed condition
wait, the scheduler's comparison of deadlines and its own host sleep. `Tick` is the host's
time. Guest instants are integers in quarters of a host tick, so that no speed needs rounding
(the code has `f64` multipliers on `Duration`s). `ideal` is a history variable: the guest time
that has really elapsed, tick by tick.

**MutexState** has the pure part of `environment/mutex.rs`: what lock, unlock, relock and
destroy do to one host mutex, the phantom locks of a NORMAL mutex that its owner locks again
included.

**ThreadTable** has the thread table, blocking and returning. `ThreadBlock::Suspended(count,
previous)` is kept as a count and a block. `call[t]` is the host function inside which the
coroutine of `t` is suspended, which is the program counter of the Rust coroutine.

**PthreadMutex, PthreadCond, Semaphore** have one action per libc function. The call that
blocks and its return (`ReturnFromLock`, `ReturnFromWait`, `ReturnFromSemWait`) are two
actions, because everything else may happen in between. `holds` and `balance` are history
variables: the locks each thread was told it has, and for each semaphore its initial value
plus posts minus waits that returned success.

**Environment** adds the life cycle of threads, join, detach, sleep, Mach suspension, and the
scheduler, and composes everything. The scan of `schedule_next_thread` is one step per
candidate, with one action per reason to run it (`SchedMutex`, `SchedCondition`,
`SchedTimeout`, ...), one for passing it over, one for a wait's expiry while the mutex is
taken, and, at the end of the ring, the host sleep and the deadlock panic. In these modules a
deadline simply passes at some moment (`TimePasses`); what it is compared with is the
business of GuestClock.

**ObjcLocks** has the other locks made of host mutexes, on the same MutexState: `@synchronized`
with its table of objects, whose mutex is made by the first entry and destroyed by the last exit,
NSLock, NSRecursiveLock, and rwlocks (one mutex for readers and writers). The scheduler appears
as the one thing it does here, relocking a mutex for a waiter, in any order. **Locks** is what
their users rely on: one holder, who holds it as often as it took it. The mapping of `held` is
the owner and count of the mutex the name stands for, as far as the guest knows.

**NSCondition** has the two classes that use no host mutex. `block[t]` is `blocked_by`;
signal, broadcast and unlock overwrite it, as the code does. **CollectedSpec** adds a thread
that suspends and resumes others in the middle of it, as garbage collectors do.

**ObjcLifetime** has the counts, the ARC helpers, weak slots and autorelease pools. A release to
zero pushes a frame and lets the guest's `dealloc` run; the frame ends in `dealloc_object`, which
frees the memory and zeroes the slots. Drains are frames as well, so an object may be released
by a drain inside a dealloc inside a drain, on any thread.

**RunLoop** has timers with their reference counts and passes of `run_run_loop`: the copy of the
timer list, the callbacks, the loop entered again from one of them, `-fire` called by the guest,
`performSelector:onThread:` with its semaphore, and cancellation.

**Allocator** has the two chunk tables and their size buckets, `Mem::alloc`, `realloc` (in place
or by moving), `free`, the zeroing policies, and malloc, calloc, realloc, free, posix_memalign
and valloc over them. Memory is reduced to the set of addresses that may not be zero. **Heap** is
what the guest relies on: the blocks it holds lie in the heap and apart from one another.

**AudioQueue** has playing and recording queues, with both handlers as frames on a stack: each
callback is a step at which the guest may stop, dispose or create queues, or run the run loop
and with it another handler. OpenAL is external and modelled from its 1.1 specification: a
source is initial, playing, paused or stopped; a stopped source reports all its buffers as
processed; stop and pause do nothing to a source that never played.

The guest is a parameter. In Environment `Imports` is the set of functions it calls; it may call
them in any order, from any thread, with any arguments. `Misuse` names the undefined uses it
makes of them: `cross_unlock` (unlock another thread's NORMAL mutex), `cond_reinit` and
`cond_destroy_busy` (initialize, destroy a condition variable in use), `sem_destroy_busy`,
`sem_close_busy`, and `join_main`. In the other modules the guest obeys the rules their header
comments state, and three things it may legitimately do are switched on only in the run that is
about them, because of what they lead to (see [Findings](#findings)): `LoadsWhileDying`,
`ResetsPrimed`, and the suspensions of `CollectedSpec`. What the loader reserves is `Segments` of
Allocator; MCHeap has the layouts. Calls that only return an error code
change nothing and are left out. Panics of the emulator (assertions, unwraps) are states of
Environment: `phase = "panic"`, with the reason in `panic`.

Operators introduced by a comment that begins with "Mutant:" are variants of the next
definition with a plausible bug. No module uses them; for every property some run checks,
one of them makes that run fail (`PROJECT.json`, "mutants").

## Runs

MCPrograms and MCServices are *sums*. A behaviour of MCPrograms is one of eight guest programs
(`program`, chosen at the start), each an instance of Environment with its own `Imports`, `Misuse`
and bounds. A behaviour of MCServices is one of the seven other components, which share no state;
several have more than one instance (`part`), each large in another direction, where one that is
large in all of them would be out of TLC's reach. The constants in a .cfg are the largest of the
instances'. So a state space is the sum of those of its parts and not their product.

| run | configuration | checks |
|---|---|---|
| `programs` | `MCPrograms.cfg` | three threads. Programs `mutexes`, `owners` (all mutex types, lazily registered and initialized mutexes, destroy; in `owners` a thread can block while it owns one): `TypeOK`, `MutualExclusion`, `LocksBalanced`, `WaitersKeepMutexAlive` (without condition waits the waiting count does protect the mutex). `conditions` (plain and timed waits, signal, broadcast, suspension): `WakeupsJustified`, `QueuesExactWithoutReinit` (each waiter is in one queue, once), `TimeoutsPending` (the `timed_out` mark belongs to the wait that expired, so the code's assertions on it hold). `semaphores` (named and unnamed, reopened and unlinked names, suspension): `SemConservation` (no token is lost or given twice), `SemWaitersExact` (what `sem_getvalue` counts). `joins`, `sleeps`, `blocks` (creation, suspended too, exit, join, detach, sleep, suspension, and a semaphore that may be destroyed under a waiter): `RunsOnlyRunnable`, `ContextsConserved`, `DeadlockIsReal`. `live`, under fairness, with a guest that may re-initialize a condition variable in use: `LiveRunnableRuns` (the round robin passes nobody over for ever), `LiveDeadlinesHonoured`, `LiveJoinersReturn` (even when `joined_by` was overwritten by a later joiner) |
| `services` | `MCServices.cfg` | *clock*: `Continuity` (it reads exactly the game time that elapsed, whatever the speed changes), `Lockstep` (monotonic and wall clock advance together), `Monotonic`, `NoEarlyWake`, `SleepsExactly` (the host sleep ends when the next guest deadline is due); *heap*: `ChunksWellFormed` (chunks are disjoint, aligned and of allowed sizes), `AllocFindsRoom` (a request is refused only if no chunk is large enough), `HandedOutZeroed`, `NoBytesLost` (no byte drops out of the two tables), `ImplementsHeap`; *audio*: `QueuesInSync` (OpenAL's queue is a prefix of the guest's), `DevicesOwned` (sources and microphone belong to live queues that use them); *objects*: `RefcountExact`, `DeallocOnce`, `WeakTableExact` (table and slots agree), `PoolsOwnedOnce`; *NSCondition*: `ConditionExclusive`, `CondQueueExact`, `NoLostWakeup` (nobody whose turn it is sleeps on a free lock); *run loops*: `TimersOwned` (a timer's count is the references there are), `OneShotOnce`, `SyncPerformsPaired` (semaphore, timer and waiting thread belong together); *locks*: `SyncTableExact`, `ImplementsLocks` |
| `guest_clock_timedwait`, `waiting_count`, `weak_dying`, `suspended_woken`, `perform_cancelled`, `audio_primed`, `sem_destroyed`, `odd_segment`, `refused_realloc`, `memalign_freed` | | violated; see [Findings](#findings) |

Four properties are checked of some programs or layouts by a passing run and violated by another
run for the rest. `WaitersKeepMutexAlive`: no program destroys mutexes and makes condition waits.
`QueuesInSync`: the guest of `services` resets no primed queue. `ChunksWellFormed`: its segments end
on pages. `HandedOutZeroed`: no free memory is near __PAGEZERO, as in a program that is not slid. So
what the passing runs say of these is that nothing else breaks them.

Deadlock is checked in every run of Environment: `Panicked` is the only state in which nothing
happens any more. In `services`, and in the runs of its components, it is not: a guest may stop
calling, and a bounded one has to. There a wait that never ends is the business of `NoLostWakeup`
and `SyncPerformsReturn`.

Symmetry is used where nothing orders the set. In `services` what is interchangeable shares the model
values `a1`, `a2` (audio queues, timers, weak slots, sleeping threads, threads of NSCondition) and
`b1`, `b2` (audio buffers, objects), so that one group of four permutations serves all parts. Thread
ids of Environment are numbers, and the ring order is what the scheduler is about. No run with
symmetry checks a liveness property.

## Bounds

* `MaxThreads = 3`: one owner, one waiter, and a third that interferes; three is the smallest
  ring in which a thread can be overtaken.
* `MaxMutexes` counts the host mutexes *ever created*, because ids are never reused: 2 in
  `mutexes`, so that a handle can be destroyed and registered again. `MaxCount = 2` is enough
  for one recursive or phantom lock on top of the first.
* `MaxSems = 2` likewise, `MaxValue = 1`: a third thread finds the semaphore empty again.
* `MaxSuspend = 2` for nested suspension, in `joins`; 1 with conditions, semaphores and sleeps.
* Clock: `Durations = {3, 16}`. 3 guest units end within one tick at normal speed and need three
  at a quarter; 16 units need one tick at the highest speed and more than the horizon at the
  lowest. Two sleepers within three ticks (`sleepers`), so that the host sleeps until the first of
  them; sleeps of 16 one at a time within four (`sleeper`), with room for a change of speed
  before, during and after. `Horizon` lets a behaviour stutter at the last tick.
* Heap: an address space of 64 with pages of 8 and chunks of at least 4, of which 40 are below
  the stack. `MCSegments`: one leaves a gap before it that is too small for a chunk and is dropped,
  one of odd size an odd chunk, and one is skipped because the stack is there. Sizes 5 (below a page),
  12 (above) and 61 (more than there is, and over the end when rounded up); three blocks at once. That
  is enough to cut, grow into the neighbour, move, merge on either side and refuse. Where memory is
  zeroed only when it is handed out, one block: whatever it leaves behind dirty can be under the next.
* Audio: one source. One queue at a time with three entries of two buffers (`queue`), of which the
  source may have played none or more; two queues, one of which has to do without the source, with
  one entry each (`queues`) or with two entries of one buffer (`buffer`), and handlers nested in
  each other's callbacks.
* Objects: two threads, objects, pools and slots; two references each; two nested frames per
  thread, so that a drain's release deallocates an object whose dealloc does the same, with one
  slot in use at a time (`objects`); both slots, without nesting and with one live pool (`weak`).
* NSCondition: three threads, conditions 0 and 1: one holds, one waits, one comes first.
* Run loops: main thread and worker. Two timers in two nested runs (`nested`); two that may stand for
  selectors, runs not nested (`performs`); all of it, with one timer alive at a time (`both`).
  `MaxLate = 0`: `Advanced`, which skips missed beats, is checked on its own by an ASSUME of
  MCServices for delays up to 7.
* Locks: three threads, an object of `@synchronized`, an NSRecursiveLock and a rwlock, three mutexes
  ever made, depth 2. There is no NSLock (`NSLocks = {}`): its calls are those of the
  NSRecursiveLock, on a NORMAL mutex like the rwlock's.
* The deadlock grace count runs to the 3 of the code.

Bounds are guards on the operations that would exceed them: a bounded model only takes fewer
steps, so every state TLC visits is a state of the system without the bound.

## Fairness

`FairSpec` (program `live` of run `programs`; `ProgramsFairness` restricts it to that program)
has weak fairness of the scheduler's steps, of the end of a batch of guest code (`Preempt`), of
the return of a call whose thread is running, and of the passing of each deadline. The main loop
of `Environment::run` never stops by itself and always calls the scheduler after a batch; a
batch ends because `remaining_ticks` counts down; a coroutine that is resumed inside a host
function returns from it without waiting for anything; and clocks advance. Nothing is assumed
about what the guest calls, so a thread may hold a mutex for ever, and no property promises a
lock: the code itself says that others "may get access first".

`LoopFairSpec` (run `perform_cancelled`) gives the waiting thread every chance: time passes, a
pass of a run loop goes on, callbacks return, a loop that can end does, a wait returns once its
semaphore is posted, and a thread on which selectors are performed runs its loop again and
again. The main thread does so in every application, and host code does not stop by itself. The
last four are strong fairness, because other threads' steps may disable them in between. The
violation found is thus not one of a system that simply stops.

## Findings

1. **Timed condition waits ignore the game's speed** (`guest_clock_timedwait`). The deadline is
   computed by the guest from its scaled clock and compared with the host's
   `SystemTime::now()` (`environment.rs:3000`), although `guest_clock.rs:100` asks to convert
   a guest deadline before the scheduler compares it. The trace ends a wait before the
   guest's clock has reached the deadline.
2. **A timed-out waiter is not counted** (`waiting_count`). A wait that expires while the mutex
   is taken becomes a mutex waiter (`environment.rs:3032`) without raising `waiting_count`,
   which is there "so that the mutex isn't destroyed" (`environment/mutex.rs:225`). The owner
   can unlock and destroy the mutex, and the relock unwraps a mutex that is gone.
3. **A weak load during dealloc** (`weak_dying`). Slots are zeroed when the memory is freed, after
   the guest's `dealloc` has run (`objc/weak.rs:141`); a reference loaded meanwhile is to an
   object about to be freed. The comment at `objc/weak.rs:112` denies that there is such a state.
4. **NSCondition undoes other threads' suspensions** (`suspended_woken`). It wakes by overwriting
   `blocked_by` (`ns_condition.rs:187`), so a waiter that was suspended with `thread_suspend`
   runs before it is resumed; `environment.rs:226` says that the state is kept until then.
5. **Cancelled performs are waited for** (`perform_cancelled`). Cancelling a target's selectors
   (`ns_run_loop.rs:236`) does not post the semaphores of the threads that wait for them;
   `ns_object.rs:767` says why one must always be posted.
6. **Resetting a primed audio queue** (`audio_primed`). `AudioQueueReset` counts on
   `alSourceStop` to make all buffers processed (`audio_queue.rs:2202`), which it does not for a
   source that never played: the guest's queue is emptied, OpenAL's is not, against the rule
   at `audio_queue.rs:75`. After prime, stop and start, the next stop unwraps an entry of an
   empty queue.

7. **Success without a token** (`sem_destroyed`). A thread that waits for a semaphore which is
   destroyed or closed is woken "so it can return from sem_wait (which fails with EINVAL)"
   (`environment.rs:2946`), but `sem_decrement` returns true after any wake-up
   (`environment.rs:1606`) and `sem_wait` answers success (`libc/semaphore.rs:163`).
8. **Odd segments** (`odd_segment`). `trisect_by` (`mem/allocator.rs:58`) makes the free chunk after
   a reserved segment with `Chunk::new`, which panics if a page or more is left off a page
   boundary. The comment at `mem/allocator.rs:338` expects odd-sized segments and drops rests that
   are too small "rather than panicking"; of rests that are too large it does not think.
9. **A refused realloc writes over free memory** (`refused_realloc`). `Mem::realloc` copies the block
   to wherever `alloc` says (`mem.rs:979`), which is 0 when there is no room, and `memmove` does
   not look at __PAGEZERO. A block larger than that runs over what follows: the program's first
   segment, or, in a program that is slid, free memory. What is given out there next is not
   zero, although memory is "zeroed out on free" (`mem.rs:344`).
10. **Aligned blocks are never freed** (`memalign_freed`). `posix_memalign` keeps the address of
   the allocation before the block "so `free()` can find it again" (`libc/stdlib.rs:222`). `free`
   (`libc/stdlib.rs:353`) does not look there, and ignores the block because its address is
   not the base of an allocation.

Observed while modelling, and let through by the models as by the code, with nothing in the
repository that a run could hold against it: three threads may join each other in a circle
(`pthread_join` looks one step back); `realloc` frees the old block when it finds no room;
`pthread_once` and `dispatch_once` mark themselves done before the routine has run; a signal given
to a thread that then times out is gone; the playing handler keeps `is_running` and its list of
buffers across callbacks, so a callback that stops its queue sees it started again, and buffers of
a disposed queue are still called back.

## Proofs

The theorems hold for any numbers of threads, locks, condition variables, semaphores, objects,
pools and slots, any `Imports`, and any `Misuse` except where a theorem names the one it excludes.
The only assumptions on constants are the named ASSUMEs of the modules (bounds are natural
numbers, at least one thread, mutex types are the code's types, addresses are integers, the
different kinds of locks have different names; pages are multiples of chunks, and stack and
__PAGEZERO are multiples of pages), which TLC evaluates in every run.

**HostProofs.** The clock: `ClockContinuity` (`[]Continuity`), `ClockMonotonic`, `ClockLockstep`.
The inductive invariant `ClockInv` adds the type invariant, and the equality of the two guest
anchors, to continuity. The argument is that elapsed time is linear between changes of speed
(lemma `Elapsed`) and that `SetSpeed` rebases all anchors at one reading of the host clock.
`ClockNoEarlyWake` and `ClockSleepsExactly` are about deadlines. The second rests on
`HostDeadlineExact`: at the host tick `HostDeadline` names the deadline has passed, at every
earlier one it has not, for each of the five speeds (`RoundsUp`).

Audio: `AudioDevicesOwned` without conditions, and `AudioQueuesInSync` for a guest that does not
reset or stop a queue it primed and never started (`~ResetsPrimed`; the run `audio_primed` shows
what happens otherwise). `DeviceInv` has the types; that a queue has only devices of its kind,
and none once it is disposed; that sources in use and queues with a source correspond one to one
(`Owned`); and that a handler of a queue which still exists is of the queue's kind and finds its
source (`GoodHandlers`), which is what the code takes for granted when it goes on after a
callback. `Synced` is the prefix relation itself, for all queues. Every step is shown to be a
`QueueStep`: one queue and its own source change. So it is enough to look at that pair, and the
lemmas about prefixes (`LeadsCut`, `LeadsFill`) say why popping both queues by the same number, and
refilling OpenAL's from where it ends, keeps them in step.

**HeapProofs.** `HeapWellFormed` (`ChunksWellFormed`) and `HeapFindsRoom` (`AllocFindsRoom`), for
segments that end on pages (`SegmentsAligned`); `HeapLosesNoBytes`, `AllocatorImplementsHeap` and
`HeapHandsOutZeroes` for segments that also do not overlap (`SegmentsApart`), because `reserve`
skips a segment that is not inside one free chunk, so of one that overlaps another the rest
would stay in the heap. The code checks neither. Linkers end segments on pages; the run `odd_segment`
shows what happens to others. An ASSUME of MCServices has TLC evaluate both for its segments.

Every operation of Allocator takes some chunks `R` out of the tables and puts pieces `U` (used)
and `F` (free) of them in (`Exchanged`). `Pieces` says what the pieces must be: placed as
`Chunk::new` wants, apart, inside `R`, and large enough to be tracked if free. It is shown once
for each operation: `CarvePieces` for cutting, with and without the extra piece up to the next
page, `GrowExchanges`, `FreeExchanges` for each way to merge or to stay apart, and
`ReserveExchanges`. Rounding is where the arithmetic is: `Euclid`, `RoundUp` and `MultipleSum` are
all that is needed of division. Then `ExchangedGood` preserves `GoodHeap`, the inductive form
of `ChunksWellFormed`, and `ExchangedBytes` keeps the bytes where the pieces make up what they
replace. The search is right because `bucket_for` is monotone in the size (`BucketsMonotone`):
whatever lies in a larger bucket than the request's is large enough.

The other three need to know which chunks are the guest's. `BlockInv` is `Loading` and `Hosted`.
`Loading` says that free chunks are clear of the stack and of every segment reserved so far, that
a segment still to come is inside one free chunk or clear of all, and that nothing is handed out
before the last of them; when it is, free chunks and used ones that are not reserved lie in
`HeapBytes` and are at least MIN_CHUNK_SIZE large (`Ready`). The size matters: `free` drops what is
smaller, which would be a loss of bytes. `Hosted` gives each block a used chunk of its own, that
need not start where the block does (posix_memalign). So blocks in different chunks are apart, and
each step of the guest gives, takes or exchanges at most one (`GuestStep`).

`HandedOutZeroed` follows from `FreeIsZero`: with zero_memory_on_free, no free byte is dirty. One
operation breaks it, the copy of a refused realloc (see above), so the theorem is about behaviours
in which no realloc of a block larger than __PAGEZERO is refused (`CopyPastNull`): a smaller one
is copied into __PAGEZERO, which is never handed out. The run `refused_realloc` shows that the
condition is needed. `HeapLosesNoBytes` is about the tables only: that a chunk nobody can free
any more stays in one of them is finding 10.

**MutexStateProofs.** Lemmas about one host mutex and one thread, from the definitions of
MutexState alone. `OwnerExact(mx, t, h, k)` says that what `t` was told it holds, `h`, and what
was locked for it while it was away, `k`, add up to its share of `mx`: count plus phantom
locks if it is the owner, nothing if it is not. Locked, Unlocked, Relocked and Destroyed are
shown to preserve it, for the thread that calls and for every other.

**LockProofs.** First `RunsOnlyRunnableThreads` and `ContextsAreConserved`, by the inductive
invariant `RunInv`: both properties, and `TableOK`, which says that ids from `threads.len()` on
are neither active, blocked nor suspended, so that a new thread starts in a clean slot. Most
actions touch none of this or only block the current thread and enter the scheduler; the
lemmas about `Yield`, `Panic` and `SwitchTo` say so once each.

Then `MutualExclusionHolds`, `LocksAreBalanced`, `WakeupsAreJustified`. None of the
three is inductive. Their common strengthening `LockInv` has these parts:

* `LockTypes`: the types the other parts need, and an owner's count is at least one;
* `Owners`: `OwnerExact` for each mutex and thread, where `inhand` is 1 for a thread that the
  scheduler has locked the mutex for and that has not returned from its call yet. Without this
  term, the moment between relock and return looks like an owner who holds nothing;
* `Handles`: a valid `pthread_mutex_t` names a live host mutex, no two name the same one, and
  nobody holds an id that has not been given out. It is needed when a static mutex is
  registered, and to exclude two handles to one lock;
* `Links`: the block of a thread fits the call it is in (a thread blocked on mutex *m* is
  inside a lock or a condition wait that returns with *m*); so a wake-up lands in the right
  call;
* `CondLinks`: a condition waiter stands in a queue of its variable and the variable remembers
  the mutex this waiter came with. The next wait may replace `curr_mutex` when both queues are
  empty, and the scheduler relocks `curr_mutex`, not the waiter's own mutex: this is why the
  queues matter to mutual exclusion;
* `Joins`: a joiner is blocked or its joinee is dead.

`Exclusive(m)` restricts the properties to what the code can promise: a NORMAL mutex may be
unlocked by any thread (`cross_unlock`), and re-initializing a condition variable in use cuts
the tie of `CondLinks`. The proof has one lemma per action, grouped by module, and a lemma for
each of the steps the scheduler shares (`RelockFor`).

Last `TypeCorrect`: `[]TypeOK` of the composed specification, relative to `RunInv`
and `LockInv`. `TypeInv` adds what they do not have: the run loop's variables, the semaphores,
and that a thread blocked on a semaphore refers to an existing pointer.

**WaitProofs.** Semaphores: `SemTokensConserved` for every guest, `SemWaitersAreExact` and
`SemWaitsTakeTokens` for one that destroys or closes no semaphore in use (`CarefulWithSems`). For
the others the two are false: a thread that waits for a semaphore which is then destroyed stays
in a set nobody reads and returns success without a token (the run `sem_destroyed`). `SemInv` adds to conservation that an
open address and its host object name each other (`SemTable`), so that a post reaches one balance
only, and that a thread still blocked has drawn nothing (`SemDraws`). `SemQueues` adds to the
waiting sets that nobody waits for a closed address, and that an object without an address
has no waiters left, so that a name opened again starts clean.

Condition variables: `CondQueuesAreExact`, for a guest that re-initializes none in use, and
`TimeoutsArePending`, for every guest. `CondInv` says that each queue is without repetition and no
thread is in both (`Proper`), that who stands in a queue is blocked there (`StandersBlocked`, the
converse of `CondLinks`), and that a mark in `timed_out` belongs to a timed wait on that variable
which is not blocked on it any more. The last is inductive only with the links between block and
call (`WaitLink`): only a blocked timed waiter expires, hence each wait at most once. All of it is relative to `RunInv`,
`LockInv` and `TypeInv`, and to `phase # "panic"`: a panic ends the program in the middle of a
scheduler's step.

The scheduler's panic: `DeadlockPanicIsReal`, for every guest. The scan takes a step per candidate,
so that the clock runs between two of them, and a timeout found on the way changes a block. `ScanInv`
says that everyone passed over so far is still `Stuck` (dead, suspended, waiting for a deadline,
or for something that has not happened), `TimeKeepsStuck` and `TimeoutLockedKeepsStuck` that these
two steps leave it so, and `RingCovers` that a full scan has met every thread.

Waiting counts: `MutexWaitersAreSafe`, for a guest that makes no condition wait (`NoCondCalls`; the
run `waiting_count` shows that it is false with them). `AliveInv` strengthens the property to an
equation: `waiting_count` is the number of threads blocked on the mutex, so that `destroy_mutex`,
which looks only at the count, refuses while there is one.

**FoundationLocksProofs.** `SyncTableIsExact`, and `LocksImplemented`: every step of ObjcLocks is a step
of Locks or leaves the mapped `held` alone. The invariant `TableInv` says that live mutexes and
locks correspond one to one (`TableOwned`), that a blocked thread waits for the mutex its lock has
*now* (`BlockedExact`), that `waiting_count` is the number of threads that wait, and that a mutex of
`@synchronized` exists only while somebody is inside or waits. The count is what the argument
turns on: the last exit may destroy the mutex because `waiting_count` is zero, and this is safe
because then, and only because the count is exact, nobody is blocked on that id.

The conditions: `ConditionLocksExclusive`, by `HoldersInv`: the flag is set iff exactly one
thread was told that it holds the lock. `CondThreadsQueuedOnce`, by `QueueInv`: the three queues
have no repetitions, and each thread is where its call says (`Placed`); a thread woken by time
stays in its queue until it runs and takes itself out, which is why `Placed` has a case for a
thread that is awake and still queued. `NoWakeupIsLost` adds `ConditionWakes` and `LockWakes`: if the
lock is free and somebody is queued who could take it, somebody is coming for it. They are
preserved because every step that frees a lock or changes the condition wakes a thread that
qualifies, and a thread that was woken leaves its round by taking the lock or by queueing behind
a holder. The theorems are about `CondSpec`, without the suspensions by other threads that
`CollectedSpec` adds for finding 4.

**LifetimeProofs.** `DeallocRunsOnce` and `PoolsEmptiedOnce`, without conditions, by `CallInv`: an
object is dying iff exactly one frame of one thread is its dealloc, and a live pool has exactly
one place among the stacks and the frames that drain. `DepthOK` bounds the frames, so that these
sets of places are finite and can be counted. `CountsAreExact`, `WeakSlotsAreExact` and
`HeldObjectsStay` hold for a guest that loads no dying object (`~LoadsWhileDying`), by `RefInv` and
`WeakInv` together: the count is the sum of references held, leaked, in pools and in drains in
progress; who is referred to is not dying; and the table lists each slot once, under the object it
holds. `HeldObjectsStay` is the property the run `weak_dying` violates where the condition is
dropped, so the theorem says that the weak load during a dealloc is the only way to break it.
A third of the module is lemmas on how often a sequence, or a family of them, holds a value, and
how Append, concatenation and cutting change that.

**LoopProofs.** `LoopTimersOwned`, `LoopOneShotOnce` and `LoopSyncPerformsPaired`, by one
invariant, `LoopInv`, because they need one another. `RunsOK` says which frames there can be (a
frame in a callback has a timer, one that sleeps has no copies left). `TimerOK(x)` counts: `Exact`
relates a record to the number of loops, copies and callbacks it has, with a term for references
in hand, so that the retains and releases inside one step can be followed one by one; it also has
why a timer fires once (one that has fired is in its callback or invalid), and it makes
`is_running_callback` the number of callbacks. A dead timer is `FreeTimer`, so its address can be
used again with nothing left that refers to it. `Paired` is the three-way choice behind
`SyncPerformsPaired`, and `Awaited` says that the waiter keeps its reference to the timer of its
entry: without it, another timer at the same address could be taken for the one waited for.
Each step changes one frame of one thread (`FrameStep`), and `FrameMoves` turns that into how the
counts of a timer move; every action is a few lines over these.

Only model-checked, on the instances above: the liveness properties (`RunnableRuns`,
`DeadlinesHonoured`, `JoinersReturn`, with the prefix `Live` where only one program of the sum is
meant) and `SyncPerformsReturn`, because TLAPS does not reason about fairness and ENABLED.
Every other property of a passing run is a theorem, under the conditions named;
`QueuesExactWithoutReinit` is the theorem's `CondQueuesExact` for the programs that meet its condition.

That `Without`, the model of `retain`, filters a queue is an ASSUME of MCEnvironment that TLC
evaluates on all queues of up to three threads. No module here declares a RECURSIVE operator.

## What is not modelled

* Of threads: attributes, names, priorities and cancellation; return values of start routines;
  stacks and registers (a context is either there or not). `pthread_cond_timedwait_relative_np`,
  which rounds to whole seconds and calls the timed wait; Mach semaphores, which forward to the
  POSIX ones; the width of a semaphore's value, which stays far below 2^31.
* The guest's reads and writes of the memory of a mutex, condition variable or block other than
  through libc; `reallocf` and the malloc zones, which forward to the modelled functions.
* pthread_once and keys: a flag set before a call, and a table of values per thread.
* Operations and dispatch queues run their work in place, inside the call that enqueues it: no
  queue ever holds anything, and what is left is call nesting.
* Main loop and debugger: stepping and `WaitingForDebugger` depend on packets that GDB, which is
  not part of the repository, sends. Batches, preemption and burial are in Environment.
* What else a pass of the run loop polls: events, display links, ports, and the audio handlers,
  which AudioQueue has without the loop around them. In AudioQueue: parameters, property
  listeners, offline rendering, decoding; and the address of a disposed queue is not given
  out again while one of its handlers is active.
* Classes and message dispatch: tables that grow while binaries are loaded and are looked up
  afterwards. Load order is decided once, before any thread exists.
* Instruction execution, ABI, Mach-O parsing, OpenGL ES translation, windows, drawing, text,
  XML, media decoding and file contents, which make up most of the source by lines, are data
  transformation or host I/O: a call's effect is a function of its arguments, with little state
  of its own to interleave, and a model of it would restate it. The share of the lines that the
  map covers is therefore small, and will stay so. The launchers, the compatibility database
  and the trainer's windows are programs of their own.
