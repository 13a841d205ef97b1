---------------------------- MODULE NSCondition -----------------------------
(***************************************************************************)
(* NSCondition and NSConditionLock (foundation/ns_condition.rs): one       *)
(* object of each.  They are not built on the host mutexes: a thread that  *)
(* has to wait puts itself in a queue of the object and suspends itself,   *)
(* or sleeps; whoever wakes it sets its blocked_by to NotBlocked.          *)
(*                                                                         *)
(* Guest threads are interleaved between calls and where a call blocks;    *)
(* a call runs without interruption otherwise.  The guest unlocks and      *)
(* waits only when it holds the lock.                                      *)
(***************************************************************************)
EXTENDS Integers, Sequences, FiniteSets, SequencesExt

CONSTANTS
  CondThreads,   \* guest threads
  Conditions,    \* values of NSConditionLock's condition; the first one is 0
  Uses           \* the classes the guest uses, of NSCondition, NSConditionLock

ASSUME CondAssumption ==
  /\ Conditions \subseteq Nat /\ 0 \in Conditions
  /\ Uses \subseteq {"NSCondition", "NSConditionLock"}

VARIABLES
  block,         \* Thread::blocked_by of each thread: [count, sleeps]
  at,            \* where each thread is inside a call: [fn, cond]
  locked,        \* NSConditionHostObject::locked
  lock_waiting_threads,
  waiting_threads,
  lock,          \* NSConditionLockHostObject: [locked, condition, waiting]
  holder,        \* history: the classes whose lock each thread was given
  stopped        \* history: suspensions by the collector not yet resumed

condVars == <<block, at, locked, lock_waiting_threads, waiting_threads, lock, holder,
              stopped>>

(* blocked_by: Suspended(count, _) when count > 0, around Sleeping or       *)
(* NotBlocked.                                                             *)
Awake == [count |-> 0, sleeps |-> FALSE]
SelfSuspended == [count |-> 1, sleeps |-> FALSE]
Sleeping == [count |-> 0, sleeps |-> TRUE]

AnyCond == -1                  \* lock waits for no particular condition
Idle == [fn |-> "none", cond |-> AnyCond]
At(fn, cond) == [fn |-> fn, cond |-> cond]

Runs(t) == block[t] = Awake
Calls(t, class) == class \in Uses /\ Runs(t) /\ at[t] = Idle

Wake(blocks, threads) == [t \in CondThreads |-> IF t \in threads THEN Awake ELSE blocks[t]]

(* position() and remove(): the first of these places of a queue, and the   *)
(* queue without it.                                                       *)
FirstIn(places) == {i \in places : \A j \in places : i <= j}

WithoutPlaces(queue, places) ==
  IF places = {} THEN queue ELSE RemoveAt(queue, CHOOSE i \in places : TRUE)

FirstOf(queue) == IF queue = <<>> THEN {} ELSE {Head(queue)}
RestOf(queue) == IF queue = <<>> THEN <<>> ELSE Tail(queue)

-----------------------------------------------------------------------------
(* NSCondition *)

Keeps == UNCHANGED <<lock, stopped>>

(* One round of the loop in -lock: take the lock or queue up.  t's block   *)
(* is NotBlocked until suspend_thread.                                     *)
LockRound(t) ==
  /\ locked' = TRUE
  /\ IF ~locked
     THEN /\ holder' = [holder EXCEPT ![t] = @ \cup {"NSCondition"}]
          /\ at' = [at EXCEPT ![t] = Idle]
          /\ UNCHANGED <<block, lock_waiting_threads>>
     ELSE /\ lock_waiting_threads' = Append(lock_waiting_threads, t)
          /\ block' = [block EXCEPT ![t] = SelfSuspended]
          /\ at' = [at EXCEPT ![t] = At("lock", AnyCond)]
          /\ UNCHANGED holder

Condition_lock(t) ==
  /\ Calls(t, "NSCondition") /\ "NSCondition" \notin holder[t]
  /\ LockRound(t)
  /\ UNCHANGED waiting_threads /\ Keeps

(* The part of -unlock, -wait and -waitUntilDate: that gives up the lock:  *)
(* the first thread in the queue is woken.                                 *)
GiveUp(t, blocks) ==
  /\ locked' = FALSE
  /\ lock_waiting_threads' = RestOf(lock_waiting_threads)
  /\ block' = Wake(blocks, FirstOf(lock_waiting_threads))
  /\ holder' = [holder EXCEPT ![t] = @ \ {"NSCondition"}]

Condition_unlock(t) ==
  /\ Calls(t, "NSCondition") /\ "NSCondition" \in holder[t]
  /\ GiveUp(t, block)
  /\ UNCHANGED <<at, waiting_threads>> /\ Keeps

Condition_wait(t) ==
  /\ Calls(t, "NSCondition") /\ "NSCondition" \in holder[t]
  /\ waiting_threads' = Append(waiting_threads, t)
  /\ GiveUp(t, [block EXCEPT ![t] = SelfSuspended])
  /\ at' = [at EXCEPT ![t] = At("wait", AnyCond)]
  /\ Keeps

Condition_waitUntilDate(t) ==
  /\ Calls(t, "NSCondition") /\ "NSCondition" \in holder[t]
  /\ waiting_threads' = Append(waiting_threads, t)
  /\ GiveUp(t, [block EXCEPT ![t] = Sleeping])
  /\ at' = [at EXCEPT ![t] = At("waitUntilDate", AnyCond)]
  /\ Keeps

(* A thread that was woken goes on: out of -wait, or round the loop of     *)
(* -lock.                                                                  *)
Condition_resumes(t) ==
  /\ Runs(t) /\ at[t].fn \in {"lock", "wait"}
  /\ LockRound(t)
  /\ UNCHANGED waiting_threads /\ Keeps

(* Mutant: a thread that times out stays in the queue. *)
Condition_wakes_queued(t) ==
  /\ Runs(t) /\ at[t].fn = "waitUntilDate"
  /\ LockRound(t)
  /\ UNCHANGED waiting_threads /\ Keeps

(* Out of the sleep of -waitUntilDate: a thread still in the queue timed   *)
(* out.                                                                    *)
Condition_wakes(t) ==
  /\ Runs(t) /\ at[t].fn = "waitUntilDate"
  /\ waiting_threads' = WithoutPlaces(waiting_threads,
       FirstIn({i \in DOMAIN waiting_threads : waiting_threads[i] = t}))
  /\ LockRound(t)
  /\ Keeps

Condition_signal(t) ==
  /\ Calls(t, "NSCondition")
  /\ waiting_threads' = RestOf(waiting_threads)
  /\ block' = Wake(block, FirstOf(waiting_threads))
  /\ UNCHANGED <<at, locked, lock_waiting_threads, holder>> /\ Keeps

Condition_broadcast(t) ==
  /\ Calls(t, "NSCondition")
  /\ waiting_threads' = <<>>
  /\ block' = Wake(block, ToSet(waiting_threads))
  /\ UNCHANGED <<at, locked, lock_waiting_threads, holder>> /\ Keeps

-----------------------------------------------------------------------------
(* NSConditionLock *)

KeepsCondition == UNCHANGED <<locked, lock_waiting_threads, waiting_threads, stopped>>

(* Mutant: whether the lock is free is not checked. *)
TakesWhenMatching(cond) == cond \in {AnyCond, lock.condition}

Takes(cond) == ~lock.locked /\ cond \in {AnyCond, lock.condition}

Take(t) ==
  /\ lock' = [lock EXCEPT !.locked = TRUE]
  /\ holder' = [holder EXCEPT ![t] = @ \cup {"NSConditionLock"}]
  /\ at' = [at EXCEPT ![t] = Idle]
  /\ UNCHANGED block

Queue(t, fn, cond, blocks) ==
  /\ lock' = [lock EXCEPT !.waiting = Append(@, <<t, cond>>)]
  /\ block' = [block EXCEPT ![t] = blocks]
  /\ at' = [at EXCEPT ![t] = At(fn, cond)]
  /\ UNCHANGED holder

(* -lock and -lockWhenCondition: *)
Lock_lockWhenCondition(t, cond) ==
  /\ \/ Calls(t, "NSConditionLock") /\ "NSConditionLock" \notin holder[t]
     \/ Runs(t) /\ at[t] = At("lockWhenCondition", cond)
  /\ IF Takes(cond) THEN Take(t)
     ELSE Queue(t, "lockWhenCondition", cond, SelfSuspended)
  /\ KeepsCondition

(* -lockWhenCondition:beforeDate:, the call and each round of its loop; a  *)
(* thread that slept first leaves the queue if nobody took it out.         *)
Lock_lockBeforeDate(t, cond) ==
  LET left == WithoutPlaces(lock.waiting,
                FirstIn({i \in DOMAIN lock.waiting : lock.waiting[i][1] = t}))
  IN
  /\ \/ Calls(t, "NSConditionLock") /\ "NSConditionLock" \notin holder[t]
     \/ Runs(t) /\ at[t] = At("lockBeforeDate", cond)
  /\ \/ /\ Takes(cond)
        /\ lock' = [lock EXCEPT !.locked = TRUE, !.waiting = left]
        /\ holder' = [holder EXCEPT ![t] = @ \cup {"NSConditionLock"}]
        /\ at' = [at EXCEPT ![t] = Idle]
        /\ UNCHANGED block
     \/ /\ ~Takes(cond)            \* the date has passed
        /\ lock' = [lock EXCEPT !.waiting = left]
        /\ at' = [at EXCEPT ![t] = Idle]
        /\ UNCHANGED <<block, holder>>
     \/ /\ ~Takes(cond)            \* the date has not passed
        /\ lock' = [lock EXCEPT !.waiting = Append(left, <<t, cond>>)]
        /\ block' = [block EXCEPT ![t] = Sleeping]
        /\ at' = [at EXCEPT ![t] = At("lockBeforeDate", cond)]
        /\ UNCHANGED holder
  /\ KeepsCondition

(* -tryLock and -tryLockWhenCondition: *)
Lock_tryLock(t, cond) ==
  /\ Calls(t, "NSConditionLock") /\ "NSConditionLock" \notin holder[t]
  /\ Takes(cond) /\ Take(t)
  /\ KeepsCondition

(* Mutant: whoever is first is woken, whatever it waits for. *)
AnyWaiter(cond) == DOMAIN lock.waiting

(* The places in the queue that wait for any condition or for this one. *)
MatchingWaiters(cond) ==
  {i \in DOMAIN lock.waiting : lock.waiting[i][2] \in {AnyCond, cond}}

(* -unlock (with the condition it has) and -unlockWithCondition: wake the  *)
(* first thread that waits for any condition or for this one.              *)
Lock_unlockWithCondition(t, cond) ==
  LET first == FirstIn(MatchingWaiters(cond)) IN
  /\ Calls(t, "NSConditionLock") /\ "NSConditionLock" \in holder[t]
  /\ lock' = [locked |-> FALSE, condition |-> cond,
              waiting |-> WithoutPlaces(lock.waiting, first)]
  /\ block' = Wake(block, {lock.waiting[i][1] : i \in first})
  /\ holder' = [holder EXCEPT ![t] = @ \ {"NSConditionLock"}]
  /\ UNCHANGED at /\ KeepsCondition

-----------------------------------------------------------------------------
(* The scheduler ends a sleep at its deadline; the deadline is left open.  *)
SleepEnds(t) ==
  /\ block[t] = Sleeping
  /\ block' = [block EXCEPT ![t] = Awake]
  /\ UNCHANGED <<at, locked, lock_waiting_threads, waiting_threads, lock, holder, stopped>>

(* thread_suspend and thread_resume by a collector that stops the world:   *)
(* each thread once, and only to start it again.                           *)
thread_suspend(t) ==
  /\ ~stopped[t]
  /\ block' = [block EXCEPT ![t].count = @ + 1]
  /\ stopped' = [stopped EXCEPT ![t] = TRUE]
  /\ UNCHANGED <<at, locked, lock_waiting_threads, waiting_threads, lock, holder>>

thread_resume(t) ==
  /\ stopped[t]
  /\ block' = [block EXCEPT ![t] = IF @.count > 0 THEN [@ EXCEPT !.count = @ - 1] ELSE @]
  /\ stopped' = [stopped EXCEPT ![t] = FALSE]
  /\ UNCHANGED <<at, locked, lock_waiting_threads, waiting_threads, lock, holder>>

CondInit ==
  /\ block = [t \in CondThreads |-> Awake]
  /\ at = [t \in CondThreads |-> Idle]
  /\ locked = FALSE
  /\ lock_waiting_threads = <<>>
  /\ waiting_threads = <<>>
  /\ lock \in [locked : {FALSE}, condition : Conditions, waiting : {<<>>}]
  /\ holder = [t \in CondThreads |-> {}]
  /\ stopped = [t \in CondThreads |-> FALSE]

CondNext ==
  \E t \in CondThreads :
    \/ Condition_lock(t) \/ Condition_unlock(t)
    \/ Condition_wait(t) \/ Condition_waitUntilDate(t)
    \/ Condition_resumes(t) \/ Condition_wakes(t)
    \/ Condition_signal(t) \/ Condition_broadcast(t)
    \/ \E cond \in Conditions \cup {AnyCond} :
         Lock_lockWhenCondition(t, cond) \/ Lock_tryLock(t, cond)
    \/ \E cond \in Conditions :
         Lock_lockBeforeDate(t, cond) \/ Lock_unlockWithCondition(t, cond)
    \/ SleepEnds(t)

CondSpec == CondInit /\ [][CondNext]_condVars

(* The same guest with a collector among its threads. *)
CollectedNext ==
  CondNext \/ \E t \in CondThreads : thread_suspend(t) \/ thread_resume(t)

CollectedSpec == CondInit /\ [][CollectedNext]_condVars

-----------------------------------------------------------------------------
(* Properties. *)

(* `locked` has no owner, and a woken thread competes with newcomers: still *)
(* each lock is held by exactly the one thread that was given it, or free. *)
ConditionExclusive ==
  /\ Cardinality({t \in CondThreads : "NSCondition" \in holder[t]})
       = IF locked THEN 1 ELSE 0
  /\ Cardinality({t \in CondThreads : "NSConditionLock" \in holder[t]})
       = IF lock.locked THEN 1 ELSE 0

Queued(t) ==
  Cardinality({i \in DOMAIN lock_waiting_threads : lock_waiting_threads[i] = t})
  + Cardinality({i \in DOMAIN waiting_threads : waiting_threads[i] = t})
  + Cardinality({i \in DOMAIN lock.waiting : lock.waiting[i][1] = t})

(* Every blocked thread is in exactly one queue, so someone can wake it; a *)
(* thread in no call is in none, so a wake-up meant for a waiter is never  *)
(* spent on a thread that has left.                                        *)
CondQueueExact ==
  \A t \in CondThreads :
    /\ Queued(t) <= 1
    /\ ~Runs(t) => Queued(t) = 1
    /\ at[t] = Idle => Queued(t) = 0

(* No wake-up is lost: while a lock is free and a queued thread could take *)
(* it, some woken thread that could take it is on its way.                 *)
NoLostWakeup ==
  /\ ~locked /\ lock_waiting_threads # <<>> =>
       \E t \in CondThreads : Runs(t) /\ at[t].fn \in {"lock", "wait", "waitUntilDate"}
  /\ (\E i \in DOMAIN lock.waiting : Takes(lock.waiting[i][2])) =>
       \E t \in CondThreads : /\ Runs(t)
                              /\ at[t].fn \in {"lockWhenCondition", "lockBeforeDate"}
                              /\ Takes(at[t].cond)

(* What environment.rs:225 says of a suspended thread: its state is        *)
(* restored upon resuming, so until then it does not run.                  *)
StoppedStaysStopped == \A t \in CondThreads : stopped[t] => ~Runs(t)
=============================================================================
