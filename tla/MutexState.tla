----------------------------- MODULE MutexState -----------------------------
(***************************************************************************)
(* One host mutex (src/environment/mutex.rs) as a value, and what          *)
(* init_mutex, lock_mutex, unlock_mutex, destroy_mutex and the scheduler's *)
(* relock do to it.  The thread effects of these methods (blocking, the    *)
(* error code) are in PthreadMutex and Environment.                        *)
(***************************************************************************)
EXTENDS Integers

CONSTANT MaxThreads      \* bound: threads ever created, the main thread included

ASSUME MaxThreadsAssumption == MaxThreads \in Nat \ {0}

Thread == 0 .. MaxThreads - 1
NoThread == -1

MutexType == {"NORMAL", "ERRORCHECK", "RECURSIVE"}

(* Mutex { type_, waiting_count, locked, phantom_locks }.  `locked` is the  *)
(* pair (owner, count); owner = NoThread stands for None.  `live` tells    *)
(* whether MutexState::mutexes has an entry for the id.                    *)
Mutex ==
  [live : BOOLEAN, type : MutexType, owner : Thread \cup {NoThread}, count : Nat,
   waiting_count : Nat, phantom : [Thread -> Nat]]

FreshMutex(type) ==
  [live |-> TRUE, type |-> type, owner |-> NoThread, count |-> 0,
   waiting_count |-> 0, phantom |-> [t \in Thread |-> 0]]

NoMutexYet == [FreshMutex("NORMAL") EXCEPT !.live = FALSE]

(* mutex_is_locked: an id without a mutex counts as unlocked. *)
IsLocked(mx) == mx.live /\ mx.owner # NoThread

-----------------------------------------------------------------------------
(* lock_mutex *)

(* Mutant: a recursive mutex is counted up whoever owns it. *)
LockBlocksUnlessRecursive(mx, t) == mx.owner \notin {NoThread, t} /\ mx.type # "RECURSIVE"

LockBlocks(mx, t) == mx.owner \notin {NoThread, t}

LockFails(mx, t) == mx.owner = t /\ mx.type = "ERRORCHECK"

(* Mutant: a second lock by the owner of a NORMAL mutex is not counted. *)
LockedWithoutPhantom(mx, t) ==
  IF mx.owner = NoThread THEN [mx EXCEPT !.owner = t, !.count = 1]
  ELSE IF mx.owner # t THEN [mx EXCEPT !.waiting_count = @ + 1]
  ELSE IF mx.type = "RECURSIVE" THEN [mx EXCEPT !.count = @ + 1]
  ELSE mx

(* Mutant: a blocking lock does not raise waiting_count. *)
LockedUncounted(mx, t) ==
  IF mx.owner = NoThread THEN [mx EXCEPT !.owner = t, !.count = 1]
  ELSE IF mx.owner # t THEN mx
  ELSE IF mx.type = "NORMAL" THEN [mx EXCEPT !.phantom[t] = @ + 1]
  ELSE IF mx.type = "RECURSIVE" THEN [mx EXCEPT !.count = @ + 1]
  ELSE mx

(* The mutex after t's call: taken, counted once more, given a phantom lock *)
(* (NORMAL, where iOS would deadlock), left alone (EDEADLK), or with one   *)
(* more waiter.                                                            *)
Locked(mx, t) ==
  IF mx.owner = NoThread THEN [mx EXCEPT !.owner = t, !.count = 1]
  ELSE IF mx.owner # t THEN [mx EXCEPT !.waiting_count = @ + 1]
  ELSE IF mx.type = "NORMAL" THEN [mx EXCEPT !.phantom[t] = @ + 1]
  ELSE IF mx.type = "RECURSIVE" THEN [mx EXCEPT !.count = @ + 1]
  ELSE mx

-----------------------------------------------------------------------------
(* unlock_mutex *)

(* EPERM: nothing to unlock, or another thread's checked mutex. *)
UnlockFails(mx, t) ==
  /\ mx.phantom[t] = 0
  /\ \/ mx.owner = NoThread
     \/ mx.owner # t /\ mx.type # "NORMAL"

(* Mutant: the phantom count is lowered without a look at it. *)
UnlockedPhantom(mx, t) ==
  IF mx.type = "NORMAL" THEN [mx EXCEPT !.phantom[t] = @ - 1]
  ELSE IF mx.count = 1 THEN [mx EXCEPT !.owner = NoThread, !.count = 0]
  ELSE [mx EXCEPT !.count = @ - 1]

(* A phantom lock is consumed before the real one is touched. *)
Unlocked(mx, t) ==
  IF mx.phantom[t] > 0 THEN [mx EXCEPT !.phantom[t] = @ - 1]
  ELSE IF mx.count = 1 THEN [mx EXCEPT !.owner = NoThread, !.count = 0]
  ELSE [mx EXCEPT !.count = @ - 1]

-----------------------------------------------------------------------------
(* relock_unblocked_mutex_for_thread *)
Relocked(mx, t) ==
  [mx EXCEPT !.owner = t, !.count = 1,
             !.waiting_count = IF @ > 0 THEN @ - 1 ELSE @]

(* destroy_mutex answers EBUSY for a mutex that is held or waited for. *)
DestroyFails(mx) == mx.owner # NoThread \/ mx.waiting_count # 0

Destroyed(mx) == [mx EXCEPT !.live = FALSE]
=============================================================================
