------------------------------ MODULE ObjcLocks -----------------------------
(***************************************************************************)
(* The locks built on the host mutexes besides pthread_mutex_t:            *)
(* @synchronized (objc/synchronization.rs), which makes a mutex for an     *)
(* object when a thread enters and destroys it when the last one has left; *)
(* NSLock and NSRecursiveLock (ns_lock.rs); pthread_rwlock_t (rwlock.rs),  *)
(* one mutex for readers and writers.                                      *)
(*                                                                         *)
(* The guest unlocks and frees only locks it holds, as their documentation *)
(* demands; @synchronized answers an error instead, and the guest may try. *)
(***************************************************************************)
EXTENDS MutexState, FiniteSets

CONSTANTS
  SyncObjects,     \* objects used with @synchronized
  NSLocks, NSRecursiveLocks,
  RwLocks,         \* statically initialized rwlocks
  MaxIds,          \* bound: host mutexes ever made
  MaxDepth         \* bound: how often one thread holds a lock

(* A name stands for a lock, not for the object it is kept in: the mutexes *)
(* of @synchronized are in a table of their own.                           *)
ASSUME LocksAssumption ==
  /\ MaxIds \in Nat /\ MaxDepth \in Nat
  /\ SyncObjects \cap (NSLocks \cup NSRecursiveLocks \cup RwLocks) = {}

LockNames == SyncObjects \cup NSLocks \cup NSRecursiveLocks \cup RwLocks

VARIABLES
  mutexes,      \* MutexState::mutexes
  mutex_count,  \* MutexState::mutex_count: ids are never used again
  mutexOf,      \* the id of each lock's mutex; see NoMutex, Static
  blockedOn     \* blocked_by of each thread: [lock, id] of Mutex(id), or NoBlock

lockVars == <<mutexes, mutex_count, mutexOf, blockedOn>>

NoMutex == 0    \* no entry in sync_mutexes; no such object; a destroyed rwlock
Static == -1    \* an rwlock with the static magic

NoBlock == [lock |-> "none", id |-> NoMutex]

ThreadRuns(t) == blockedOn[t] = NoBlock

MutexFor(l) == mutexes[mutexOf[l]]

(* The lock l is held by nobody and nobody waits for it. *)
Unused(l) ==
  /\ mutexOf[l] > 0 => MutexFor(l).owner = NoThread
  /\ \A t \in Thread : blockedOn[t].lock # l

-----------------------------------------------------------------------------
(* lock_mutex on the mutex mx of lock l, whose id is `id`. *)
LockOn(t, l, id, mx) ==
  /\ mx.count + mx.phantom[t] < MaxDepth
  /\ mutexes' = [mutexes EXCEPT ![id] = Locked(mx, t)]
  /\ blockedOn' = IF LockBlocks(mx, t)
                    THEN [blockedOn EXCEPT ![t] = [lock |-> l, id |-> id]] ELSE blockedOn

(* The mutex a call finds or registers: objc_sync_enter, and               *)
(* check_or_register_rwlock.                                               *)
LockOrRegister(t, l, type) ==
  IF mutexOf[l] > 0
    THEN LockOn(t, l, mutexOf[l], MutexFor(l)) /\ UNCHANGED <<mutex_count, mutexOf>>
    ELSE /\ mutex_count < MaxIds
         /\ mutex_count' = mutex_count + 1
         /\ mutexOf' = [mutexOf EXCEPT ![l] = mutex_count + 1]
         /\ LockOn(t, l, mutex_count + 1, FreshMutex(type))

objc_sync_enter(t, o) ==
  ThreadRuns(t) /\ LockOrRegister(t, o, "RECURSIVE")

(* Mutant: threads that wait for the mutex are not looked at. *)
LastLeaves(mx) == mx.count = 0

(* The last thread left and destroy_mutex succeeds. *)
MutexEnds(mx) == mx.count = 0 /\ ~DestroyFails(mx)

(* After the last unlock the mutex is destroyed, unless somebody waits for *)
(* it; only then is the entry removed.  The thread that does not hold the  *)
(* lock gets an error.                                                     *)
objc_sync_exit(t, o) ==
  /\ ThreadRuns(t) /\ mutexOf[o] > 0
  /\ ~UnlockFails(MutexFor(o), t)
  /\ LET mx   == Unlocked(MutexFor(o), t)
         gone == MutexEnds(mx)
     IN /\ mutexes' = [mutexes EXCEPT ![mutexOf[o]] = IF gone THEN Destroyed(mx) ELSE mx]
        /\ mutexOf' = [mutexOf EXCEPT ![o] = IF gone THEN NoMutex ELSE @]
  /\ UNCHANGED <<mutex_count, blockedOn>>

-----------------------------------------------------------------------------
(* NSLock, NSRecursiveLock *)

LockTypeOf(l) == IF l \in NSRecursiveLocks THEN "RECURSIVE" ELSE "NORMAL"

LockObjects == NSLocks \cup NSRecursiveLocks

(* alloc; for an rwlock pthread_rwlock_init of one that was destroyed *)
NewLock(t, l) ==
  /\ ThreadRuns(t) /\ mutexOf[l] = NoMutex
  /\ mutex_count < MaxIds
  /\ mutex_count' = mutex_count + 1
  /\ mutexOf' = [mutexOf EXCEPT ![l] = mutex_count + 1]
  /\ mutexes' = [mutexes EXCEPT ![mutex_count + 1] = FreshMutex(LockTypeOf(l))]
  /\ UNCHANGED blockedOn

NSLock_lock(t, l) ==
  /\ ThreadRuns(t) /\ mutexOf[l] > 0
  /\ LockOn(t, l, mutexOf[l], MutexFor(l))
  /\ UNCHANGED <<mutex_count, mutexOf>>

(* tryLock refuses whenever the mutex is locked, also to its owner. *)
NSLock_tryLock(t, l) ==
  /\ ThreadRuns(t) /\ mutexOf[l] > 0 /\ ~IsLocked(MutexFor(l))
  /\ LockOn(t, l, mutexOf[l], MutexFor(l))
  /\ UNCHANGED <<mutex_count, mutexOf>>

(* -unlock and pthread_rwlock_unlock *)
UnlockOwn(t, l) ==
  /\ ThreadRuns(t) /\ mutexOf[l] > 0 /\ MutexFor(l).owner = t
  /\ mutexes' = [mutexes EXCEPT ![mutexOf[l]] = Unlocked(@, t)]
  /\ UNCHANGED <<mutex_count, mutexOf, blockedOn>>

(* dealloc of an NSLock, pthread_rwlock_destroy *)
FreeUnused(t, l) ==
  /\ ThreadRuns(t) /\ mutexOf[l] > 0 /\ Unused(l)
  /\ mutexes' = [mutexes EXCEPT ![mutexOf[l]] = Destroyed(@)]
  /\ mutexOf' = [mutexOf EXCEPT ![l] = NoMutex]
  /\ UNCHANGED <<mutex_count, blockedOn>>

-----------------------------------------------------------------------------
(* pthread_rwlock_rdlock and _wrlock; the try variants. *)

RwLockUsable(l) == mutexOf[l] # NoMutex

rwlock_lock(t, l) ==
  /\ ThreadRuns(t) /\ RwLockUsable(l)
  /\ LockOrRegister(t, l, "NORMAL")

rwlock_trylock(t, l) ==
  /\ ThreadRuns(t) /\ RwLockUsable(l)
  /\ mutexOf[l] > 0 => ~IsLocked(MutexFor(l))
  /\ LockOrRegister(t, l, "NORMAL")

-----------------------------------------------------------------------------
(* Mutant: the mutex is taken whether it is free or not. *)
LockScheduledAnyway(t) ==
  /\ ~ThreadRuns(t)
  /\ mutexes' = [mutexes EXCEPT ![blockedOn[t].id] = Relocked(@, t)]
  /\ blockedOn' = [blockedOn EXCEPT ![t] = NoBlock]
  /\ UNCHANGED <<mutex_count, mutexOf>>

(* The scheduler lets a thread blocked on an unlocked mutex go on, having   *)
(* locked the mutex for it.                                                *)
LockScheduled(t) ==
  /\ ~ThreadRuns(t) /\ ~IsLocked(mutexes[blockedOn[t].id])
  /\ mutexes' = [mutexes EXCEPT ![blockedOn[t].id] = Relocked(@, t)]
  /\ blockedOn' = [blockedOn EXCEPT ![t] = NoBlock]
  /\ UNCHANGED <<mutex_count, mutexOf>>

ObjcLocksInit ==
  /\ mutexes = [id \in 1 .. MaxIds |-> NoMutexYet]
  /\ mutex_count = 0
  /\ mutexOf = [l \in LockNames |-> IF l \in RwLocks THEN Static ELSE NoMutex]
  /\ blockedOn = [t \in Thread |-> NoBlock]

ObjcLocksNext ==
  \E t \in Thread :
    \/ \E o \in SyncObjects : objc_sync_enter(t, o) \/ objc_sync_exit(t, o)
    \/ \E l \in LockObjects : NSLock_lock(t, l) \/ NSLock_tryLock(t, l)
    \/ \E l \in RwLocks : rwlock_lock(t, l) \/ rwlock_trylock(t, l)
    \/ \E l \in LockObjects \cup RwLocks : \/ NewLock(t, l)
                                           \/ UnlockOwn(t, l)
                                           \/ FreeUnused(t, l)
    \/ LockScheduled(t)

ObjcLocksSpec == ObjcLocksInit /\ [][ObjcLocksNext]_lockVars

-----------------------------------------------------------------------------
(* Properties. *)

(* Mutexes of @synchronized come and go while threads enter, wait and      *)
(* leave: a thread always waits for the mutex its object has now, an entry *)
(* stays exactly as long as a thread is inside or waits, no two locks      *)
(* share a mutex, and no mutex is left behind.                             *)
SyncTableExact ==
  /\ \A t \in Thread : ~ThreadRuns(t) => mutexOf[blockedOn[t].lock] = blockedOn[t].id
  /\ \A o \in SyncObjects : mutexOf[o] # NoMutex => ~Unused(o)
  /\ \A id \in 1 .. MaxIds :
       Cardinality({l \in LockNames : mutexOf[l] = id}) = IF mutexes[id].live THEN 1 ELSE 0

(* Who holds a lock, and how often: the phantom locks of a NORMAL mutex    *)
(* count for its owner.                                                    *)
HeldNow ==
  [l \in LockNames |->
     IF mutexOf[l] <= 0 \/ MutexFor(l).owner = NoThread
       THEN [by |-> NoThread, depth |-> 0]
       ELSE [by    |-> MutexFor(l).owner,
             depth |-> MutexFor(l).count + MutexFor(l).phantom[MutexFor(l).owner]]]

Exclusion == INSTANCE Locks
  WITH held <- HeldNow, Owners <- Thread, None <- NoThread

(* Every one of these locks keeps the promise of a recursive lock, although *)
(* the mutex behind it may be destroyed and replaced between any two calls. *)
ImplementsLocks == Exclusion!LocksSpec
=============================================================================
