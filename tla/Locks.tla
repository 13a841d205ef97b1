------------------------------- MODULE Locks --------------------------------
(***************************************************************************)
(* What the guest is promised by @synchronized, NSLock, NSRecursiveLock    *)
(* and pthread_rwlock_t: a lock is held by one thread at a time, as often  *)
(* as that thread has taken it.  Nothing is said of who is next.           *)
(***************************************************************************)
EXTENDS Integers

CONSTANTS LockNames, Owners, None

VARIABLE held   \* the thread that holds each lock and how often, [by, depth]

FreeLock == [by |-> None, depth |-> 0]

LocksInit == held = [l \in LockNames |-> FreeLock]

AcquireLock(t, l) ==
  /\ held[l] = FreeLock
  /\ held' = [held EXCEPT ![l] = [by |-> t, depth |-> 1]]

ReacquireLock(t, l) ==
  /\ held[l].by = t
  /\ held' = [held EXCEPT ![l].depth = @ + 1]

ReleaseLock(t, l) ==
  /\ held[l].by = t
  /\ held' = [held EXCEPT ![l] =
       IF @.depth = 1 THEN FreeLock ELSE [by |-> t, depth |-> @.depth - 1]]

(* The locks a step takes or releases. *)
Touched == {l \in LockNames : held'[l] # held[l]}

LocksNext ==
  \E l \in Touched, t \in Owners :
    AcquireLock(t, l) \/ ReacquireLock(t, l) \/ ReleaseLock(t, l)

LocksSpec == LocksInit /\ [][LocksNext]_held
=============================================================================
