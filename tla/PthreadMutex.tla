---------------------------- MODULE PthreadMutex ----------------------------
(***************************************************************************)
(* pthread_mutex_* (src/libc/pthread/mutex.rs) on top of the host mutexes  *)
(* of src/environment/mutex.rs.  A pthread_mutex_t in guest memory holds a *)
(* magic number and the id of a host mutex; ids are never reused.          *)
(***************************************************************************)
EXTENDS ThreadTable

CONSTANTS
  PMutexes,      \* addresses of the guest's pthread_mutex_t objects
  PTypes,        \* mutex types the guest passes to pthread_mutex_init
  MaxMutexes,    \* bound: host mutexes ever created
  MaxCount       \* bound: nested locks of one mutex by one thread

ASSUME PMutexAssumption ==
  /\ PTypes \subseteq MutexType
  /\ MaxMutexes \in Nat /\ MaxCount \in Nat

VARIABLES
  mutexes,       \* MutexState::mutexes
  mutex_count,   \* MutexState::mutex_count
  pmutex,        \* what each pthread_mutex_t holds: an id, or no valid magic
  holds          \* history: locks each thread has been told it holds

mutexVars == <<mutexes, mutex_count, pmutex, holds>>

MutexId == 0 .. MaxMutexes - 1

Static == -1     \* MAGIC_MUTEX_STATIC, registered at its first use
Garbage == -2    \* any other magic: every call answers EINVAL

-----------------------------------------------------------------------------
(* check_or_register_mutex: a statically initialized mutex becomes a NORMAL *)
(* host mutex.  Table and IdOf are the host mutexes and the id after it.   *)
IdOf(p) == IF pmutex[p] = Static THEN mutex_count ELSE pmutex[p]

Table(p) ==
  IF pmutex[p] = Static
  THEN [mutexes EXCEPT ![mutex_count] = FreshMutex("NORMAL")]
  ELSE mutexes

CheckOrRegister(p) ==
  /\ pmutex[p] # Garbage
  /\ pmutex[p] = Static => mutex_count < MaxMutexes
  /\ pmutex' = [pmutex EXCEPT ![p] = IdOf(p)]
  /\ mutex_count' = IF pmutex[p] = Static THEN mutex_count + 1 ELSE mutex_count

(* The guest program's own bookkeeping of the locks it was granted. *)
Granted(t, m) == [holds EXCEPT ![t][m] = @ + 1]
Released(t, m) == [holds EXCEPT ![t][m] = IF @ > 0 THEN @ - 1 ELSE 0]

-----------------------------------------------------------------------------
(* A correct guest does not initialize a mutex that is in use a second time. *)
pthread_mutex_init(p, type) ==
  /\ Calls("pthread_mutex_init")
  /\ pmutex[p] \in {Static, Garbage}
  /\ mutex_count < MaxMutexes
  /\ mutexes' = [mutexes EXCEPT ![mutex_count] = FreshMutex(type)]
  /\ pmutex' = [pmutex EXCEPT ![p] = mutex_count]
  /\ mutex_count' = mutex_count + 1
  /\ UNCHANGED <<holds, threadVars>>

(* lock_mutex on id m of the table tab, by the current thread. *)
LockMutex(m, tab) ==
  LET t == current
      mx == tab[m] IN
  /\ holds[t][m] < MaxCount
  /\ mutexes' = [tab EXCEPT ![m] = Locked(mx, t)]
  /\ IF LockBlocks(mx, t)
     THEN Yield(Blk("Mutex", m, FALSE), Cl("lock", m, m)) /\ UNCHANGED holds
     ELSE /\ holds' = IF LockFails(mx, t) THEN holds ELSE Granted(t, m)
          /\ UNCHANGED threadVars

pthread_mutex_lock(p) ==
  /\ Calls("pthread_mutex_lock")
  /\ CheckOrRegister(p)
  /\ LockMutex(IdOf(p), Table(p))

(* EBUSY, unless the caller already owns a recursive mutex. *)
pthread_mutex_trylock(p) ==
  LET mx == Table(p)[IdOf(p)] IN
  /\ Calls("pthread_mutex_trylock")
  /\ CheckOrRegister(p)
  /\ IF IsLocked(mx) /\ ~(mx.type = "RECURSIVE" /\ mx.owner = current)
     THEN mutexes' = Table(p) /\ UNCHANGED <<holds, threadVars>>
     ELSE LockMutex(IdOf(p), Table(p))

(* A correct guest unlocks what it holds; whether this one also unlocks     *)
(* NORMAL mutexes held by others, as the code allows, is up to Misuse.     *)
MayUnlock(mx, t) ==
  (mx.owner # t /\ ~UnlockFails(mx, t)) => "cross_unlock" \in Misuse

pthread_mutex_unlock(p) ==
  LET m == IdOf(p)
      mx == Table(p)[m] IN
  /\ Calls("pthread_mutex_unlock")
  /\ CheckOrRegister(p)
  /\ MayUnlock(mx, current)
  /\ IF UnlockFails(mx, current)
     THEN mutexes' = Table(p) /\ UNCHANGED holds
     ELSE /\ mutexes' = [Table(p) EXCEPT ![m] = Unlocked(mx, current)]
          /\ holds' = Released(current, m)
  /\ UNCHANGED threadVars

(* The guest's pthread_mutex_t is cleared before destroy_mutex is asked. *)
pthread_mutex_destroy(p) ==
  LET m == IdOf(p)
      mx == Table(p)[m] IN
  /\ Calls("pthread_mutex_destroy")
  /\ pmutex[p] # Garbage
  /\ pmutex[p] = Static => mutex_count < MaxMutexes
  /\ mutex_count' = IF pmutex[p] = Static THEN mutex_count + 1 ELSE mutex_count
  /\ pmutex' = [pmutex EXCEPT ![p] = Garbage]
  /\ mutexes' = IF DestroyFails(mx) THEN Table(p)
                ELSE [Table(p) EXCEPT ![m] = Destroyed(mx)]
  /\ UNCHANGED <<holds, threadVars>>

(* lock_mutex returns to a thread that had to wait. *)
ReturnFromLock ==
  /\ phase = "guest" /\ call[current].fn = "lock"
  /\ holds' = Granted(current, call[current].aux)
  /\ Return
  /\ UNCHANGED <<mutexes, mutex_count, pmutex>>

-----------------------------------------------------------------------------
(* Guest memory starts with statically initialized or raw mutexes. *)
MutexInit ==
  /\ mutexes = [m \in MutexId |-> NoMutexYet]
  /\ mutex_count = 0
  /\ pmutex \in [PMutexes -> {Static, Garbage}]
  /\ holds = [t \in Thread |-> [m \in MutexId |-> 0]]

MutexTypeOK ==
  /\ mutexes \in [MutexId -> Mutex]
  /\ mutex_count \in 0 .. MaxMutexes
  /\ pmutex \in [PMutexes -> MutexId \cup {Static, Garbage}]
  /\ holds \in [Thread -> [MutexId -> Nat]]

MutexNext ==
  \/ \E p \in PMutexes :
       \/ \E type \in PTypes : pthread_mutex_init(p, type)
       \/ pthread_mutex_lock(p)
       \/ pthread_mutex_trylock(p)
       \/ pthread_mutex_unlock(p)
       \/ pthread_mutex_destroy(p)
  \/ ReturnFromLock
=============================================================================
