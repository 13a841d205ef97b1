----------------------------- MODULE LockProofs -----------------------------
(***************************************************************************)
(* Proofs about Environment for every number of threads, mutexes,          *)
(* condition variables and semaphores: what the scheduler runs, and mutual *)
(* exclusion through blocking locks, condition waits, timeouts, suspension *)
(* and thread exit.                                                        *)
(***************************************************************************)
EXTENDS Environment, MutexStateProofs, SequenceTheorems

USE MaxThreadsAssumption DEF Thread, NoThread

-----------------------------------------------------------------------------
(* Contexts and runnability *)

(* What the run loop relies on: the type of the thread table, and nobody    *)
(* alive, blocked or suspended beyond threads.len().                       *)
TableOK ==
  /\ len \in 1 .. MaxThreads /\ current \in Thread /\ current < len
  /\ active \subseteq 0 .. len - 1
  /\ DOMAIN blocked_by = Thread
  /\ suspended \in [Thread -> Nat]
  /\ \A t \in Thread : t >= len => blocked_by[t].kind = "NotBlocked" /\ suspended[t] = 0

RunInv == TableOK /\ ContextsConserved /\ RunsOnlyRunnable

LEMMA RunInvInit == Init => RunInv
<1> SUFFICES ASSUME Init PROVE RunInv
  OBVIOUS
<1> USE DEF Init, ThreadInit, NotBlocked, Blk
<1>1. TableOK
  BY DEF TableOK
<1>2. ContextsConserved
  BY DEF ContextsConserved
<1>3. RunsOnlyRunnable
  BY DEF RunsOnlyRunnable, Blocked
<1>4. QED
  BY <1>1, <1>2, <1>3 DEF RunInv

(* Only the thread table matters to RunInv. *)
tableVars == <<len, current, active, blocked_by, suspended, contextVars, phase>>

LEMMA RunInvStutter == RunInv /\ UNCHANGED tableVars => RunInv'
  BY DEF RunInv, TableOK, ContextsConserved, RunsOnlyRunnable, Blocked, tableVars, contextVars

LEMMA RunInvYield ==
  ASSUME RunInv, NEW b, NEW c, Yield(b, c), phase = "guest"
  PROVE  RunInv'
  BY DEF RunInv, TableOK, ContextsConserved, RunsOnlyRunnable, Blocked, Yield, contextVars

LEMMA RunInvPanic ==
  ASSUME RunInv, NEW r, Panic(r)
  PROVE  RunInv'
  BY DEF RunInv, TableOK, ContextsConserved, RunsOnlyRunnable, Blocked, Panic, contextVars

(* schedule_next_thread returns a live, unsuspended thread with nothing left *)
(* to wait for, and switch_thread moves the contexts.                      *)
LEMMA RunInvSwitch ==
  ASSUME RunInv, NEW t \in Thread, Considered(t), SwitchTo(t),
         Wake(t) \/ (~Blocked(t) /\ UNCHANGED blocked_by)
  PROVE  RunInv'
<1> USE DEF RunInv, SwitchTo, Considered
<1>1. TableOK'
  <2>1. DOMAIN blocked_by' = Thread
    BY DEF TableOK, Wake
  <2>2. \A u \in Thread : u >= len => blocked_by'[u].kind = "NotBlocked"
    <3> TAKE u \in Thread
    <3> HAVE u >= len
    <3>1. t < len
      BY DEF TableOK
    <3>2. blocked_by'[u] = blocked_by[u]
      BY <3>1 DEF TableOK, Wake
    <3>3. QED
      BY <3>2 DEF TableOK
  <2>3. QED
    BY <2>1, <2>2 DEF TableOK
<1>2. ContextsConserved'
  <2>1. t \in active /\ t \in 0 .. len - 1 /\ current \in 0 .. len - 1
    BY DEF TableOK
  <2>2. guest_context' = (0 .. len - 1) \ {t}
    BY <2>1 DEF ContextsConserved
  <2>3. host_context' = active \ {t}
    BY <2>1 DEF ContextsConserved
  <2>4. QED
    BY <2>2, <2>3 DEF ContextsConserved
<1>3. RunsOnlyRunnable'
  BY DEF TableOK, RunsOnlyRunnable, Blocked, Wake, NotBlocked, Blk
<1>4. QED
  BY <1>1, <1>2, <1>3

LEMMA RunInvRelock ==
  ASSUME RunInv, NEW t \in Thread, Considered(t), NEW m, RelockFor(t, m)
  PROVE  RunInv'
<1>1. CASE mutexes[m].live
  BY <1>1, RunInvSwitch DEF RelockFor
<1>2. CASE ~mutexes[m].live
  BY <1>2, RunInvPanic DEF RelockFor
<1>3. QED
  BY <1>1, <1>2

LEMMA RunInvNext == RunInv /\ [Next]_vars => RunInv'
<1> SUFFICES ASSUME RunInv, [Next]_vars PROVE RunInv'
  OBVIOUS
<1>1. CASE UNCHANGED threadVars
  BY <1>1, RunInvStutter DEF threadVars, runVars, tableVars
<1>2. CASE ThreadNext
  <2>1. ASSUME NEW fn, NEW count \in Nat, pthread_create(fn, count) PROVE RunInv'
    <3> USE <2>1 DEF pthread_create, RunInv
    <3>1. TableOK'
      BY DEF TableOK
    <3>2. ContextsConserved'
      BY DEF TableOK, ContextsConserved
    <3>3. RunsOnlyRunnable'
      BY DEF TableOK, RunsOnlyRunnable, Blocked, Calls, runVars
    <3>4. QED
      BY <3>1, <3>2, <3>3
  <2>2. CASE ThreadExit
    BY <2>2 DEF ThreadExit, RunInv, TableOK, ContextsConserved, RunsOnlyRunnable, contextVars
  <2>3. CASE ReturnFromJoin
    BY <2>3, RunInvStutter DEF ReturnFromJoin, Return, runVars, tableVars
  <2>4. CASE sleep
    BY <2>4, RunInvYield DEF sleep, Calls
  <2>5. CASE Preempt
    BY <2>5 DEF Preempt, RunInv, TableOK, ContextsConserved, RunsOnlyRunnable, contextVars
  <2>6. ASSUME NEW j \in Thread, pthread_join(j) PROVE RunInv'
    BY <2>6, RunInvYield, RunInvPanic DEF pthread_join, Calls
  <2>7. ASSUME NEW j \in Thread, pthread_detach(j) PROVE RunInv'
    BY <2>7, RunInvStutter DEF pthread_detach, threadVars, runVars, tableVars
  <2>8. ASSUME NEW j \in Thread, thread_suspend(j) PROVE RunInv'
    BY <2>8 DEF thread_suspend, Calls, RunInv, TableOK, ContextsConserved, RunsOnlyRunnable,
                Blocked, contextVars
  <2>9. ASSUME NEW j \in Thread, thread_resume(j) PROVE RunInv'
    BY <2>9 DEF thread_resume, Calls, RunInv, TableOK, ContextsConserved, RunsOnlyRunnable,
                Blocked, contextVars, runVars
  <2>10. ASSUME NEW t \in Thread, TimePasses(t) PROVE RunInv'
    BY <2>10, RunInvStutter DEF TimePasses, runVars, tableVars
  <2>11. QED
    BY <1>2, <2>1, <2>2, <2>3, <2>4, <2>5, <2>6, <2>7, <2>8, <2>9, <2>10 DEF ThreadNext
<1>3. CASE MutexNext
  <2>1. ASSUME NEW m, NEW tab, LockMutex(m, tab), phase = "guest" PROVE RunInv'
    BY <2>1, <1>1, RunInvYield DEF LockMutex
  <2>2. ASSUME NEW p \in PMutexes, NEW type \in PTypes, pthread_mutex_init(p, type)
        PROVE  RunInv'
    BY <2>2, <1>1 DEF pthread_mutex_init
  <2>3. ASSUME NEW p \in PMutexes, pthread_mutex_lock(p) PROVE RunInv'
    BY <2>3, <2>1 DEF pthread_mutex_lock, Calls
  <2>4. ASSUME NEW p \in PMutexes, pthread_mutex_trylock(p) PROVE RunInv'
    BY <2>4, <2>1, <1>1 DEF pthread_mutex_trylock, Calls
  <2>5. ASSUME NEW p \in PMutexes, pthread_mutex_unlock(p) PROVE RunInv'
    BY <2>5, <1>1 DEF pthread_mutex_unlock
  <2>6. ASSUME NEW p \in PMutexes, pthread_mutex_destroy(p) PROVE RunInv'
    BY <2>6, <1>1 DEF pthread_mutex_destroy
  <2>7. CASE ReturnFromLock
    BY <2>7, RunInvStutter DEF ReturnFromLock, Return, runVars, tableVars
  <2>8. QED
    BY <1>3, <2>2, <2>3, <2>4, <2>5, <2>6, <2>7 DEF MutexNext
<1>4. CASE CondNext
  <2>1. ASSUME NEW c \in Conds, NEW p \in PMutexes, NEW fn, Wait(c, p, fn), phase = "guest"
        PROVE  RunInv'
    BY <2>1, <1>1, RunInvYield, RunInvPanic DEF Wait
  <2>2. ASSUME NEW c \in Conds, pthread_cond_destroy(c) PROVE RunInv'
    BY <2>2, <1>1, RunInvPanic DEF pthread_cond_destroy
  <2>3. CASE ReturnFromWait
    BY <2>3, RunInvPanic, RunInvStutter DEF ReturnFromWait, Return, runVars, tableVars
  <2>4. QED
    BY <1>4, <1>1, <2>1, <2>2, <2>3
       DEF CondNext, pthread_cond_init, pthread_cond_signal, pthread_cond_broadcast,
           pthread_cond_wait, pthread_cond_timedwait, Calls
<1>5. CASE SemNext
  <2>1. ASSUME NEW s \in SemPtr, sem_wait(s) PROVE RunInv'
    BY <2>1, <1>1, RunInvYield DEF sem_wait, Decrement, Calls
  <2>2. CASE ReturnFromSemWait
    BY <2>2, RunInvStutter DEF ReturnFromSemWait, Return, runVars, tableVars
  <2>3. QED
    BY <1>5, <1>1, <2>1, <2>2
       DEF SemNext, sem_init, sem_destroy, sem_open_new, sem_open_existing, sem_post,
           sem_trywait, Decrement, sem_close, sem_unlink
<1>6. CASE Schedule
  <2>1. ASSUME NEW t \in Thread,
               \/ SchedRunnable(t) \/ SchedSlept(t) \/ SchedSemaphoreGone(t)
               \/ SchedSemaphore(t) \/ SchedJoined(t)
        PROVE  RunInv'
    BY <2>1, RunInvSwitch
       DEF SchedRunnable, SchedSlept, SchedSemaphoreGone, SchedSemaphore, SchedJoined
  <2>2. ASSUME NEW t \in Thread, SchedMutex(t) \/ SchedCondition(t) \/ SchedTimeout(t)
        PROVE  RunInv'
    BY <2>2, RunInvRelock DEF SchedMutex, SchedCondition, SchedTimeout, ConsideredCond
  <2>3. ASSUME NEW t \in Thread, SchedCondLost(t) PROVE RunInv'
    BY <2>3, RunInvPanic DEF SchedCondLost
  <2>4. ASSUME NEW t \in Thread, SchedTimeoutLocked(t) PROVE RunInv'
    BY <2>4 DEF SchedTimeoutLocked, ConsideredCond, Considered, RunInv, TableOK,
                ContextsConserved, RunsOnlyRunnable, contextVars
  <2>5. CASE SchedSkip \/ SchedRetry
    BY <2>5, RunInvStutter DEF SchedSkip, SchedRetry, tableVars
  <2>6. CASE SchedDeadlock
    BY <2>6 DEF SchedDeadlock, RunInv, TableOK, ContextsConserved, RunsOnlyRunnable, contextVars
  <2>7. QED
    BY <1>6, <2>1, <2>2, <2>3, <2>4, <2>5, <2>6 DEF Schedule
<1>7. QED
  BY <1>1, <1>2, <1>3, <1>4, <1>5, <1>6 DEF Next, Panicked, vars

(* yield_thread's assertion: guest code only ever runs on a thread that is  *)
(* alive, not blocked and not suspended.                                   *)
THEOREM RunsOnlyRunnableThreads == Spec => []RunsOnlyRunnable
<1>1. RunInv => RunsOnlyRunnable
  BY DEF RunInv
<1>2. QED
  BY <1>1, RunInvInit, RunInvNext, PTL DEF Spec

(* switch_thread's unwraps: every thread but the current one has its        *)
(* registers stored, and every live one a coroutine to resume.             *)
THEOREM ContextsAreConserved == Spec => []ContextsConserved
<1>1. RunInv => ContextsConserved
  BY DEF RunInv
<1>2. QED
  BY <1>1, RunInvInit, RunInvNext, PTL DEF Spec

HIDE MaxThreadsAssumption DEF Thread, NoThread

-----------------------------------------------------------------------------
(* Mutual exclusion *)

WaitCalls == {"cond_wait", "cond_timedwait"}
LockCalls == WaitCalls \cup {"lock"}

(* t is inside a call that returns with mutex m in its hands ... *)
Pending(t, m) == call[t].fn \in LockCalls /\ call[t].aux = m

(* ... and the scheduler has relocked m for it, but it has not run yet. *)
Taken(t, m) == Pending(t, m) /\ ~Blocked(t)

(* The same, as a number for each thread and mutex. *)
inhand == [t \in Thread |-> [m \in MutexId |-> IF Taken(t, m) THEN 1 ELSE 0]]

LockTypes ==
  /\ MutexTypeOK
  /\ DOMAIN call = Thread
  /\ \A m \in MutexId : mutexes[m].owner # NoThread => mutexes[m].count >= 1

(* The mutexes of Exclusive, as a predicate on the host mutex. *)
ExclusiveMutex(mx) ==
  /\ mx.type # "NORMAL" \/ "cross_unlock" \notin Misuse
  /\ "cond_reinit" \notin Misuse

Owners ==
  \A m \in MutexId, t \in Thread :
    ExclusiveMutex(mutexes[m]) => OwnerExact(mutexes[m], t, holds[t][m], inhand[t][m])

(* A pthread_mutex_t with a valid magic number names a live host mutex that *)
(* no other one names; ids from mutex_count on have never been used.       *)
Handles ==
  /\ \A p \in PMutexes : pmutex[p] \in MutexId =>
       mutexes[pmutex[p]].live /\ pmutex[p] < mutex_count
  /\ \A p, q \in PMutexes : (p # q /\ pmutex[p] \in MutexId) => pmutex[p] # pmutex[q]
  /\ \A m \in MutexId, t \in Thread : m >= mutex_count => holds[t][m] = 0

(* A block is the block of the call the thread is in, and a call that       *)
(* returns with a mutex is about one that has been created.                *)
Link(t) ==
  LET b == blocked_by[t]
      cl == call[t] IN
  /\ b.kind \in BlockKind
  /\ b.kind = "Mutex" => cl.fn \in LockCalls /\ ("cond_reinit" \notin Misuse => cl.aux = b.obj)
  /\ b.kind = "Condition" => cl.fn \in WaitCalls /\ b.obj \in Conds
  /\ b.kind = "Sleeping" => cl.fn = "none"
  /\ b.kind = "Semaphore" => cl.fn = "sem_wait"
  /\ b.kind = "Joining" => cl.fn = "join" /\ cl.obj = b.obj
  /\ cl.fn \in LockCalls => cl.aux \in MutexId /\ cl.aux < mutex_count

Links == \A t \in Thread : Link(t)

(* A condition waiter stands in a queue of its condition variable, which    *)
(* therefore goes on remembering the mutex the waiter came with.           *)
CondLink(t) ==
  LET c == blocked_by[t].obj IN
  /\ conds[c].state # "static"
  /\ call[t].obj = c
  /\ conds[c].curr_mutex = call[t].aux
  /\ Queued(conds[c].waiting, t) \/ Queued(conds[c].waking, t)

(* Re-initializing a condition variable in use breaks the tie. *)
CondWaiter(t) ==
  phase # "panic" /\ blocked_by[t].kind = "Condition" /\ "cond_reinit" \notin Misuse

CondLinks == CondTypeOK /\ \A t \in Thread : CondWaiter(t) => CondLink(t)

(* A joiner that may return was woken by the death of the joinee. *)
Joins ==
  \A t \in Thread : call[t].fn = "join" =>
    call[t].obj \in 0 .. len - 1 /\ (Blocked(t) \/ call[t].obj \notin active)

MutexInv == LockTypes /\ Owners /\ Handles /\ Links

LockInv == MutexInv /\ CondLinks /\ Joins

-----------------------------------------------------------------------------
LEMMA LockInvInit == Init => LockInv
<1> SUFFICES ASSUME Init PROVE LockInv
  OBVIOUS
<1>1. \A t \in Thread : blocked_by[t].kind = "NotBlocked" /\ call[t].fn = "none"
  BY DEF Init, ThreadInit, NotBlocked, Blk, NoCall, Cl
<1>2. NoMutexYet \in Mutex /\ NoMutexYet.owner = NoThread /\ \A t \in Thread : NoMutexYet.phantom[t] = 0
  BY DEF NoMutexYet, FreshMutex, Mutex, MutexType
<1>3. LockTypes
  BY <1>2, PMutexAssumption
     DEF Init, ThreadInit, MutexInit, LockTypes, MutexTypeOK, MutexId, Static, Garbage
<1>4. \A m \in MutexId, t \in Thread :
        mutexes[m] = NoMutexYet /\ holds[t][m] = 0 /\ inhand[t][m] = 0
  BY <1>1 DEF Init, MutexInit, inhand, Taken, Pending, LockCalls, WaitCalls
<1>5. Owners
  BY <1>2, <1>4, NoThreadIsNone DEF Owners, OwnerExact
<1>6. Handles
  BY <1>4, PMutexAssumption DEF Init, MutexInit, Handles, MutexId, Static, Garbage
<1>7. Links
  BY <1>1 DEF Links, Link, Pending, LockCalls, WaitCalls, BlockKind
<1>8. CondLinks
  <2>1. ASSUME NEW s \in {"static", "gone"} PROVE [FreshCond EXCEPT !.state = s] \in CondObject
    BY EmptySeq DEF FreshCond, CondObject
  <2>2. CondTypeOK
    BY <2>1 DEF Init, CondInit, CondTypeOK
  <2>3. QED
    BY <1>1, <2>2 DEF CondLinks, CondWaiter
<1>9. Joins
  BY <1>1 DEF Joins
<1>10. QED
  BY <1>3, <1>5, <1>6, <1>7, <1>8, <1>9 DEF LockInv, MutexInv

-----------------------------------------------------------------------------
(* check_or_register_mutex, and a host mutex replaced by its successor *)

LEMMA RegisterSound ==
  ASSUME MutexInv, NEW p \in PMutexes, pmutex[p] # Garbage,
         pmutex[p] = Static => mutex_count < MaxMutexes
  PROVE  LET m == IdOf(p) IN
         /\ m \in MutexId /\ m <= mutex_count
         /\ pmutex[p] # Static => m < mutex_count
         /\ Table(p) \in [MutexId -> Mutex]
         /\ Table(p)[m].live
         /\ Table(p)[m].owner # NoThread => Table(p)[m].count >= 1
         /\ \A n \in MutexId : n # m => Table(p)[n] = mutexes[n]
         /\ \A q \in PMutexes : q # p => pmutex[q] # m
         /\ \A t \in Thread : ExclusiveMutex(Table(p)[m]) =>
              OwnerExact(Table(p)[m], t, holds[t][m], inhand[t][m])
<1>1. /\ mutexes \in [MutexId -> Mutex] /\ mutex_count \in Nat
      /\ pmutex \in [PMutexes -> MutexId \cup {Static, Garbage}]
  BY PMutexAssumption DEF MutexInv, LockTypes, MutexTypeOK
<1>2. CASE pmutex[p] = Static
  <2>1. IdOf(p) = mutex_count /\ Table(p) = [mutexes EXCEPT ![mutex_count] = FreshMutex("NORMAL")]
    BY <1>2 DEF IdOf, Table
  <2>2. mutex_count \in MutexId
    BY <1>1, <1>2, PMutexAssumption DEF MutexId
  <2>3. FreshMutex("NORMAL") \in Mutex
    BY FreshFields DEF MutexType
  <2>4. Table(p) \in [MutexId -> Mutex] /\ Table(p)[mutex_count] = FreshMutex("NORMAL")
    BY <1>1, <2>1, <2>2, <2>3
  <2>5. \A q \in PMutexes : pmutex[q] # mutex_count
    BY <1>1, <2>2 DEF MutexInv, Handles
  <2>6. \A t \in Thread : holds[t][mutex_count] = 0 /\ inhand[t][mutex_count] = 0
    BY <1>1, <2>2 DEF MutexInv, Handles, Links, Link, inhand, Taken, Pending
  <2>7. \A t \in Thread : OwnerExact(Table(p)[mutex_count], t, holds[t][mutex_count], inhand[t][mutex_count])
    BY <2>4, <2>6, FreshExact DEF MutexType, OwnerExact
  <2>8. Table(p)[mutex_count].live /\ Table(p)[mutex_count].owner = NoThread
    BY <2>4, FreshFields DEF MutexType
  <2>9. \A n \in MutexId : n # mutex_count => Table(p)[n] = mutexes[n]
    BY <1>1, <2>1
  <2>10. \A t \in Thread : OwnerExact(Table(p)[IdOf(p)], t, holds[t][IdOf(p)], inhand[t][IdOf(p)])
    BY <2>1, <2>7
  <2>11. QED
    BY <1>1, <1>2, <2>1, <2>2, <2>4, <2>5, <2>8, <2>9, <2>10
<1>3. CASE pmutex[p] # Static
  <2>1. IdOf(p) = pmutex[p] /\ Table(p) = mutexes
    BY <1>3 DEF IdOf, Table
  <2>2. pmutex[p] \in MutexId
    BY <1>1, <1>3
  <2>3. \A t \in Thread : ExclusiveMutex(Table(p)[IdOf(p)]) =>
          OwnerExact(Table(p)[IdOf(p)], t, holds[t][IdOf(p)], inhand[t][IdOf(p)])
    BY <2>1, <2>2 DEF MutexInv, Owners
  <2>4. mutexes[pmutex[p]].live /\ pmutex[p] < mutex_count
    BY <2>2 DEF MutexInv, Handles
  <2>5. mutexes[pmutex[p]].owner # NoThread => mutexes[pmutex[p]].count >= 1
    BY <2>2 DEF MutexInv, LockTypes
  <2>6. \A q \in PMutexes : q # p => pmutex[q] # pmutex[p]
    BY <2>2 DEF MutexInv, Handles
  <2>7. pmutex[p] <= mutex_count
    BY <1>1, <2>2, <2>4 DEF MutexId
  <2>8. QED
    BY <1>1, <1>3, <2>1, <2>2, <2>3, <2>4, <2>5, <2>6, <2>7
<1>4. QED
  BY <1>2, <1>3

(* The state after a call on p replaced its host mutex by r. *)
LEMMA Updated ==
  ASSUME MutexInv, NEW p \in PMutexes, CheckOrRegister(p),
         NEW r \in Mutex, r.live, r.type = Table(p)[IdOf(p)].type,
         r.owner # NoThread => r.count >= 1,
         mutexes' = [Table(p) EXCEPT ![IdOf(p)] = r],
         holds' \in [Thread -> [MutexId -> Nat]],
         DOMAIN call' = Thread,
         \A t \in Thread, n \in MutexId : n # IdOf(p) =>
           holds'[t][n] = holds[t][n] /\ inhand'[t][n] = inhand[t][n],
         ExclusiveMutex(Table(p)[IdOf(p)]) =>
           \A t \in Thread : OwnerExact(r, t, holds'[t][IdOf(p)], inhand'[t][IdOf(p)])
  PROVE  LockTypes' /\ Handles' /\ Owners'
<1> DEFINE m == IdOf(p)
<1>1. /\ mutexes \in [MutexId -> Mutex] /\ mutex_count \in 0 .. MaxMutexes
      /\ pmutex \in [PMutexes -> MutexId \cup {Static, Garbage}]
  BY DEF MutexInv, LockTypes, MutexTypeOK
<1>2. /\ m \in MutexId /\ m <= mutex_count
      /\ pmutex[p] # Static => m < mutex_count
      /\ Table(p) \in [MutexId -> Mutex]
      /\ \A n \in MutexId : n # m => Table(p)[n] = mutexes[n]
      /\ \A q \in PMutexes : q # p => pmutex[q] # m
  BY RegisterSound DEF CheckOrRegister
<1>3. /\ mutexes' \in [MutexId -> Mutex] /\ mutexes'[m] = r
      /\ \A n \in MutexId : n # m => mutexes'[n] = mutexes[n]
  BY <1>2
<1>4. /\ mutex_count' \in 0 .. MaxMutexes /\ mutex_count' >= mutex_count /\ m < mutex_count'
  BY <1>1, <1>2, PMutexAssumption DEF CheckOrRegister, MutexId
<1>5. /\ pmutex' \in [PMutexes -> MutexId \cup {Static, Garbage}]
      /\ pmutex'[p] = m
      /\ \A q \in PMutexes : q # p => pmutex'[q] = pmutex[q]
  BY <1>1, <1>2 DEF CheckOrRegister
<1>6. LockTypes'
  <2>1. \A n \in MutexId : mutexes'[n].owner # NoThread => mutexes'[n].count >= 1
    BY <1>3 DEF MutexInv, LockTypes
  <2>2. QED
    BY <1>3, <1>4, <1>5, <2>1 DEF LockTypes, MutexTypeOK
<1>7. Handles'
  <2>1. \A q \in PMutexes : pmutex'[q] \in MutexId =>
          mutexes'[pmutex'[q]].live /\ pmutex'[q] < mutex_count'
    BY <1>1, <1>2, <1>3, <1>4, <1>5 DEF MutexInv, Handles, MutexId
  <2>2. \A q1, q2 \in PMutexes : (q1 # q2 /\ pmutex'[q1] \in MutexId) => pmutex'[q1] # pmutex'[q2]
    BY <1>2, <1>5 DEF MutexInv, Handles
  <2>3. \A n \in MutexId, t \in Thread : n >= mutex_count' => holds'[t][n] = 0
    BY <1>1, <1>2, <1>4 DEF MutexInv, Handles, MutexId
  <2>4. QED
    BY <2>1, <2>2, <2>3 DEF Handles
<1>8. Owners'
  <2> SUFFICES ASSUME NEW n \in MutexId, NEW t \in Thread, ExclusiveMutex(mutexes'[n])
               PROVE  OwnerExact(mutexes'[n], t, holds'[t][n], inhand'[t][n])
    BY DEF Owners, ExclusiveMutex
  <2>1. CASE n = m
    <3>1. OwnerExact(r, t, holds'[t][m], inhand'[t][m])
      BY <1>3, <2>1 DEF ExclusiveMutex
    <3>2. QED
      BY <1>3, <2>1, <3>1
  <2>2. CASE n # m
    <3>1. OwnerExact(mutexes[n], t, holds[t][n], inhand[t][n])
      BY <1>3, <2>2 DEF MutexInv, Owners
    <3>2. QED
      BY <1>3, <2>2, <3>1 DEF OwnerExact
  <2>3. QED
    BY <2>1, <2>2
<1>9. QED
  BY <1>6, <1>7, <1>8

-----------------------------------------------------------------------------
(* Frames *)

LEMMA LinksFrame ==
  ASSUME MutexInv, UNCHANGED <<call, blocked_by>>, mutex_count' >= mutex_count,
         mutex_count' \in Nat
  PROVE  Links'
<1>1. mutex_count \in Nat /\ \A m \in MutexId : m \in Int
  BY PMutexAssumption DEF MutexInv, LockTypes, MutexTypeOK, MutexId
<1>2. QED
  BY <1>1 DEF MutexInv, Links, Link, Pending

LEMMA TakenFrame ==
  ASSUME UNCHANGED <<call, blocked_by>>
  PROVE  inhand' = inhand
  BY DEF inhand, Taken, Pending, Blocked

LEMMA TakenYield ==
  ASSUME current \in Thread, DOMAIN call = Thread, DOMAIN blocked_by = Thread,
         call[current].fn = "none", NEW b, NEW c, b.kind # "NotBlocked", Yield(b, c)
  PROVE  inhand' = inhand
<1> SUFFICES ASSUME NEW t \in Thread, NEW m \in MutexId PROVE Taken(t, m)' <=> Taken(t, m)
  BY DEF inhand
<1>1. CASE t = current
  BY <1>1 DEF Yield, Taken, Pending, Blocked, LockCalls, WaitCalls
<1>2. CASE t # current
  BY <1>2 DEF Yield, Taken, Pending, Blocked
<1>3. QED
  BY <1>1, <1>2

LEMMA CondLinksFrame ==
  ASSUME CondLinks, UNCHANGED conds, phase = "panic" => phase' = "panic",
         \A t \in Thread : blocked_by'[t].kind = "Condition" =>
           blocked_by'[t] = blocked_by[t] /\ call'[t] = call[t]
  PROVE  CondLinks'
  BY DEF CondLinks, CondTypeOK, CondWaiter, CondLink

LEMMA JoinsFrame ==
  ASSUME Joins, len' = len, active' \subseteq active,
         \A t \in Thread : call'[t].fn = "join" =>
           call'[t] = call[t] /\ (Blocked(t)' \/ ~Blocked(t))
  PROVE  Joins'
  BY DEF Joins

-----------------------------------------------------------------------------
(* pthread_mutex_* *)

(* The current thread is in guest code, outside any blocking call. *)
Calling == phase = "guest" /\ call[current].fn = "none"

LEMMA LockStep ==
  ASSUME MutexInv, RunInv, Calling, NEW p \in PMutexes, CheckOrRegister(p),
         LockMutex(IdOf(p), Table(p))
  PROVE  MutexInv'
<1> DEFINE m == IdOf(p)
           t == current
           mx == Table(p)[m]
           r == Locked(mx, t)
<1>1. t \in Thread /\ DOMAIN blocked_by = Thread /\ DOMAIN call = Thread
  BY DEF RunInv, TableOK, MutexInv, LockTypes
<1>2. /\ m \in MutexId /\ Table(p) \in [MutexId -> Mutex] /\ mx \in Mutex /\ mx.live
      /\ mx.owner # NoThread => mx.count >= 1
      /\ ExclusiveMutex(mx) => \A u \in Thread : OwnerExact(mx, u, holds[u][m], inhand[u][m])
  BY RegisterSound DEF CheckOrRegister
<1>3. /\ mutexes' = [Table(p) EXCEPT ![m] = r]
      /\ LockBlocks(mx, t) =>
           Yield(Blk("Mutex", m, FALSE), Cl("lock", m, m)) /\ holds' = holds
      /\ ~LockBlocks(mx, t) =>
           UNCHANGED threadVars /\ holds' = IF LockFails(mx, t) THEN holds ELSE Granted(t, m)
  BY DEF LockMutex
<1>4. r \in Mutex /\ r.live /\ r.type = mx.type
  BY <1>1, <1>2, LockedType, LockedKeeps
<1>5. r.owner # NoThread => r.count >= 1
  <2>1. mx.count \in Nat /\ mx.type \in {"NORMAL", "RECURSIVE", "ERRORCHECK"}
    BY <1>2 DEF Mutex, MutexType
  <2>2. CASE mx.owner = NoThread
    BY <1>1, <1>2, <2>2, LockedFree
  <2>3. CASE mx.owner \notin {NoThread, t}
    BY <1>1, <1>2, <2>3, LockedTaken
  <2>4. CASE mx.owner = t
    <3>1. r.count = mx.count \/ r.count = mx.count + 1
      BY <1>1, <1>2, <2>1, <2>4, LockedAgain
    <3>2. QED
      BY <1>1, <1>2, <2>1, <2>4, <3>1, NoThreadIsNone
  <2>5. QED
    BY <2>2, <2>3, <2>4
<1>6. holds \in [Thread -> [MutexId -> Nat]] /\ mutex_count \in Nat /\ MaxMutexes \in Nat
  BY PMutexAssumption DEF MutexInv, LockTypes, MutexTypeOK
<1>7. mutex_count' \in Nat /\ mutex_count' >= mutex_count /\ m < mutex_count'
  BY <1>6, RegisterSound DEF CheckOrRegister, MutexId
<1>8. inhand' = inhand
  <2>1. CASE LockBlocks(mx, t)
    BY <1>1, <1>3, <2>1, TakenYield DEF Calling, Blk
  <2>2. CASE ~LockBlocks(mx, t)
    BY <1>3, <2>2, TakenFrame DEF threadVars
  <2>3. QED
    BY <2>1, <2>2
<1>9. inhand[t][m] = 0 /\ \A u \in Thread : inhand[u][m] \in {0, 1}
  BY <1>1, <1>2 DEF Calling, inhand, Taken, Pending, LockCalls, WaitCalls
<1>10. DOMAIN call' = Thread
  BY <1>1, <1>3 DEF Yield, threadVars
<1>11. LockTypes' /\ Handles' /\ Owners'
  <2>1. CASE LockBlocks(mx, t) \/ LockFails(mx, t)
    <3>1. holds' = holds
      BY <1>3, <2>1
    <3>2. ASSUME ExclusiveMutex(mx), NEW u \in Thread
          PROVE  OwnerExact(r, u, holds'[u][m], inhand'[u][m])
      <4>1. OwnerExact(r, u, holds[u][m], inhand[u][m])
        BY <1>1, <1>2, <1>6, <1>9, <2>1, <3>2, LockedInVain
      <4>2. QED
        BY <1>8, <3>1, <4>1
    <3>3. QED
      BY <1>3, <1>4, <1>5, <1>6, <1>8, <1>10, <3>1, <3>2, Updated
  <2>2. CASE ~LockBlocks(mx, t) /\ ~LockFails(mx, t)
    <3>1. holds' = [holds EXCEPT ![t][m] = @ + 1]
      BY <1>3, <2>2 DEF Granted
    <3>2. /\ holds' \in [Thread -> [MutexId -> Nat]] /\ holds'[t][m] = holds[t][m] + 1
          /\ \A u \in Thread, n \in MutexId : (u # t \/ n # m) => holds'[u][n] = holds[u][n]
      BY <1>1, <1>2, <1>6, <3>1
    <3>3. ASSUME ExclusiveMutex(mx), NEW u \in Thread
          PROVE  OwnerExact(r, u, holds'[u][m], inhand'[u][m])
      <4>1. CASE u = t
        <5>1. OwnerExact(mx, t, holds[t][m], 0)
          BY <1>1, <1>2, <1>9, <3>3
        <5>2. OwnerExact(r, t, holds[t][m] + 1, 0)
          BY <1>1, <1>2, <1>6, <2>2, <5>1, LockedExact
        <5>3. QED
          BY <1>8, <1>9, <3>2, <4>1, <5>2
      <4>2. CASE u # t
        <5>1. OwnerExact(r, u, holds[u][m], inhand[u][m])
          BY <1>1, <1>2, <1>6, <1>9, <2>2, <3>3, <4>2, LockedOthers
        <5>2. QED
          BY <1>2, <1>8, <3>2, <4>2, <5>1
      <4>3. QED
        BY <4>1, <4>2
    <3>4. QED
      BY <1>3, <1>4, <1>5, <1>8, <1>10, <3>2, <3>3, Updated
  <2>3. QED
    BY <2>1, <2>2
<1>12. Links'
  <2>1. CASE LockBlocks(mx, t)
    <3>1. ASSUME NEW u \in Thread PROVE Link(u)'
      <4>1. CASE u = t
        BY <1>1, <1>2, <1>3, <1>7, <2>1, <4>1
           DEF Link, Yield, Blk, Cl, Pending, LockCalls, WaitCalls, BlockKind
      <4>2. CASE u # t
        <5>1. blocked_by'[u] = blocked_by[u] /\ call'[u] = call[u]
          BY <1>1, <1>3, <2>1, <4>2 DEF Yield
        <5>2. \A n \in MutexId : n \in Int
          BY DEF MutexId
        <5>3. QED
          BY <1>6, <1>7, <5>1, <5>2 DEF Link, Pending, MutexInv, Links
      <4>3. QED
        BY <4>1, <4>2
    <3>2. QED
      BY <3>1 DEF Links
  <2>2. CASE ~LockBlocks(mx, t)
    BY <1>3, <1>7, <2>2, LinksFrame DEF threadVars
  <2>3. QED
    BY <2>1, <2>2
<1>13. QED
  BY <1>11, <1>12 DEF MutexInv

LEMMA LinkLater ==
  ASSUME MutexInv, NEW t \in Thread, call'[t] = call[t], blocked_by'[t] = blocked_by[t],
         mutex_count' \in Nat, mutex_count' >= mutex_count
  PROVE  Link(t)'
<1>1. mutex_count \in Nat /\ \A m \in MutexId : m \in Int
  BY PMutexAssumption DEF MutexInv, LockTypes, MutexTypeOK, MutexId
<1>2. Link(t)
  BY DEF MutexInv, Links
<1>3. call[t].fn \in LockCalls => call[t].aux \in MutexId /\ call[t].aux < mutex_count'
  BY <1>1, <1>2 DEF Link
<1>4. QED
  BY <1>2, <1>3 DEF Link

(* A call on p that leaves the mutex it names as it is. *)
LEMMA RegisterStep ==
  ASSUME MutexInv, NEW p \in PMutexes, CheckOrRegister(p), mutexes' = Table(p),
         UNCHANGED <<holds, threadVars>>
  PROVE  MutexInv'
<1> DEFINE m == IdOf(p)
           mx == Table(p)[m]
<1>1. /\ m \in MutexId /\ Table(p) \in [MutexId -> Mutex] /\ mx \in Mutex /\ mx.live
      /\ mx.owner # NoThread => mx.count >= 1
      /\ ExclusiveMutex(mx) => \A u \in Thread : OwnerExact(mx, u, holds[u][m], inhand[u][m])
  BY RegisterSound DEF CheckOrRegister
<1>2. mutexes' = [Table(p) EXCEPT ![m] = mx]
  BY <1>1
<1>3. holds \in [Thread -> [MutexId -> Nat]] /\ mutex_count \in Nat /\ DOMAIN call = Thread
  BY PMutexAssumption DEF MutexInv, LockTypes, MutexTypeOK
<1>4. inhand' = inhand /\ holds' = holds /\ DOMAIN call' = Thread
  BY <1>3, TakenFrame DEF threadVars
<1>5. LockTypes' /\ Handles' /\ Owners'
  BY <1>1, <1>2, <1>3, <1>4, Updated
<1>6. Links'
  BY <1>3, LinksFrame DEF threadVars, CheckOrRegister
<1>7. QED
  BY <1>5, <1>6 DEF MutexInv

(* unlock_mutex, by itself or at the start of a condition wait. *)
LEMMA UnlockStep ==
  ASSUME MutexInv, RunInv, Calling, NEW p \in PMutexes, CheckOrRegister(p),
         MayUnlock(Table(p)[IdOf(p)], current), ~UnlockFails(Table(p)[IdOf(p)], current),
         mutexes' = [Table(p) EXCEPT ![IdOf(p)] = Unlocked(Table(p)[IdOf(p)], current)],
         holds' = Released(current, IdOf(p)),
         inhand' = inhand, DOMAIN call' = Thread
  PROVE  LockTypes' /\ Handles' /\ Owners'
<1> DEFINE m == IdOf(p)
           t == current
           mx == Table(p)[m]
           r == Unlocked(mx, t)
<1>1. t \in Thread
  BY DEF RunInv, TableOK
<1>2. /\ m \in MutexId /\ Table(p) \in [MutexId -> Mutex] /\ mx \in Mutex /\ mx.live
      /\ mx.owner # NoThread => mx.count >= 1
      /\ ExclusiveMutex(mx) => \A u \in Thread : OwnerExact(mx, u, holds[u][m], inhand[u][m])
  BY RegisterSound DEF CheckOrRegister
<1>3. r \in Mutex /\ r.live /\ r.type = mx.type /\ (r.owner # NoThread => r.count >= 1)
  BY <1>1, <1>2, UnlockedType
<1>4. holds \in [Thread -> [MutexId -> Nat]] /\ holds[t][m] \in Nat
  BY <1>1, <1>2 DEF MutexInv, LockTypes, MutexTypeOK
<1>5. /\ holds' \in [Thread -> [MutexId -> Nat]]
      /\ holds'[t][m] = IF holds[t][m] > 0 THEN holds[t][m] - 1 ELSE 0
      /\ \A u \in Thread, n \in MutexId : (u # t \/ n # m) => holds'[u][n] = holds[u][n]
  <2>1. (IF holds[t][m] > 0 THEN holds[t][m] - 1 ELSE 0) \in Nat
    BY <1>4
  <2>2. QED
    BY <1>1, <1>2, <1>4, <2>1 DEF Released
<1>6. inhand[t][m] = 0 /\ \A u \in Thread : inhand[u][m] \in {0, 1}
  BY <1>1, <1>2 DEF Calling, inhand, Taken, Pending, LockCalls, WaitCalls
<1>7. ASSUME ExclusiveMutex(mx), NEW u \in Thread
      PROVE  OwnerExact(r, u, holds'[u][m], inhand'[u][m])
  <2>1. OwnerExact(mx, t, holds[t][m], 0) /\ OwnerExact(mx, u, holds[u][m], inhand[u][m])
    BY <1>1, <1>2, <1>6, <1>7
  <2>2. mx.owner = t
    <3>1. mx.phantom[t] \in Nat
      BY <1>1, <1>2 DEF Mutex
    <3>2. QED
      BY <1>7, <2>1, <3>1 DEF MayUnlock, UnlockFails, ExclusiveMutex, OwnerExact
  <2>3. CASE u = t
    <3>1. OwnerExact(r, t, IF holds[t][m] > 0 THEN holds[t][m] - 1 ELSE 0, 0)
      BY <1>1, <1>2, <1>4, <2>1, <2>2, UnlockedExact
    <3>2. QED
      BY <1>5, <1>6, <2>3, <3>1
  <2>4. CASE u # t
    <3>1. mx.count >= 1 /\ holds[u][m] \in Nat
      BY <1>1, <1>2, <1>4, <2>2, NoThreadIsNone
    <3>2. OwnerExact(r, u, holds[u][m], inhand[u][m])
      BY <1>1, <1>2, <1>6, <2>1, <2>2, <2>4, <3>1, UnlockedOthers
    <3>3. QED
      BY <1>2, <1>5, <2>4, <3>2
  <2>5. QED
    BY <2>3, <2>4
<1>8. QED
  BY <1>2, <1>3, <1>5, <1>7, Updated

LEMMA InitStep ==
  ASSUME MutexInv, NEW p \in PMutexes, NEW type \in PTypes, pthread_mutex_init(p, type)
  PROVE  MutexInv'
<1> DEFINE m == mutex_count
<1>1. /\ mutexes \in [MutexId -> Mutex] /\ mutex_count \in Nat /\ mutex_count < MaxMutexes
      /\ pmutex \in [PMutexes -> MutexId \cup {Static, Garbage}]
      /\ holds \in [Thread -> [MutexId -> Nat]] /\ DOMAIN call = Thread
  BY PMutexAssumption DEF MutexInv, LockTypes, MutexTypeOK, pthread_mutex_init
<1>2. m \in MutexId /\ type \in MutexType /\ MaxMutexes \in Nat
  BY <1>1, PMutexAssumption DEF MutexId
<1>3. /\ mutexes' \in [MutexId -> Mutex] /\ mutexes'[m] = FreshMutex(type)
      /\ \A n \in MutexId : n # m => mutexes'[n] = mutexes[n]
  BY <1>1, <1>2, FreshFields DEF pthread_mutex_init
<1>4. mutex_count' = m + 1 /\ mutex_count' \in 0 .. MaxMutexes
  BY <1>1, <1>2 DEF pthread_mutex_init
<1>5. /\ pmutex' \in [PMutexes -> MutexId \cup {Static, Garbage}] /\ pmutex'[p] = m
      /\ \A q \in PMutexes : q # p => pmutex'[q] = pmutex[q]
  BY <1>1, <1>2 DEF pthread_mutex_init
<1>6. UNCHANGED <<holds, call, blocked_by>> /\ inhand' = inhand
  BY TakenFrame DEF pthread_mutex_init, threadVars
<1>7. LockTypes'
  <2>1. \A n \in MutexId : mutexes'[n].owner # NoThread => mutexes'[n].count >= 1
    BY <1>2, <1>3, FreshFields DEF MutexInv, LockTypes
  <2>2. QED
    BY <1>1, <1>3, <1>4, <1>5, <1>6, <2>1 DEF LockTypes, MutexTypeOK
<1>8. \A q \in PMutexes : pmutex[q] \in MutexId =>
        pmutex[q] \in Int /\ pmutex[q] < m /\ mutexes[pmutex[q]].live
  BY DEF MutexInv, Handles, MutexId
<1>9. Handles'
  <2>1. \A q \in PMutexes : pmutex'[q] \in MutexId =>
          mutexes'[pmutex'[q]].live /\ pmutex'[q] < mutex_count'
    BY <1>1, <1>2, <1>3, <1>4, <1>5, <1>8, FreshFields
  <2>2. \A q1, q2 \in PMutexes : (q1 # q2 /\ pmutex'[q1] \in MutexId) => pmutex'[q1] # pmutex'[q2]
    BY <1>1, <1>2, <1>5, <1>8 DEF MutexInv, Handles
  <2>3. \A n \in MutexId, t \in Thread : n >= mutex_count' => holds'[t][n] = 0
    BY <1>1, <1>4, <1>6 DEF MutexInv, Handles, MutexId
  <2>4. QED
    BY <2>1, <2>2, <2>3 DEF Handles
<1>10. Owners'
  <2> SUFFICES ASSUME NEW n \in MutexId, NEW t \in Thread, ExclusiveMutex(mutexes'[n])
               PROVE  OwnerExact(mutexes'[n], t, holds[t][n], inhand[t][n])
    BY <1>6 DEF Owners, ExclusiveMutex
  <2>1. CASE n = m
    <3>1. holds[t][m] = 0 /\ inhand[t][m] = 0
      BY <1>1, <1>2 DEF MutexInv, Handles, Links, Link, inhand, Taken, Pending
    <3>2. QED
      BY <1>2, <1>3, <2>1, <3>1, FreshExact
  <2>2. CASE n # m
    BY <1>3, <2>2 DEF MutexInv, Owners
  <2>3. QED
    BY <2>1, <2>2
<1>11. Links'
  BY <1>1, <1>4, <1>6, LinksFrame
<1>12. QED
  BY <1>7, <1>9, <1>10, <1>11 DEF MutexInv

LEMMA DestroyStep ==
  ASSUME MutexInv, NEW p \in PMutexes, pthread_mutex_destroy(p)
  PROVE  MutexInv'
<1> DEFINE m == IdOf(p)
           mx == Table(p)[m]
           r == IF DestroyFails(mx) THEN mx ELSE Destroyed(mx)
<1>1. /\ mutexes \in [MutexId -> Mutex] /\ mutex_count \in Nat /\ mutex_count \in 0 .. MaxMutexes
      /\ pmutex \in [PMutexes -> MutexId \cup {Static, Garbage}]
      /\ holds \in [Thread -> [MutexId -> Nat]] /\ DOMAIN call = Thread /\ MaxMutexes \in Nat
  BY PMutexAssumption DEF MutexInv, LockTypes, MutexTypeOK
<1>2. /\ m \in MutexId /\ m <= mutex_count
      /\ pmutex[p] # Static => m < mutex_count
      /\ Table(p) \in [MutexId -> Mutex] /\ mx \in Mutex
      /\ mx.owner # NoThread => mx.count >= 1
      /\ \A n \in MutexId : n # m => Table(p)[n] = mutexes[n]
      /\ \A q \in PMutexes : q # p => pmutex[q] # m
      /\ \A t \in Thread : ExclusiveMutex(mx) => OwnerExact(mx, t, holds[t][m], inhand[t][m])
  BY RegisterSound DEF pthread_mutex_destroy
<1>3. r \in Mutex /\ r.type = mx.type /\ (r.owner # NoThread => r.count >= 1)
  BY <1>2, DestroyedFields
<1>4. /\ mutexes' \in [MutexId -> Mutex] /\ mutexes'[m] = r
      /\ \A n \in MutexId : n # m => mutexes'[n] = mutexes[n]
  <2>1. mutexes' = [Table(p) EXCEPT ![m] = r]
    BY <1>2 DEF pthread_mutex_destroy
  <2>2. QED
    BY <1>2, <1>3, <2>1
<1>5. mutex_count' \in 0 .. MaxMutexes /\ mutex_count' >= mutex_count /\ mutex_count' \in Nat
  BY <1>1 DEF pthread_mutex_destroy
<1>6. /\ pmutex' \in [PMutexes -> MutexId \cup {Static, Garbage}] /\ pmutex'[p] \notin MutexId
      /\ \A q \in PMutexes : q # p => pmutex'[q] = pmutex[q]
  BY <1>1 DEF pthread_mutex_destroy, Garbage, MutexId
<1>7. UNCHANGED <<holds, call, blocked_by>> /\ inhand' = inhand
  BY TakenFrame DEF pthread_mutex_destroy, threadVars
<1>8. LockTypes'
  <2>1. \A n \in MutexId : mutexes'[n].owner # NoThread => mutexes'[n].count >= 1
    BY <1>2, <1>3, <1>4 DEF MutexInv, LockTypes
  <2>2. QED
    BY <1>1, <1>4, <1>5, <1>6, <1>7, <2>1 DEF LockTypes, MutexTypeOK
<1>9. \A q \in PMutexes : pmutex[q] \in MutexId =>
        pmutex[q] \in Int /\ pmutex[q] < mutex_count /\ mutexes[pmutex[q]].live
  BY DEF MutexInv, Handles, MutexId
<1>10. Handles'
  <2>1. \A q \in PMutexes : pmutex'[q] \in MutexId =>
          mutexes'[pmutex'[q]].live /\ pmutex'[q] < mutex_count'
    BY <1>1, <1>2, <1>4, <1>5, <1>6, <1>9
  <2>2. \A q1, q2 \in PMutexes : (q1 # q2 /\ pmutex'[q1] \in MutexId) => pmutex'[q1] # pmutex'[q2]
    BY <1>6 DEF MutexInv, Handles
  <2>3. \A n \in MutexId, t \in Thread : n >= mutex_count' => holds'[t][n] = 0
    BY <1>1, <1>5, <1>7 DEF MutexInv, Handles, MutexId
  <2>4. QED
    BY <2>1, <2>2, <2>3 DEF Handles
<1>11. Owners'
  <2> SUFFICES ASSUME NEW n \in MutexId, NEW t \in Thread, ExclusiveMutex(mutexes'[n])
               PROVE  OwnerExact(mutexes'[n], t, holds[t][n], inhand[t][n])
    BY <1>7 DEF Owners, ExclusiveMutex
  <2>1. CASE n = m
    <3>1. OwnerExact(mx, t, holds[t][m], inhand[t][m])
      BY <1>2, <1>3, <1>4, <2>1 DEF ExclusiveMutex
    <3>2. holds[t][m] \in Nat /\ inhand[t][m] \in {0, 1}
      BY <1>1, <1>2 DEF inhand
    <3>3. OwnerExact(r, t, holds[t][m], inhand[t][m])
      BY <1>2, <3>1, <3>2, DestroyedExact
    <3>4. QED
      BY <1>4, <2>1, <3>3
  <2>2. CASE n # m
    BY <1>4, <2>2 DEF MutexInv, Owners
  <2>3. QED
    BY <2>1, <2>2
<1>12. Links'
  BY <1>1, <1>5, <1>7, LinksFrame
<1>13. QED
  BY <1>8, <1>10, <1>11, <1>12 DEF MutexInv

(* A wait for a mutex that has been granted returns to the guest. *)
LEMMA GrantStep ==
  ASSUME MutexInv, RunInv, phase = "guest", call[current].fn \in LockCalls,
         holds' = Granted(current, call[current].aux), Return,
         UNCHANGED <<mutexes, mutex_count, pmutex>>
  PROVE  MutexInv'
<1> DEFINE t == current
           m == call[t].aux
<1>1. /\ holds \in [Thread -> [MutexId -> Nat]] /\ mutex_count \in Nat /\ DOMAIN call = Thread
      /\ \A n \in MutexId : n \in Int
  BY PMutexAssumption DEF MutexInv, LockTypes, MutexTypeOK, MutexId
<1>2. t \in Thread /\ ~Blocked(t)
  BY DEF RunInv, TableOK, RunsOnlyRunnable
<1>3. m \in MutexId /\ m < mutex_count
  BY <1>2 DEF MutexInv, Links, Link
<1>4. /\ holds' \in [Thread -> [MutexId -> Nat]] /\ holds'[t][m] = holds[t][m] + 1
      /\ \A u \in Thread, n \in MutexId : (u # t \/ n # m) => holds'[u][n] = holds[u][n]
  BY <1>1, <1>2, <1>3 DEF Granted
<1>5. /\ call'[t] = NoCall /\ \A u \in Thread : u # t => call'[u] = call[u]
      /\ DOMAIN call' = Thread /\ blocked_by' = blocked_by
  BY <1>1, <1>2 DEF Return
<1>6. inhand[t][m] = 1
  BY <1>2, <1>3 DEF inhand, Taken, Pending
<1>7. \A n \in MutexId : inhand'[t][n] = 0
  BY <1>2, <1>5 DEF inhand, Taken, Pending, NoCall, Cl, LockCalls, WaitCalls
<1>8. \A u \in Thread, n \in MutexId : (u # t \/ n # m) => inhand'[u][n] = inhand[u][n]
  <2> TAKE u \in Thread, n \in MutexId
  <2>1. CASE u # t
    BY <1>5, <2>1 DEF inhand, Taken, Pending, Blocked
  <2>2. CASE u = t /\ n # m
    BY <1>2, <1>7, <2>2 DEF inhand, Taken, Pending
  <2>3. QED
    BY <2>1, <2>2
<1>9. LockTypes'
  BY <1>4, <1>5 DEF MutexInv, LockTypes, MutexTypeOK
<1>10. Handles'
  <2>1. \A n \in MutexId, u \in Thread : n >= mutex_count => holds'[u][n] = 0
    BY <1>1, <1>3, <1>4 DEF MutexInv, Handles
  <2>2. QED
    BY <2>1 DEF MutexInv, Handles
<1>11. Owners'
  <2> SUFFICES ASSUME NEW n \in MutexId, NEW u \in Thread, ExclusiveMutex(mutexes[n])
               PROVE  OwnerExact(mutexes[n], u, holds'[u][n], inhand'[u][n])
    BY DEF Owners, ExclusiveMutex
  <2>1. OwnerExact(mutexes[n], u, holds[u][n], inhand[u][n])
    BY DEF MutexInv, Owners
  <2>2. CASE u = t /\ n = m
    <3>1. OwnerExact(mutexes[m], t, holds[t][m], 1)
      BY <1>6, <2>1, <2>2
    <3>2. mutexes[m].phantom[t] = 0 /\ mutexes[m].count = 1 /\ holds[t][m] = 0
          /\ mutexes[m].live /\ mutexes[m].owner = t
      BY <3>1 DEF OwnerExact
    <3>3. OwnerExact(mutexes[m], t, 1, 0)
      BY <3>2 DEF OwnerExact
    <3>4. QED
      BY <1>3, <1>4, <1>7, <2>2, <3>2, <3>3
  <2>3. CASE u # t \/ n # m
    BY <1>4, <1>8, <2>1, <2>3
  <2>4. QED
    BY <2>2, <2>3
<1>12. Links'
  <2> SUFFICES ASSUME NEW u \in Thread PROVE Link(u)'
    BY DEF Links
  <2>1. CASE u = t
    <3>1. blocked_by[t].kind = "NotBlocked"
      BY <1>2 DEF Blocked
    <3>2. call'[t].fn = "none"
      BY <1>5 DEF NoCall, Cl
    <3>3. QED
      BY <1>5, <2>1, <3>1, <3>2 DEF Link, BlockKind, LockCalls, WaitCalls
  <2>2. CASE u # t
    BY <1>1, <1>5, <2>2, LinkLater
  <2>3. QED
    BY <2>1, <2>2
<1>13. QED
  BY <1>9, <1>10, <1>11, <1>12 DEF MutexInv

-----------------------------------------------------------------------------
(* Steps that leave the mutexes alone, and the scheduler's relock *)

LEMMA ForeignStep ==
  ASSUME MutexInv, UNCHANGED mutexVars, DOMAIN call' = Thread,
         \A t \in Thread : inhand'[t] = inhand[t] /\ Link(t)'
  PROVE  MutexInv'
<1>1. LockTypes' /\ Handles'
  BY DEF MutexInv, LockTypes, MutexTypeOK, Handles, mutexVars
<1>2. Owners'
  BY DEF MutexInv, Owners, ExclusiveMutex, mutexVars
<1>3. QED
  BY <1>1, <1>2 DEF MutexInv, Links

(* Threads whose block or call changes are not after a mutex. *)
LEMMA OtherCallStep ==
  ASSUME MutexInv, UNCHANGED mutexVars, DOMAIN call' = Thread,
         \A t \in Thread :
           \/ call'[t] = call[t] /\ blocked_by'[t] = blocked_by[t]
           \/ call[t].fn \notin LockCalls /\ call'[t].fn \notin LockCalls /\ Link(t)'
  PROVE  MutexInv'
<1>1. mutex_count' \in Nat /\ mutex_count' >= mutex_count
  BY PMutexAssumption DEF MutexInv, LockTypes, MutexTypeOK, mutexVars
<1>2. ASSUME NEW t \in Thread PROVE inhand'[t] = inhand[t] /\ Link(t)'
  <2>1. CASE call'[t] = call[t] /\ blocked_by'[t] = blocked_by[t]
    <3>1. inhand'[t] = inhand[t]
      BY <2>1 DEF inhand, Taken, Pending, Blocked
    <3>2. QED
      BY <1>1, <2>1, <3>1, LinkLater
  <2>2. CASE call[t].fn \notin LockCalls /\ call'[t].fn \notin LockCalls /\ Link(t)'
    <3>1. inhand'[t] = inhand[t]
      BY <2>2 DEF inhand, Taken, Pending
    <3>2. QED
      BY <2>2, <3>1
  <2>3. QED
    BY <2>1, <2>2
<1>3. QED
  BY <1>2, ForeignStep

LEMMA QuietStep ==
  ASSUME MutexInv, UNCHANGED mutexVars, UNCHANGED <<call, blocked_by>>
  PROVE  MutexInv'
<1>1. DOMAIN call' = Thread
  BY DEF MutexInv, LockTypes
<1>2. QED
  BY <1>1, OtherCallStep

(* A blocking call that is not about a mutex. *)
LEMMA YieldStep ==
  ASSUME MutexInv, RunInv, Calling, NEW b, NEW c, Yield(b, c), UNCHANGED mutexVars,
         c.fn \notin LockCalls, b.kind \in {"Sleeping", "Semaphore", "Joining"},
         b.kind = "Sleeping" => c.fn = "none",
         b.kind = "Semaphore" => c.fn = "sem_wait",
         b.kind = "Joining" => c.fn = "join" /\ c.obj = b.obj
  PROVE  MutexInv'
<1>1. current \in Thread /\ DOMAIN blocked_by = Thread /\ DOMAIN call = Thread
  BY DEF RunInv, TableOK, MutexInv, LockTypes
<1>2. blocked_by'[current] = b /\ call'[current] = c
  BY <1>1 DEF Yield
<1>3. \A t \in Thread : t # current => call'[t] = call[t] /\ blocked_by'[t] = blocked_by[t]
  BY <1>1 DEF Yield
<1>4. Link(current)'
  <2>1. current' = current
    BY DEF Yield
  <2>2. QED
    BY <1>2, <2>1 DEF Link, BlockKind
<1>5. current' = current /\ DOMAIN call' = Thread
  BY <1>1 DEF Yield
<1>6. call[current].fn \notin LockCalls
  BY DEF Calling, LockCalls, WaitCalls
<1>7. QED
  BY <1>1, <1>2, <1>3, <1>4, <1>5, <1>6, OtherCallStep

(* The scheduler wakes a thread that was not waiting for a mutex. *)
LEMMA WakeStep ==
  ASSUME MutexInv, RunInv, NEW t \in Thread, Wake(t), UNCHANGED mutexVars,
         blocked_by[t].kind \in {"Sleeping", "Semaphore", "Joining"},
         DOMAIN call' = Thread, call'[t].fn = call[t].fn,
         \A u \in Thread : u # t => call'[u] = call[u]
  PROVE  MutexInv'
<1>1. DOMAIN blocked_by = Thread
  BY DEF RunInv, TableOK
<1>2. /\ blocked_by'[t].kind = "NotBlocked"
      /\ \A u \in Thread : u # t => blocked_by'[u] = blocked_by[u]
  BY <1>1 DEF Wake, NotBlocked, Blk
<1>3. call[t].fn \notin LockCalls
  BY DEF MutexInv, Links, Link, LockCalls, WaitCalls
<1>4. Link(t)'
  BY <1>2, <1>3 DEF Link, BlockKind
<1>5. QED
  BY <1>2, <1>3, <1>4, OtherCallStep

LEMMA RelockStep ==
  ASSUME MutexInv, RunInv, NEW t \in Thread, NEW m, Blocked(t), ~IsLocked(mutexes[m]),
         RelockFor(t, m), UNCHANGED <<mutex_count, pmutex, holds>>,
         "cond_reinit" \notin Misuse => Pending(t, m)
  PROVE  MutexInv'
<1> DEFINE mx == mutexes[m]
           r == Relocked(mx, t)
<1>1. /\ mutexes \in [MutexId -> Mutex] /\ mutex_count \in Nat
      /\ holds \in [Thread -> [MutexId -> Nat]] /\ DOMAIN call = Thread
      /\ DOMAIN blocked_by = Thread
  BY PMutexAssumption DEF RunInv, TableOK, MutexInv, LockTypes, MutexTypeOK
<1>2. CASE ~mx.live
  BY <1>2, QuietStep DEF RelockFor, Panic, mutexVars
<1>3. CASE mx.live
  <2>1. /\ mutexes' = [mutexes EXCEPT ![m] = r] /\ call' = call
        /\ blocked_by'[t].kind = "NotBlocked"
        /\ \A u \in Thread : u # t => blocked_by'[u] = blocked_by[u]
    BY <1>1, <1>3 DEF RelockFor, Wake, NotBlocked, Blk
  <2>2. Links'
    <3> SUFFICES ASSUME NEW u \in Thread PROVE Link(u)'
      BY DEF Links
    <3>1. CASE u = t
      <4>1. call[t].fn \in LockCalls => call[t].aux \in MutexId /\ call[t].aux < mutex_count
        BY DEF MutexInv, Links, Link
      <4>2. QED
        BY <2>1, <3>1, <4>1 DEF Link, BlockKind
    <3>2. CASE u # t
      BY <1>1, <2>1, <3>2, LinkLater
    <3>3. QED
      BY <3>1, <3>2
  <2>3. CASE m \notin MutexId
    <3>1. mutexes' = mutexes
      BY <1>1, <2>1, <2>3
    <3>2. "cond_reinit" \in Misuse
      BY <2>3 DEF MutexInv, Links, Link, Pending
    <3>3. Owners'
      BY <3>2 DEF Owners, ExclusiveMutex
    <3>4. LockTypes' /\ Handles'
      BY <2>1, <3>1 DEF MutexInv, LockTypes, MutexTypeOK, Handles
    <3>5. QED
      BY <2>2, <3>3, <3>4 DEF MutexInv
  <2>4. CASE m \in MutexId
    <3>1. mx \in Mutex /\ mx.owner = NoThread
      BY <1>1, <1>3, <2>4 DEF IsLocked
    <3>2. r \in Mutex /\ r.live /\ r.type = mx.type /\ r.count = 1
      BY <1>3, <3>1, RelockedFields
    <3>3. /\ mutexes' \in [MutexId -> Mutex] /\ mutexes'[m] = r
          /\ \A n \in MutexId : n # m => mutexes'[n] = mutexes[n]
      BY <1>1, <2>1, <2>4, <3>2
    <3>4. LockTypes'
      <4>1. \A n \in MutexId : mutexes'[n].owner # NoThread => mutexes'[n].count >= 1
        BY <3>2, <3>3 DEF MutexInv, LockTypes
      <4>2. QED
        BY <2>1, <3>3, <4>1 DEF MutexInv, LockTypes, MutexTypeOK
    <3>5. Handles'
      <4>1. \A n \in MutexId : mutexes[n].live => mutexes'[n].live
        BY <3>2, <3>3
      <4>2. QED
        BY <4>1 DEF MutexInv, Handles
    <3>6. Owners'
      <4> SUFFICES ASSUME NEW n \in MutexId, NEW u \in Thread, ExclusiveMutex(mutexes'[n])
                   PROVE  OwnerExact(mutexes'[n], u, holds[u][n], inhand'[u][n])
        BY DEF Owners, ExclusiveMutex
      <4>1. Pending(t, m)
        BY DEF ExclusiveMutex
      <4>2. OwnerExact(mutexes[n], u, holds[u][n], inhand[u][n])
        BY <3>2, <3>3 DEF MutexInv, Owners, ExclusiveMutex
      <4>3. holds[u][n] \in Nat /\ inhand[u][n] \in {0, 1}
        BY <1>1 DEF inhand
      <4>4. CASE u = t /\ n = m
        <5>1. inhand'[u][n] = 1
          BY <2>1, <4>1, <4>4 DEF inhand, Taken, Pending, Blocked
        <5>2. OwnerExact(r, u, holds[u][n], 1)
          BY <1>3, <3>1, <4>2, <4>3, <4>4, RelockedExact
        <5>3. QED
          BY <3>3, <4>4, <5>1, <5>2
      <4>5. CASE u # t /\ n = m
        <5>1. inhand'[u][n] = inhand[u][n]
          BY <2>1, <4>5 DEF inhand, Taken, Pending, Blocked
        <5>2. OwnerExact(r, u, holds[u][n], inhand[u][n])
          BY <1>3, <3>1, <4>2, <4>3, <4>5, RelockedExact
        <5>3. QED
          BY <3>3, <4>5, <5>1, <5>2
      <4>6. CASE n # m
        <5>1. inhand'[u][n] = inhand[u][n]
          <6>1. CASE u = t
            BY <2>1, <4>1, <4>6, <6>1 DEF inhand, Taken, Pending
          <6>2. CASE u # t
            BY <2>1, <6>2 DEF inhand, Taken, Pending, Blocked
          <6>3. QED
            BY <6>1, <6>2
        <5>2. QED
          BY <3>3, <4>2, <4>6, <5>1
      <4>7. QED
        BY <4>4, <4>5, <4>6
    <3>7. QED
      BY <2>2, <3>4, <3>5, <3>6 DEF MutexInv
  <2>5. QED
    BY <2>3, <2>4
<1>4. QED
  BY <1>2, <1>3

(* The first half of a condition wait, as far as the mutex is concerned. *)
LEMMA WaitStep ==
  ASSUME MutexInv, RunInv, Calling, NEW c \in Conds, NEW p \in PMutexes,
         NEW fn \in WaitCalls, Wait(c, p, fn)
  PROVE  MutexInv'
<1> DEFINE m == IdOf(p)
           mx == Table(p)[m]
<1>1. CheckOrRegister(p) /\ MayUnlock(mx, current)
  BY DEF Wait
<1>2. /\ current \in Thread /\ DOMAIN blocked_by = Thread /\ DOMAIN call = Thread
      /\ mutex_count \in Nat /\ MaxMutexes \in Nat /\ m \in MutexId /\ m <= mutex_count
      /\ pmutex[p] # Static => m < mutex_count
  BY <1>1, RegisterSound, PMutexAssumption
     DEF CheckOrRegister, RunInv, TableOK, MutexInv, LockTypes, MutexTypeOK
<1>3. mutex_count' \in Nat /\ mutex_count' >= mutex_count /\ m < mutex_count'
  BY <1>1, <1>2 DEF CheckOrRegister, MutexId
<1>4. CASE UnlockFails(mx, current)
  BY <1>1, <1>4, RegisterStep DEF Wait
<1>5. CASE ~UnlockFails(mx, current)
  <2> DEFINE b == Blk("Condition", c, fn = "cond_timedwait")
             cl == Cl(fn, c, m)
  <2>1. /\ mutexes' = [Table(p) EXCEPT ![m] = Unlocked(mx, current)]
        /\ holds' = Released(current, m)
        /\ Yield(b, cl) \/ UNCHANGED <<call, blocked_by>>
    BY <1>5 DEF Wait, Panic
  <2>2. CASE UNCHANGED <<call, blocked_by>>
    <3>1. inhand' = inhand /\ DOMAIN call' = Thread
      BY <1>2, <2>2, TakenFrame
    <3>2. LockTypes' /\ Handles' /\ Owners'
      BY <1>1, <1>5, <2>1, <3>1, UnlockStep
    <3>3. Links'
      BY <1>3, <2>2, LinksFrame
    <3>4. QED
      BY <3>2, <3>3 DEF MutexInv
  <2>3. CASE Yield(b, cl)
    <3>1. b.kind = "Condition" /\ b.obj = c /\ cl.fn = fn /\ cl.aux = m
      BY DEF Blk, Cl
    <3>2. inhand' = inhand
      BY <1>2, <2>3, <3>1, TakenYield DEF Calling
    <3>3. /\ blocked_by'[current] = b /\ call'[current] = cl /\ DOMAIN call' = Thread
          /\ \A t \in Thread : t # current => call'[t] = call[t] /\ blocked_by'[t] = blocked_by[t]
      BY <1>2, <2>3 DEF Yield
    <3>4. LockTypes' /\ Handles' /\ Owners'
      BY <1>1, <1>5, <2>1, <3>2, <3>3, UnlockStep
    <3>5. ASSUME NEW t \in Thread PROVE Link(t)'
      <4>1. CASE t = current
        BY <1>2, <1>3, <3>1, <3>3, <4>1 DEF Link, BlockKind, LockCalls
      <4>2. CASE t # current
        BY <1>3, <3>3, <4>2, LinkLater
      <4>3. QED
        BY <4>1, <4>2
    <3>6. QED
      BY <3>4, <3>5 DEF MutexInv, Links
  <2>4. QED
    BY <2>1, <2>2, <2>3
<1>6. QED
  BY <1>4, <1>5

-----------------------------------------------------------------------------
(* Queues of condition variables *)

LEMMA AppendQueued ==
  ASSUME NEW q \in Seq(Thread), NEW t \in Thread
  PROVE  /\ Append(q, t) \in Seq(Thread) /\ Queued(Append(q, t), t)
         /\ \A u : Queued(q, u) => Queued(Append(q, t), u)
<1>1. Append(q, t) \in Seq(Thread) /\ Len(Append(q, t)) = Len(q) + 1 /\ Len(q) \in Nat
  OBVIOUS
<1>2. Append(q, t)[Len(q) + 1] = t /\ \A i \in 1 .. Len(q) : Append(q, t)[i] = q[i]
  OBVIOUS
<1>3. QED
  BY <1>1, <1>2 DEF Queued

LEMMA TailQueued ==
  ASSUME NEW q \in Seq(Thread), q # <<>>
  PROVE  /\ Tail(q) \in Seq(Thread) /\ Head(q) \in Thread
         /\ \A u : Queued(q, u) => u = Head(q) \/ Queued(Tail(q), u)
<1>1. Tail(q) \in Seq(Thread) /\ Head(q) \in Thread /\ Len(q) \in Nat /\ Len(q) # 0
  OBVIOUS
<1>2. Len(Tail(q)) = Len(q) - 1 /\ Head(q) = q[1]
  BY <1>1
<1>3. \A i \in 1 .. Len(q) - 1 : Tail(q)[i] = q[i + 1]
  BY <1>1
<1>4. ASSUME NEW u, NEW i \in 1 .. Len(q), q[i] = u, i # 1 PROVE Queued(Tail(q), u)
  <2>1. i - 1 \in 1 .. Len(Tail(q)) /\ Tail(q)[i - 1] = u
    BY <1>1, <1>2, <1>3, <1>4
  <2>2. QED
    BY <2>1 DEF Queued
<1>5. QED
  BY <1>1, <1>2, <1>4 DEF Queued

LEMMA ConcatQueued ==
  ASSUME NEW q \in Seq(Thread), NEW r \in Seq(Thread)
  PROVE  /\ q \o r \in Seq(Thread)
         /\ \A u : Queued(q, u) \/ Queued(r, u) => Queued(q \o r, u)
<1>1. q \o r \in Seq(Thread) /\ Len(q \o r) = Len(q) + Len(r) /\ Len(q) \in Nat /\ Len(r) \in Nat
  OBVIOUS
<1>2. \A i \in 1 .. Len(q) : (q \o r)[i] = q[i]
  OBVIOUS
<1>3. \A i \in 1 .. Len(r) : (q \o r)[Len(q) + i] = r[i]
  OBVIOUS
<1>4. ASSUME NEW u, Queued(r, u) PROVE Queued(q \o r, u)
  <2>1. PICK i \in 1 .. Len(r) : r[i] = u
    BY <1>4 DEF Queued
  <2>2. Len(q) + i \in 1 .. Len(q \o r) /\ (q \o r)[Len(q) + i] = u
    BY <1>1, <1>3, <2>1
  <2>3. QED
    BY <2>2 DEF Queued
<1>5. ASSUME NEW u, Queued(q, u) PROVE Queued(q \o r, u)
  BY <1>1, <1>2, <1>5 DEF Queued
<1>6. QED
  BY <1>1, <1>4, <1>5

LEMMA WithoutQueued ==
  ASSUME NEW q \in Seq(Thread), NEW t
  PROVE  /\ Without(q, t) \in Seq(Thread)
         /\ \A u : (u # t /\ Queued(q, u)) => Queued(Without(q, t), u)
<1>1. CASE ~Queued(q, t)
  BY <1>1 DEF Without
<1>2. CASE Queued(q, t)
  <2> DEFINE k == CHOOSE i \in 1 .. Len(q) : q[i] = t
             a == SubSeq(q, 1, k - 1)
             b == SubSeq(q, k + 1, Len(q))
  <2>1. k \in 1 .. Len(q) /\ q[k] = t /\ Len(q) \in Nat
    BY <1>2 DEF Queued
  <2>2. Without(q, t) = a \o b
    BY <1>2 DEF Without
  <2> HIDE DEF k
  <2>3. /\ a \in Seq(Thread) /\ Len(a) = k - 1
        /\ \A i \in 1 .. k - 1 : a[i] = q[i]
    BY <2>1
  <2>4. /\ b \in Seq(Thread) /\ Len(b) = Len(q) - k
        /\ \A i \in 1 .. Len(q) - k : b[i] = q[k + i]
    BY <2>1
  <2> HIDE DEF a, b
  <2>5. ASSUME NEW u, u # t, Queued(q, u) PROVE Queued(a \o b, u)
    <3>1. PICK i \in 1 .. Len(q) : q[i] = u
      BY <2>5 DEF Queued
    <3>2. CASE i < k
      <4>1. i \in 1 .. Len(a) /\ a[i] = u
        BY <2>1, <2>3, <3>1, <3>2
      <4>2. Queued(a, u)
        BY <4>1 DEF Queued
      <4>3. QED
        BY <2>3, <2>4, <4>2, ConcatQueued
    <3>3. CASE i > k
      <4>1. i - k \in 1 .. Len(b) /\ b[i - k] = u
        BY <2>1, <2>4, <3>1, <3>3
      <4>2. Queued(b, u)
        BY <4>1 DEF Queued
      <4>3. QED
        BY <2>3, <2>4, <4>2, ConcatQueued
    <3>4. QED
      BY <2>1, <2>5, <3>1, <3>2, <3>3
  <2>6. QED
    BY <2>2, <2>3, <2>4, <2>5, ConcatQueued
<1>3. QED
  BY <1>1, <1>2

-----------------------------------------------------------------------------
(* pthread_cond_* *)

(* Condition variable c becomes cv, and nobody who still waits loses its    *)
(* place in a queue, or its mutex.                                         *)
LEMMA CondStep ==
  ASSUME MutexInv, CondLinks, NEW c \in Conds, NEW cv \in CondObject,
         conds' = [conds EXCEPT ![c] = cv],
         \A t \in Thread : CondWaiter(t)' =>
           /\ CondWaiter(t) /\ blocked_by'[t] = blocked_by[t] /\ call'[t] = call[t]
           /\ blocked_by[t].obj = c =>
                /\ cv.state # "static" /\ cv.curr_mutex = conds[c].curr_mutex
                /\ Queued(cv.waiting, t) \/ Queued(cv.waking, t)
  PROVE  CondLinks'
<1>1. conds \in [Conds -> CondObject]
  BY DEF CondLinks, CondTypeOK
<1>2. conds' \in [Conds -> CondObject] /\ conds'[c] = cv /\ \A d \in Conds : d # c => conds'[d] = conds[d]
  BY <1>1
<1>3. ASSUME NEW t \in Thread, CondWaiter(t)' PROVE CondLink(t)'
  <2>1. CondWaiter(t) /\ blocked_by'[t] = blocked_by[t] /\ call'[t] = call[t] /\ CondLink(t)
    BY <1>3 DEF CondLinks
  <2>2. blocked_by[t].obj \in Conds
    BY <2>1 DEF CondWaiter, MutexInv, Links, Link
  <2>3. CASE blocked_by[t].obj = c
    BY <1>2, <1>3, <2>1, <2>3 DEF CondLink
  <2>4. CASE blocked_by[t].obj # c
    BY <1>2, <2>1, <2>2, <2>4 DEF CondLink
  <2>5. QED
    BY <2>3, <2>4
<1>4. QED
  BY <1>2, <1>3 DEF CondLinks, CondTypeOK

LEMMA CondFields ==
  ASSUME NEW cv \in CondObject
  PROVE  /\ cv.state \in {"static", "live", "gone"} /\ cv.waiting \in Seq(Thread)
         /\ cv.waking \in Seq(Thread) /\ cv.curr_mutex \in MutexId \cup {NoMutex}
         /\ cv.timed_out \in SUBSET Thread
  BY DEF CondObject

LEMMA RegisteredType ==
  ASSUME CondLinks, NEW c \in Conds
  PROVE  /\ Registered(c) \in CondObject /\ Registered(c).state # "static"
         /\ conds[c].state # "static" => Registered(c) = conds[c]
<1>1. FreshCond \in CondObject
  BY EmptySeq DEF FreshCond, CondObject
<1>2. conds[c] \in CondObject
  BY DEF CondLinks, CondTypeOK
<1>3. FreshCond.state = "live"
  BY DEF FreshCond
<1>4. QED
  BY <1>1, <1>2, <1>3 DEF Registered

(* What CondLink says of a waiter on c. *)
LEMMA WaiterOn ==
  ASSUME CondLinks, NEW c \in Conds, NEW t \in Thread, CondWaiter(t), blocked_by[t].obj = c
  PROVE  /\ conds[c].state # "static" /\ Registered(c) = conds[c] /\ call[t].obj = c
         /\ conds[c].curr_mutex = call[t].aux
         /\ Queued(conds[c].waiting, t) \/ Queued(conds[c].waking, t)
<1>1. CondLink(t)
  BY DEF CondLinks
<1>2. QED
  BY <1>1, RegisteredType DEF CondLink

LEMMA CondInitStep ==
  ASSUME MutexInv, CondLinks, NEW c \in Conds, pthread_cond_init(c)
  PROVE  CondLinks'
<1>1. FreshCond \in CondObject
  BY EmptySeq DEF FreshCond, CondObject
<1>2. ASSUME NEW t \in Thread, CondWaiter(t)'
      PROVE  /\ CondWaiter(t) /\ blocked_by'[t] = blocked_by[t] /\ call'[t] = call[t]
             /\ blocked_by[t].obj # c
  <2>1. CondWaiter(t) /\ blocked_by'[t] = blocked_by[t] /\ call'[t] = call[t]
    BY <1>2 DEF CondWaiter, pthread_cond_init, threadVars, runVars
  <2>2. call[t].fn \in WaitCalls
    BY <2>1 DEF MutexInv, Links, Link, CondWaiter
  <2>3. blocked_by[t].obj = c => call[t].obj = c
    BY <2>1, WaiterOn
  <2>4. QED
    BY <2>1, <2>2, <2>3 DEF pthread_cond_init, CondWaiter, WaitCalls
<1>3. conds' = [conds EXCEPT ![c] = FreshCond]
  BY DEF pthread_cond_init
<1>4. QED
  BY <1>1, <1>2, <1>3, CondStep

LEMMA SignalStep ==
  ASSUME MutexInv, CondLinks, NEW c \in Conds, pthread_cond_signal(c)
  PROVE  CondLinks'
<1> DEFINE cv == Registered(c)
           r == Signalled(cv)
<1>1. /\ cv \in CondObject /\ cv.state # "static" /\ cv.waiting \in Seq(Thread)
      /\ cv.waking \in Seq(Thread)
  BY RegisteredType, CondFields
<1>2. CASE cv.waiting = <<>>
  <2>1. r = cv
    BY <1>2 DEF Signalled
  <2>2. QED
    <3>1. \A t \in Thread : CondWaiter(t)' =>
            CondWaiter(t) /\ blocked_by'[t] = blocked_by[t] /\ call'[t] = call[t]
      BY DEF CondWaiter, pthread_cond_signal, threadVars, runVars
    <3>2. conds' = [conds EXCEPT ![c] = cv]
      BY <2>1 DEF pthread_cond_signal
    <3>3. ASSUME NEW t \in Thread, CondWaiter(t), blocked_by[t].obj = c
          PROVE  cv.curr_mutex = conds[c].curr_mutex /\ (Queued(cv.waiting, t) \/ Queued(cv.waking, t))
      BY <3>3, WaiterOn
    <3>4. QED
      BY <1>1, <3>1, <3>2, <3>3, CondStep
<1>3. CASE cv.waiting # <<>>
  <2> DEFINE w == Tail(cv.waiting)
             k == Append(cv.waking, Head(cv.waiting))
  <2>1. w \in Seq(Thread) /\ k \in Seq(Thread)
    BY <1>1, <1>3, TailQueued, AppendQueued
  <2>2. r = [cv EXCEPT !.waiting = w, !.waking = k]
    BY <1>3 DEF Signalled
  <2>3. \A t \in Thread : Queued(cv.waiting, t) \/ Queued(cv.waking, t) => Queued(w, t) \/ Queued(k, t)
    BY <1>1, <1>3, TailQueued, AppendQueued
  <2> HIDE DEF w, k, cv
  <2>4. /\ r \in CondObject /\ r.state = cv.state /\ r.curr_mutex = cv.curr_mutex
        /\ r.waiting = w /\ r.waking = k
    BY <1>1, <2>1, <2>2 DEF CondObject
  <2>5. \A t \in Thread : CondWaiter(t)' =>
          CondWaiter(t) /\ blocked_by'[t] = blocked_by[t] /\ call'[t] = call[t]
    BY DEF CondWaiter, pthread_cond_signal, threadVars, runVars
  <2>6. conds' = [conds EXCEPT ![c] = r]
    BY DEF pthread_cond_signal, cv
  <2>7. ASSUME NEW t \in Thread, CondWaiter(t), blocked_by[t].obj = c
        PROVE  r.curr_mutex = conds[c].curr_mutex /\ (Queued(r.waiting, t) \/ Queued(r.waking, t))
    <3>1. cv.curr_mutex = conds[c].curr_mutex /\ (Queued(cv.waiting, t) \/ Queued(cv.waking, t))
      BY <2>7, WaiterOn DEF cv
    <3>2. QED
      BY <2>3, <2>4, <3>1
  <2>8. r.state # "static"
    BY <1>1, <2>4
  <2> HIDE DEF r
  <2>9. QED
    BY <2>4, <2>5, <2>6, <2>7, <2>8, CondStep
<1>4. QED
  BY <1>2, <1>3

LEMMA BroadcastStep ==
  ASSUME MutexInv, CondLinks, NEW c \in Conds, pthread_cond_broadcast(c)
  PROVE  CondLinks'
<1> DEFINE cv == Registered(c)
           k == cv.waking \o conds[c].waiting
           r == [cv EXCEPT !.waking = k, !.waiting = <<>>]
<1>1. cv \in CondObject /\ cv.state # "static" /\ cv.waking \in Seq(Thread)
  BY RegisteredType, CondFields
<1>2. conds[c].waiting \in Seq(Thread)
  BY CondFields DEF CondLinks, CondTypeOK
<1>3. k \in Seq(Thread) /\ \A t \in Thread : Queued(conds[c].waiting, t) \/ Queued(cv.waking, t) => Queued(k, t)
  BY <1>1, <1>2, ConcatQueued
<1>4. conds' = [conds EXCEPT ![c] = r]
  BY DEF pthread_cond_broadcast
<1> HIDE DEF k
<1>5. r \in CondObject /\ r.state = cv.state /\ r.curr_mutex = cv.curr_mutex /\ r.waking = k
  BY <1>1, <1>3, EmptySeq DEF CondObject
<1>6. \A t \in Thread : CondWaiter(t)' =>
        CondWaiter(t) /\ blocked_by'[t] = blocked_by[t] /\ call'[t] = call[t]
  BY DEF CondWaiter, pthread_cond_broadcast, threadVars, runVars
<1>7. ASSUME NEW t \in Thread, CondWaiter(t), blocked_by[t].obj = c
      PROVE  r.curr_mutex = conds[c].curr_mutex /\ Queued(r.waking, t)
  <2>1. cv = conds[c] /\ (Queued(conds[c].waiting, t) \/ Queued(conds[c].waking, t))
    BY <1>7, WaiterOn
  <2>2. QED
    BY <1>3, <1>5, <2>1
<1> HIDE DEF r, cv
<1>8. QED
  BY <1>1, <1>4, <1>5, <1>6, <1>7, CondStep

LEMMA CondDestroyStep ==
  ASSUME MutexInv, CondLinks, NEW c \in Conds, pthread_cond_destroy(c)
  PROVE  CondLinks'
<1> DEFINE cv == conds[c]
           r == [cv EXCEPT !.state = "gone"]
<1>1. cv \in CondObject
  BY DEF CondLinks, CondTypeOK
<1>2. conds' = [conds EXCEPT ![c] = r]
  BY DEF pthread_cond_destroy
<1> HIDE DEF cv
<1>3. /\ r \in CondObject /\ r.state = "gone" /\ r.curr_mutex = cv.curr_mutex
      /\ r.waiting = cv.waiting /\ r.waking = cv.waking
  BY <1>1 DEF CondObject
<1>4. \A t \in Thread : CondWaiter(t)' =>
        CondWaiter(t) /\ blocked_by'[t] = blocked_by[t] /\ call'[t] = call[t]
  BY DEF CondWaiter, pthread_cond_destroy, threadVars, runVars, Panic
<1>5. ASSUME NEW t \in Thread, CondWaiter(t), blocked_by[t].obj = c
      PROVE  r.curr_mutex = conds[c].curr_mutex /\ (Queued(r.waiting, t) \/ Queued(r.waking, t))
  BY <1>3, <1>5, WaiterOn DEF cv
<1> HIDE DEF r
<1>6. QED
  BY <1>2, <1>3, <1>4, <1>5, CondStep

LEMMA WaitCondStep ==
  ASSUME MutexInv, RunInv, CondLinks, Calling, NEW c \in Conds, NEW p \in PMutexes,
         NEW fn \in WaitCalls, Wait(c, p, fn)
  PROVE  CondLinks'
<1> DEFINE m == IdOf(p)
           mx == Table(p)[m]
           cv == Registered(c)
<1>1. /\ cv \in CondObject /\ cv.state # "static" /\ cv.waiting \in Seq(Thread)
      /\ cv.waking \in Seq(Thread)
  BY RegisteredType, CondFields
<1>2. current \in Thread /\ DOMAIN blocked_by = Thread /\ DOMAIN call = Thread
  BY DEF RunInv, TableOK, MutexInv, LockTypes
<1>3. m \in MutexId
  BY RegisterSound DEF Wait, CheckOrRegister
<1>4. CASE conds' = [conds EXCEPT ![c] = cv] /\ UNCHANGED <<call, blocked_by>>
  <2>1. \A t \in Thread : CondWaiter(t)' =>
          CondWaiter(t) /\ blocked_by'[t] = blocked_by[t] /\ call'[t] = call[t]
    BY <1>4 DEF CondWaiter, Calling
  <2>2. ASSUME NEW t \in Thread, CondWaiter(t), blocked_by[t].obj = c
        PROVE  cv.curr_mutex = conds[c].curr_mutex /\ (Queued(cv.waiting, t) \/ Queued(cv.waking, t))
    BY <2>2, WaiterOn
  <2>3. QED
    BY <1>1, <1>4, <2>1, <2>2, CondStep
<1>5. CASE /\ cv.curr_mutex = m \/ (cv.waiting = <<>> /\ cv.waking = <<>>)
           /\ conds' = [conds EXCEPT ![c] =
                [cv EXCEPT !.curr_mutex = m, !.waiting = Append(@, current)]]
           /\ Yield(Blk("Condition", c, fn = "cond_timedwait"), Cl(fn, c, m))
  <2> DEFINE w == Append(cv.waiting, current)
             r == [cv EXCEPT !.curr_mutex = m, !.waiting = w]
  <2>1. /\ w \in Seq(Thread) /\ Queued(w, current)
        /\ \A t : Queued(cv.waiting, t) => Queued(w, t)
    BY <1>1, <1>2, AppendQueued
  <2>2. conds' = [conds EXCEPT ![c] = r]
    BY <1>5
  <2>3. /\ blocked_by'[current].obj = c /\ blocked_by'[current].kind = "Condition"
        /\ call'[current].obj = c /\ call'[current].aux = m
        /\ \A t \in Thread : t # current => call'[t] = call[t] /\ blocked_by'[t] = blocked_by[t]
    BY <1>2, <1>5 DEF Yield, Blk, Cl
  <2>4. phase # "panic"
    BY DEF Calling
  <2>5. cv.curr_mutex = m \/ (cv.waiting = <<>> /\ cv.waking = <<>>)
    BY <1>5
  <2>6. ASSUME NEW t \in Thread, CondWaiter(t), blocked_by[t].obj = c
        PROVE  /\ cv = conds[c] /\ conds[c].curr_mutex = m /\ call[t].aux = m /\ call[t].obj = c
               /\ Queued(cv.waiting, t) \/ Queued(cv.waking, t)
    <3>1. /\ cv = conds[c] /\ conds[c].curr_mutex = call[t].aux /\ call[t].obj = c
          /\ Queued(cv.waiting, t) \/ Queued(cv.waking, t)
      BY <2>6, WaiterOn
    <3>2. ~(cv.waiting = <<>> /\ cv.waking = <<>>)
      BY <3>1, EmptySeq DEF Queued
    <3>3. QED
      BY <2>5, <3>1, <3>2
  <2> HIDE DEF w, cv, m
  <2>7. /\ r \in CondObject /\ r.state = cv.state /\ r.curr_mutex = m
        /\ r.waiting = w /\ r.waking = cv.waking
    BY <1>1, <1>3, <2>1 DEF CondObject
  <2> HIDE DEF r
  <2>8. /\ conds \in [Conds -> CondObject]
        /\ conds' \in [Conds -> CondObject] /\ conds'[c] = r
        /\ \A d \in Conds : d # c => conds'[d] = conds[d]
    BY <2>2, <2>7 DEF CondLinks, CondTypeOK
  <2>9. ASSUME NEW t \in Thread, CondWaiter(t)' PROVE CondLink(t)'
    <3>1. CASE t = current
      BY <1>1, <2>1, <2>3, <2>7, <2>8, <3>1 DEF CondLink
    <3>2. CASE t # current
      <4>1. CondWaiter(t) /\ blocked_by'[t] = blocked_by[t] /\ call'[t] = call[t] /\ CondLink(t)
        BY <2>3, <2>4, <2>9, <3>2 DEF CondWaiter, CondLinks
      <4>2. blocked_by[t].obj \in Conds
        BY <4>1 DEF CondWaiter, MutexInv, Links, Link
      <4>3. CASE blocked_by[t].obj = c
        BY <1>1, <2>1, <2>6, <2>7, <2>8, <4>1, <4>3 DEF CondLink
      <4>4. CASE blocked_by[t].obj # c
        BY <2>8, <4>1, <4>2, <4>4 DEF CondLink
      <4>5. QED
        BY <4>3, <4>4
    <3>3. QED
      BY <3>1, <3>2
  <2>10. QED
    BY <2>8, <2>9 DEF CondLinks, CondTypeOK
<1>6. QED
  BY <1>4, <1>5 DEF Wait, threadVars, Panic

LEMMA ReturnFromWaitCondStep ==
  ASSUME MutexInv, RunInv, CondLinks, ReturnFromWait
  PROVE  CondLinks'
<1> DEFINE c == call[current].obj
           cv == conds[c]
           r == [cv EXCEPT !.timed_out = @ \ {current}]
<1>1. /\ conds \in [Conds -> CondObject] /\ current \in Thread /\ DOMAIN call = Thread
      /\ ~Blocked(current)
  BY DEF CondLinks, CondTypeOK, RunInv, TableOK, MutexInv, LockTypes, ReturnFromWait,
         RunsOnlyRunnable
<1>2. CASE phase' = "panic" /\ conds' = conds
  BY <1>2 DEF CondLinks, CondTypeOK, CondWaiter
<1>3. CASE conds' = [conds EXCEPT ![c] = r] /\ Return
  <2>1. \A t \in Thread : CondWaiter(t)' =>
          CondWaiter(t) /\ blocked_by'[t] = blocked_by[t] /\ call'[t] = call[t]
    BY <1>1, <1>3 DEF CondWaiter, Return, runVars, Blocked
  <2>2. CASE c \notin Conds
    <3>1. conds' = conds
      BY <1>1, <1>3, <2>2
    <3>2. QED
      BY <2>1, <3>1 DEF CondLinks, CondTypeOK, CondWaiter, CondLink
  <2>3. CASE c \in Conds
    <3>1. cv \in CondObject
      BY <1>1, <2>3
    <3> HIDE DEF cv
    <3>2. /\ r \in CondObject /\ r.state = cv.state /\ r.curr_mutex = cv.curr_mutex
          /\ r.waiting = cv.waiting /\ r.waking = cv.waking
      <4>1. cv.timed_out \ {current} \in SUBSET Thread
        BY <3>1, CondFields
      <4>2. QED
        BY <3>1, <4>1 DEF CondObject
    <3>3. ASSUME NEW t \in Thread, CondWaiter(t), blocked_by[t].obj = c
          PROVE  /\ r.state # "static" /\ r.curr_mutex = conds[c].curr_mutex
                 /\ Queued(r.waiting, t) \/ Queued(r.waking, t)
      BY <2>3, <3>2, <3>3, WaiterOn DEF cv
    <3> HIDE DEF r, c
    <3>4. QED
      BY <1>3, <2>1, <2>3, <3>2, <3>3, CondStep
  <2>4. QED
    BY <2>2, <2>3
<1>4. QED
  BY <1>2, <1>3 DEF ReturnFromWait, Panic

(* The scheduler takes t out of the queues of its condition variable, and   *)
(* t no longer waits there.                                                *)
LEMMA UnqueueStep ==
  ASSUME MutexInv, CondLinks, NEW t \in Thread, blocked_by[t].kind = "Condition",
         phase # "panic", NEW cv \in CondObject,
         conds' = [conds EXCEPT ![blocked_by[t].obj] = cv], call' = call,
         \A u \in Thread : u # t => blocked_by'[u] = blocked_by[u],
         phase' = "panic" \/ blocked_by'[t].kind # "Condition",
         LET old == conds[blocked_by[t].obj] IN
         /\ cv.state = old.state /\ cv.curr_mutex = old.curr_mutex
         /\ \A u \in Thread : u # t =>
              /\ Queued(old.waiting, u) => Queued(cv.waiting, u)
              /\ Queued(old.waking, u) => Queued(cv.waking, u)
  PROVE  CondLinks'
<1> DEFINE c == blocked_by[t].obj
<1>1. c \in Conds
  BY DEF MutexInv, Links, Link
<1>2. \A u \in Thread : CondWaiter(u)' =>
        u # t /\ CondWaiter(u) /\ blocked_by'[u] = blocked_by[u] /\ call'[u] = call[u]
  BY DEF CondWaiter
<1>3. ASSUME NEW u \in Thread, u # t, CondWaiter(u), blocked_by[u].obj = c
      PROVE  /\ cv.state # "static" /\ cv.curr_mutex = conds[c].curr_mutex
             /\ Queued(cv.waiting, u) \/ Queued(cv.waking, u)
  BY <1>1, <1>3, WaiterOn
<1> HIDE DEF c
<1>4. conds' = [conds EXCEPT ![c] = cv]
  BY DEF c
<1>5. \A u \in Thread : CondWaiter(u)' =>
        /\ CondWaiter(u) /\ blocked_by'[u] = blocked_by[u] /\ call'[u] = call[u]
        /\ blocked_by[u].obj = c =>
             /\ cv.state # "static" /\ cv.curr_mutex = conds[c].curr_mutex
             /\ Queued(cv.waiting, u) \/ Queued(cv.waking, u)
  BY <1>2, <1>3
<1>6. QED
  BY <1>1, <1>4, <1>5, CondStep

LEMMA TimedOutFields ==
  ASSUME CondLinks, NEW t \in Thread, blocked_by[t].obj \in Conds, TimedOut(t)
  PROVE  \E cv \in CondObject :
           LET old == conds[blocked_by[t].obj] IN
           /\ conds' = [conds EXCEPT ![blocked_by[t].obj] = cv]
           /\ cv.state = old.state /\ cv.curr_mutex = old.curr_mutex
           /\ \A u \in Thread : u # t =>
                /\ Queued(old.waiting, u) => Queued(cv.waiting, u)
                /\ Queued(old.waking, u) => Queued(cv.waking, u)
<1> DEFINE old == conds[blocked_by[t].obj]
           w == Without(old.waiting, t)
           k == Without(old.waking, t)
           o == old.timed_out \cup {t}
           cv == [old EXCEPT !.timed_out = o, !.waking = k, !.waiting = w]
<1>1. /\ old \in CondObject /\ old.waiting \in Seq(Thread) /\ old.waking \in Seq(Thread)
      /\ o \in SUBSET Thread
  BY CondFields DEF CondLinks, CondTypeOK
<1>2. /\ w \in Seq(Thread) /\ k \in Seq(Thread)
      /\ \A u \in Thread : u # t =>
           /\ Queued(old.waiting, u) => Queued(w, u)
           /\ Queued(old.waking, u) => Queued(k, u)
  BY <1>1, WithoutQueued
<1>3. conds' = [conds EXCEPT ![blocked_by[t].obj] = cv]
  <2>1. GivenUp(old, t) = cv
    BY <1>1 DEF CondObject, GivenUp
  <2>2. QED
    BY <2>1 DEF TimedOut
<1> HIDE DEF w, k, o, old
<1>4. /\ cv \in CondObject /\ cv.state = old.state /\ cv.curr_mutex = old.curr_mutex
      /\ cv.waiting = w /\ cv.waking = k
  BY <1>1, <1>2 DEF CondObject
<1> HIDE DEF cv
<1>5. QED
  BY <1>2, <1>3, <1>4 DEF old

LEMMA SignalledFields ==
  ASSUME CondLinks, NEW t \in Thread, blocked_by[t].obj \in Conds, FirstSignalled(t),
         conds' = [conds EXCEPT ![blocked_by[t].obj].waking = Tail(@)]
  PROVE  \E cv \in CondObject :
           LET old == conds[blocked_by[t].obj] IN
           /\ conds' = [conds EXCEPT ![blocked_by[t].obj] = cv]
           /\ cv.state = old.state /\ cv.curr_mutex = old.curr_mutex
           /\ \A u \in Thread : u # t =>
                /\ Queued(old.waiting, u) => Queued(cv.waiting, u)
                /\ Queued(old.waking, u) => Queued(cv.waking, u)
<1> DEFINE old == conds[blocked_by[t].obj]
           k == Tail(old.waking)
           cv == [old EXCEPT !.waking = k]
<1>1. old \in CondObject /\ old.waking \in Seq(Thread) /\ old.waking # <<>> /\ Head(old.waking) = t
  BY CondFields DEF CondLinks, CondTypeOK, FirstSignalled
<1>2. k \in Seq(Thread) /\ \A u \in Thread : (u # t /\ Queued(old.waking, u)) => Queued(k, u)
  BY <1>1, TailQueued
<1>3. conds' = [conds EXCEPT ![blocked_by[t].obj] = cv]
  BY DEF CondLinks, CondTypeOK
<1> HIDE DEF k, old
<1>4. /\ cv \in CondObject /\ cv.state = old.state /\ cv.curr_mutex = old.curr_mutex
      /\ cv.waiting = old.waiting /\ cv.waking = k
  BY <1>1, <1>2 DEF CondObject
<1> HIDE DEF cv
<1>5. QED
  BY <1>2, <1>3, <1>4 DEF old

-----------------------------------------------------------------------------
(* Every step keeps LockInv *)

LEMMA LockQuiet ==
  ASSUME LockInv, UNCHANGED <<mutexVars, conds, call, blocked_by, len>>, active' \subseteq active,
         phase = "panic" => phase' = "panic"
  PROVE  LockInv'
<1>1. MutexInv'
  BY QuietStep DEF LockInv
<1>2. CondLinks'
  BY CondLinksFrame DEF LockInv
<1>3. Joins'
  BY JoinsFrame DEF LockInv, Blocked
<1>4. QED
  BY <1>1, <1>2, <1>3 DEF LockInv

LEMMA LockYield ==
  ASSUME LockInv, RunInv, Calling, NEW b, NEW c, Yield(b, c), UNCHANGED <<mutexVars, conds>>,
         c.fn \notin LockCalls, b.kind \in {"Sleeping", "Semaphore", "Joining"},
         b.kind = "Sleeping" => c.fn = "none",
         b.kind = "Semaphore" => c.fn = "sem_wait",
         b.kind = "Joining" => c.fn = "join" /\ c.obj = b.obj,
         c.fn = "join" => c.obj \in 0 .. len - 1
  PROVE  LockInv'
<1>1. MutexInv'
  BY YieldStep DEF LockInv
<1>2. /\ current \in Thread /\ blocked_by'[current] = b /\ call'[current] = c
      /\ \A t \in Thread : t # current => call'[t] = call[t] /\ blocked_by'[t] = blocked_by[t]
  BY DEF RunInv, TableOK, LockInv, MutexInv, LockTypes, Yield
<1>3. CondLinks'
  BY <1>2, CondLinksFrame DEF LockInv, Calling
<1>4. Joins'
  BY <1>2 DEF LockInv, Joins, Blocked, Yield
<1>5. QED
  BY <1>1, <1>3, <1>4 DEF LockInv

LEMMA LockWake ==
  ASSUME LockInv, RunInv, NEW t \in Thread, Considered(t), Wake(t), SwitchTo(t),
         UNCHANGED <<mutexVars, conds>>,
         blocked_by[t].kind \in {"Sleeping", "Semaphore", "Joining"},
         blocked_by[t].kind = "Joining" => blocked_by[t].obj \notin active,
         DOMAIN call' = Thread, call'[t].fn = call[t].fn, call'[t].obj = call[t].obj,
         \A u \in Thread : u # t => call'[u] = call[u]
  PROVE  LockInv'
<1>1. MutexInv'
  BY WakeStep DEF LockInv
<1>2. /\ blocked_by'[t].kind = "NotBlocked"
      /\ \A u \in Thread : u # t => blocked_by'[u] = blocked_by[u]
  BY DEF RunInv, TableOK, Wake, NotBlocked, Blk
<1>3. CondLinks'
  BY <1>2, CondLinksFrame DEF LockInv, Considered
<1>4. call[t].fn = "join" => call[t].obj \notin active
  BY DEF LockInv, MutexInv, Links, Link
<1>5. Joins'
  BY <1>2, <1>4 DEF LockInv, Joins, Blocked, SwitchTo
<1>6. QED
  BY <1>1, <1>3, <1>5 DEF LockInv

LEMMA ThreadLock ==
  ASSUME LockInv, RunInv, ThreadNext
  PROVE  LockInv'
<1>1. ASSUME NEW fn, NEW count, pthread_create(fn, count) PROVE LockInv'
  <2>1. /\ UNCHANGED <<mutexVars, conds, call, blocked_by, phase>>
        /\ len' = len + 1 /\ active' = active \cup {len} /\ len \in Nat
    BY <1>1 DEF pthread_create, syncVars, runVars, RunInv, TableOK
  <2>2. MutexInv' /\ CondLinks'
    BY <2>1, QuietStep, CondLinksFrame DEF LockInv
  <2>3. Joins'
    BY <2>1 DEF LockInv, Joins, Blocked
  <2>4. QED
    BY <2>2, <2>3 DEF LockInv
<1>2. CASE ThreadExit
  BY <1>2, LockQuiet DEF ThreadExit, syncVars
<1>3. CASE ReturnFromJoin
  <2>1. /\ UNCHANGED <<mutexVars, conds, blocked_by, phase, len, active>>
        /\ current \in Thread /\ call[current].fn = "join" /\ call'[current].fn = "none"
        /\ DOMAIN call' = Thread /\ ~Blocked(current)
        /\ \A t \in Thread : t # current => call'[t] = call[t]
    BY <1>3 DEF ReturnFromJoin, Return, syncVars, runVars, NoCall, Cl, LockInv, MutexInv,
                LockTypes, RunInv, TableOK, RunsOnlyRunnable
  <2>2. MutexInv'
    <3>1. Link(current)'
      <4>1. call'[current].fn \notin LockCalls
        BY <2>1 DEF LockCalls, WaitCalls
      <4>2. current' = current
        BY <1>3 DEF ReturnFromJoin, Return
      <4>3. blocked_by'[current].kind = "NotBlocked"
        BY <2>1 DEF Blocked
      <4>4. QED
        BY <4>1, <4>2, <4>3 DEF Link, BlockKind
    <3>2. current' = current
      BY <1>3 DEF ReturnFromJoin, Return
    <3>3. call[current].fn \notin LockCalls /\ call'[current].fn \notin LockCalls
      BY <2>1 DEF LockCalls, WaitCalls
    <3>4. \A t \in Thread :
            \/ call'[t] = call[t] /\ blocked_by'[t] = blocked_by[t]
            \/ call[t].fn \notin LockCalls /\ call'[t].fn \notin LockCalls /\ Link(t)'
      BY <2>1, <3>1, <3>2, <3>3
    <3>5. QED
      BY <2>1, <3>4, OtherCallStep DEF LockInv
  <2>3. CondLinks'
    BY <2>1, CondLinksFrame DEF LockInv, Blocked
  <2>4. Joins'
    BY <2>1, JoinsFrame DEF LockInv, Blocked
  <2>5. QED
    BY <2>2, <2>3, <2>4 DEF LockInv
<1>4. CASE sleep
  <2>1. Calling /\ Yield(Blk("Sleeping", 0, TRUE), NoCall) /\ UNCHANGED <<mutexVars, conds>>
    BY <1>4 DEF sleep, Calls, Calling, syncVars
  <2>2. Blk("Sleeping", 0, TRUE).kind = "Sleeping" /\ NoCall.fn = "none"
    BY DEF Blk, NoCall, Cl
  <2>3. QED
    BY <2>1, <2>2, LockYield DEF LockCalls, WaitCalls
<1>5. CASE Preempt
  BY <1>5, LockQuiet DEF Preempt, syncVars
<1>6. ASSUME NEW j \in Thread, pthread_join(j) PROVE LockInv'
  <2>1. Calling /\ UNCHANGED <<mutexVars, conds>> /\ j \in 0 .. len - 1
    <3>1. Calling /\ UNCHANGED <<mutexVars, conds>> /\ j < len
      BY <1>6 DEF pthread_join, Calls, Calling, syncVars
    <3>2. j \in Nat /\ len \in Nat
      BY MaxThreadsAssumption DEF RunInv, TableOK, Thread
    <3>3. QED
      BY <3>1, <3>2
  <2>2. CASE Yield(Blk("Joining", j, FALSE), Cl("join", j, -1))
    <3>1. /\ Blk("Joining", j, FALSE).kind = "Joining" /\ Blk("Joining", j, FALSE).obj = j
          /\ Cl("join", j, -1).fn = "join" /\ Cl("join", j, -1).obj = j
      BY DEF Blk, Cl
    <3>2. QED
      BY <2>1, <2>2, <3>1, LockYield DEF LockCalls, WaitCalls
  <2>3. CASE Panic("pthread_join: joinee is the main thread")
    BY <2>1, <2>3, LockQuiet DEF Panic
  <2>4. QED
    BY <1>6, <2>2, <2>3 DEF pthread_join
<1>7. ASSUME NEW j \in Thread, pthread_detach(j) \/ thread_suspend(j) \/ thread_resume(j)
      PROVE  LockInv'
  BY <1>7, LockQuiet DEF pthread_detach, thread_suspend, thread_resume, syncVars, threadVars,
                         runVars, Calls
<1>8. ASSUME NEW t \in Thread, TimePasses(t) PROVE LockInv'
  BY <1>8, LockQuiet DEF TimePasses, syncVars, runVars
<1>9. QED
  BY <1>1, <1>2, <1>3, <1>4, <1>5, <1>6, <1>7, <1>8 DEF ThreadNext

(* A call that blocks on a mutex or a condition variable is not a join. *)
LEMMA JoinsKept ==
  ASSUME LockInv, RunInv, Calling, UNCHANGED <<len, active>>,
         \/ UNCHANGED <<call, blocked_by>>
         \/ \E b, c : Yield(b, c) /\ c.fn # "join"
  PROVE  Joins'
<1>1. CASE UNCHANGED <<call, blocked_by>>
  BY <1>1, JoinsFrame DEF LockInv, Blocked
<1>2. ASSUME NEW b, NEW c, Yield(b, c), c.fn # "join" PROVE Joins'
  <2>1. /\ current \in Thread /\ call'[current] = c
        /\ \A t \in Thread : t # current => call'[t] = call[t] /\ blocked_by'[t] = blocked_by[t]
    BY <1>2 DEF RunInv, TableOK, LockInv, MutexInv, LockTypes, Yield
  <2>2. QED
    BY <1>2, <2>1, JoinsFrame DEF LockInv, Blocked
<1>3. QED
  BY <1>1, <1>2

LEMMA MutexLock ==
  ASSUME LockInv, RunInv, MutexNext, UNCHANGED conds
  PROVE  LockInv'
<1>1. ASSUME NEW p \in PMutexes, Calling, CheckOrRegister(p), LockMutex(IdOf(p), Table(p))
      PROVE  LockInv'
  <2> DEFINE m == IdOf(p)
  <2>1. MutexInv'
    BY <1>1, LockStep DEF LockInv
  <2>2. \/ UNCHANGED threadVars
        \/ Yield(Blk("Mutex", m, FALSE), Cl("lock", m, m))
    BY <1>1 DEF LockMutex
  <2>3. Blk("Mutex", m, FALSE).kind = "Mutex" /\ Cl("lock", m, m).fn = "lock"
    BY DEF Blk, Cl
  <2>4. Joins'
    BY <1>1, <2>2, <2>3, JoinsKept DEF threadVars, Yield
  <2>5. CondLinks'
    <3>1. CASE UNCHANGED threadVars
      BY <3>1, CondLinksFrame DEF LockInv, threadVars, runVars
    <3>2. CASE Yield(Blk("Mutex", m, FALSE), Cl("lock", m, m))
      <4>1. /\ current \in Thread /\ blocked_by'[current].kind = "Mutex"
            /\ \A t \in Thread : t # current => call'[t] = call[t] /\ blocked_by'[t] = blocked_by[t]
        BY <2>3, <3>2 DEF RunInv, TableOK, LockInv, MutexInv, LockTypes, Yield
      <4>2. QED
        BY <1>1, <4>1, CondLinksFrame DEF LockInv, Calling
    <3>3. QED
      BY <2>2, <3>1, <3>2
  <2>6. QED
    BY <2>1, <2>4, <2>5 DEF LockInv
<1>2. ASSUME MutexInv', UNCHANGED threadVars PROVE LockInv'
  <2>1. CondLinks'
    BY <1>2, CondLinksFrame DEF LockInv, threadVars, runVars
  <2>2. Joins'
    BY <1>2, JoinsFrame DEF LockInv, Blocked, threadVars
  <2>3. QED
    BY <1>2, <2>1, <2>2 DEF LockInv
<1>3. ASSUME NEW p \in PMutexes, NEW type \in PTypes, pthread_mutex_init(p, type) PROVE LockInv'
  BY <1>2, <1>3, InitStep DEF LockInv, pthread_mutex_init
<1>4. ASSUME NEW p \in PMutexes, pthread_mutex_lock(p) PROVE LockInv'
  BY <1>1, <1>4 DEF pthread_mutex_lock, Calls, Calling
<1>5. ASSUME NEW p \in PMutexes, pthread_mutex_trylock(p) PROVE LockInv'
  <2>1. Calling /\ CheckOrRegister(p)
    BY <1>5 DEF pthread_mutex_trylock, Calls, Calling
  <2>2. CASE mutexes' = Table(p) /\ UNCHANGED <<holds, threadVars>>
    BY <1>2, <2>1, <2>2, RegisterStep DEF LockInv
  <2>3. CASE LockMutex(IdOf(p), Table(p))
    BY <1>1, <2>1, <2>3
  <2>4. QED
    BY <1>5, <2>2, <2>3 DEF pthread_mutex_trylock
<1>6. ASSUME NEW p \in PMutexes, pthread_mutex_unlock(p) PROVE LockInv'
  <2> DEFINE mx == Table(p)[IdOf(p)]
  <2>1. Calling /\ CheckOrRegister(p) /\ MayUnlock(mx, current) /\ UNCHANGED threadVars
    BY <1>6 DEF pthread_mutex_unlock, Calls, Calling
  <2>2. CASE UnlockFails(mx, current)
    <3>1. mutexes' = Table(p) /\ UNCHANGED holds
      BY <1>6, <2>2 DEF pthread_mutex_unlock
    <3>2. QED
      BY <1>2, <2>1, <3>1, RegisterStep DEF LockInv
  <2>3. CASE ~UnlockFails(mx, current)
    <3>1. /\ mutexes' = [Table(p) EXCEPT ![IdOf(p)] = Unlocked(mx, current)]
          /\ holds' = Released(current, IdOf(p))
      BY <1>6, <2>3 DEF pthread_mutex_unlock
    <3>2. UNCHANGED <<call, blocked_by>> /\ inhand' = inhand
      BY <2>1, TakenFrame DEF threadVars
    <3>3. DOMAIN call' = Thread /\ mutex_count \in Nat
      BY <3>2, PMutexAssumption DEF LockInv, MutexInv, LockTypes, MutexTypeOK
    <3>4. LockTypes' /\ Handles' /\ Owners'
      BY <2>1, <2>3, <3>1, <3>2, <3>3, UnlockStep DEF LockInv
    <3>5. mutex_count' \in Nat /\ mutex_count' >= mutex_count
      BY <2>1, <3>3 DEF CheckOrRegister
    <3>6. Links'
      BY <3>2, <3>5, LinksFrame DEF LockInv
    <3>7. QED
      BY <1>2, <2>1, <3>4, <3>6 DEF MutexInv
  <2>4. QED
    BY <2>2, <2>3
<1>7. ASSUME NEW p \in PMutexes, pthread_mutex_destroy(p) PROVE LockInv'
  BY <1>2, <1>7, DestroyStep DEF LockInv, pthread_mutex_destroy
<1>8. CASE ReturnFromLock
  <2>1. call[current].fn = "lock" /\ phase = "guest" /\ Return
    BY <1>8 DEF ReturnFromLock
  <2>2. MutexInv'
    BY <1>8, GrantStep DEF LockInv, ReturnFromLock, LockCalls
  <2>3. /\ current \in Thread /\ ~Blocked(current) /\ call'[current].fn = "none"
        /\ \A t \in Thread : t # current => call'[t] = call[t]
        /\ UNCHANGED <<blocked_by, len, active, phase>>
    BY <2>1 DEF Return, NoCall, Cl, RunInv, TableOK, RunsOnlyRunnable, LockInv, MutexInv,
                LockTypes, runVars
  <2>4. CondLinks'
    BY <2>3, CondLinksFrame DEF LockInv, Blocked
  <2>5. Joins'
    BY <2>3, JoinsFrame DEF LockInv, Blocked
  <2>6. QED
    BY <2>2, <2>4, <2>5 DEF LockInv
<1>9. QED
  BY <1>3, <1>4, <1>5, <1>6, <1>7, <1>8 DEF MutexNext

LEMMA CondLock ==
  ASSUME LockInv, RunInv, CondNext
  PROVE  LockInv'
<1>1. ASSUME NEW c \in Conds, NEW p \in PMutexes, NEW fn \in WaitCalls, Calling, Wait(c, p, fn)
      PROVE  LockInv'
  <2> DEFINE m == IdOf(p)
             b == Blk("Condition", c, fn = "cond_timedwait")
             cl == Cl(fn, c, m)
  <2>1. MutexInv' /\ CondLinks'
    BY <1>1, WaitStep, WaitCondStep DEF LockInv
  <2>2. /\ UNCHANGED <<len, active>>
        /\ UNCHANGED <<call, blocked_by>> \/ Yield(b, cl)
    BY <1>1 DEF Wait, Panic, Yield, threadVars
  <2>3. cl.fn # "join"
    BY DEF Cl, WaitCalls
  <2>4. Joins'
    BY <1>1, <2>2, <2>3, JoinsKept
  <2>5. QED
    BY <2>1, <2>4 DEF LockInv
<1>2. ASSUME CondLinks', UNCHANGED <<mutexVars, call, blocked_by, len, active>> PROVE LockInv'
  <2>1. MutexInv'
    BY <1>2, QuietStep DEF LockInv
  <2>2. Joins'
    BY <1>2, JoinsFrame DEF LockInv, Blocked
  <2>3. QED
    BY <1>2, <2>1, <2>2 DEF LockInv
<1>3. ASSUME NEW c \in Conds, pthread_cond_init(c) PROVE LockInv'
  BY <1>2, <1>3, CondInitStep DEF LockInv, pthread_cond_init, threadVars
<1>4. ASSUME NEW c \in Conds, pthread_cond_signal(c) PROVE LockInv'
  BY <1>2, <1>4, SignalStep DEF LockInv, pthread_cond_signal, threadVars
<1>5. ASSUME NEW c \in Conds, pthread_cond_broadcast(c) PROVE LockInv'
  BY <1>2, <1>5, BroadcastStep DEF LockInv, pthread_cond_broadcast, threadVars
<1>6. ASSUME NEW c \in Conds, pthread_cond_destroy(c) PROVE LockInv'
  BY <1>2, <1>6, CondDestroyStep DEF LockInv, pthread_cond_destroy, threadVars, Panic
<1>7. ASSUME NEW c \in Conds, NEW p \in PMutexes,
             pthread_cond_wait(c, p) \/ pthread_cond_timedwait(c, p)
      PROVE  LockInv'
  BY <1>1, <1>7 DEF pthread_cond_wait, pthread_cond_timedwait, WaitCalls, Calls, Calling
<1>8. CASE ReturnFromWait
  <2>1. CondLinks'
    BY <1>8, ReturnFromWaitCondStep DEF LockInv
  <2>2. CASE UNCHANGED <<holds, call, blocked_by, len, active>>
    BY <1>2, <1>8, <2>1, <2>2 DEF ReturnFromWait, mutexVars
  <2>3. CASE holds' = Granted(current, call[current].aux) /\ Return
    <3>1. call[current].fn \in WaitCalls /\ phase = "guest"
      BY <1>8 DEF ReturnFromWait, WaitCalls
    <3>2. MutexInv'
      BY <1>8, <2>3, <3>1, GrantStep DEF LockInv, ReturnFromWait, LockCalls
    <3>3. /\ current \in Thread /\ call'[current].fn = "none"
          /\ \A t \in Thread : t # current => call'[t] = call[t]
          /\ UNCHANGED <<blocked_by, len, active>>
      BY <2>3 DEF Return, NoCall, Cl, RunInv, TableOK, LockInv, MutexInv, LockTypes
    <3>4. Joins'
      BY <3>3, JoinsFrame DEF LockInv, Blocked
    <3>5. QED
      BY <2>1, <3>2, <3>4 DEF LockInv
  <2>4. QED
    BY <1>8, <2>2, <2>3 DEF ReturnFromWait, Panic
<1>9. QED
  BY <1>3, <1>4, <1>5, <1>6, <1>7, <1>8 DEF CondNext

LEMMA SemLock ==
  ASSUME LockInv, RunInv, SemNext, UNCHANGED <<mutexVars, conds>>
  PROVE  LockInv'
<1>1. CASE UNCHANGED threadVars
  BY <1>1, LockQuiet DEF threadVars, runVars
<1>2. ASSUME NEW s \in SemPtr, sem_wait(s) PROVE LockInv'
  <2>1. CASE UNCHANGED threadVars
    BY <1>1, <2>1
  <2>2. CASE Yield(Blk("Semaphore", s, FALSE), Cl("sem_wait", s, NoSem))
    <3>1. Blk("Semaphore", s, FALSE).kind = "Semaphore" /\ Cl("sem_wait", s, NoSem).fn = "sem_wait"
      BY DEF Blk, Cl
    <3>2. Calling
      BY <1>2 DEF sem_wait, Calls, Calling
    <3>3. QED
      BY <2>2, <3>1, <3>2, LockYield DEF LockCalls, WaitCalls
  <2>3. QED
    BY <1>2, <2>1, <2>2 DEF sem_wait, Decrement
<1>3. CASE ReturnFromSemWait
  <2>1. call[current].fn = "sem_wait" /\ phase = "guest" /\ Return
    BY <1>3 DEF ReturnFromSemWait
  <2>2. /\ current \in Thread /\ ~Blocked(current) /\ call'[current].fn = "none"
        /\ \A t \in Thread : t # current => call'[t] = call[t]
        /\ UNCHANGED <<blocked_by, len, active, phase, current>> /\ DOMAIN call' = Thread
    BY <2>1 DEF Return, NoCall, Cl, RunInv, TableOK, RunsOnlyRunnable, LockInv, MutexInv,
                LockTypes, runVars
  <2>3. call[current].fn \notin LockCalls /\ call'[current].fn \notin LockCalls
    BY <2>1, <2>2 DEF LockCalls, WaitCalls
  <2>4. Link(current)'
    <3>1. blocked_by'[current].kind = "NotBlocked"
      BY <2>2 DEF Blocked
    <3>2. QED
      BY <2>2, <2>3, <3>1 DEF Link, BlockKind
  <2>5. \A t \in Thread :
          \/ call'[t] = call[t] /\ blocked_by'[t] = blocked_by[t]
          \/ call[t].fn \notin LockCalls /\ call'[t].fn \notin LockCalls /\ Link(t)'
    BY <2>2, <2>3, <2>4
  <2>6. MutexInv'
    BY <2>2, <2>5, OtherCallStep DEF LockInv
  <2>7. CondLinks'
    BY <2>2, CondLinksFrame DEF LockInv, Blocked
  <2>8. Joins'
    BY <2>2, JoinsFrame DEF LockInv, Blocked
  <2>9. QED
    BY <2>6, <2>7, <2>8 DEF LockInv
<1>4. QED
  BY <1>1, <1>2, <1>3
     DEF SemNext, sem_init, sem_destroy, sem_open_new, sem_open_existing, sem_post,
         sem_trywait, Decrement, sem_close, sem_unlink

(* A thread that is let go with its mutex, from a lock or a condition wait. *)
LEMMA RelockJoins ==
  ASSUME LockInv, RunInv, NEW t \in Thread, NEW m, RelockFor(t, m), call[t].fn # "join"
  PROVE  /\ Joins' /\ call' = call
         /\ \A u \in Thread : u # t => blocked_by'[u] = blocked_by[u]
         /\ phase' = "panic" \/ blocked_by'[t].kind = "NotBlocked"
         /\ phase' = "panic" => UNCHANGED blocked_by
<1>1. DOMAIN blocked_by = Thread
  BY DEF RunInv, TableOK
<1>2. UNCHANGED <<call, len, active>>
  BY DEF RelockFor, SwitchTo, Panic
<1>3. /\ \A u \in Thread : u # t => blocked_by'[u] = blocked_by[u]
      /\ phase' = "panic" \/ blocked_by'[t].kind = "NotBlocked"
      /\ phase' = "panic" => UNCHANGED blocked_by
  <2>1. CASE mutexes[m].live
    <3>1. phase' = "guest" /\ blocked_by' = [blocked_by EXCEPT ![t] = NotBlocked]
      BY <2>1 DEF RelockFor, SwitchTo, Wake
    <3>2. NotBlocked.kind = "NotBlocked"
      BY DEF NotBlocked, Blk
    <3>3. QED
      BY <1>1, <3>1, <3>2
  <2>2. CASE ~mutexes[m].live
    BY <2>2 DEF RelockFor, Panic
  <2>3. QED
    BY <2>1, <2>2
<1>4. Joins'
  BY <1>2, <1>3, JoinsFrame DEF LockInv, Blocked
<1>5. QED
  BY <1>2, <1>3, <1>4

LEMMA SchedLock ==
  ASSUME LockInv, RunInv, Schedule
  PROVE  LockInv'
<1>1. ASSUME NEW t \in Thread, SchedRunnable(t) PROVE LockInv'
  BY <1>1, LockQuiet DEF SchedRunnable, Considered, SwitchTo, syncVars
<1>2. CASE SchedSkip \/ SchedRetry \/ SchedDeadlock
  BY <1>2, LockQuiet DEF SchedSkip, SchedRetry, SchedDeadlock, syncVars
<1>3. ASSUME NEW t \in Thread, SchedCondLost(t) PROVE LockInv'
  BY <1>3, LockQuiet DEF SchedCondLost, Panic, syncVars
<1>4. DOMAIN call = Thread
  BY DEF LockInv, MutexInv, LockTypes
<1>5. ASSUME NEW t \in Thread, SchedSlept(t) \/ SchedSemaphoreGone(t) \/ SchedJoined(t)
      PROVE  LockInv'
  BY <1>4, <1>5, LockWake DEF SchedSlept, SchedSemaphoreGone, SchedJoined, syncVars
<1>6. ASSUME NEW t \in Thread, SchedSemaphore(t) PROVE LockInv'
  <2>1. /\ DOMAIN call' = Thread /\ \A u \in Thread : u # t => call'[u] = call[u]
        /\ call'[t] = [call[t] EXCEPT !.aux = open_semaphores[blocked_by[t].obj]]
    BY <1>4, <1>6 DEF SchedSemaphore
  <2>2. call'[t].fn = call[t].fn /\ call'[t].obj = call[t].obj
    BY <2>1
  <2>3. QED
    BY <1>6, <2>1, <2>2, LockWake DEF SchedSemaphore
<1>7. ASSUME NEW t \in Thread, SchedMutex(t) PROVE LockInv'
  <2> DEFINE m == blocked_by[t].obj
  <2>1. /\ call[t].fn \in LockCalls /\ ("cond_reinit" \notin Misuse => call[t].aux = m)
        /\ Blocked(t) /\ ~IsLocked(mutexes[m]) /\ RelockFor(t, m) /\ phase # "panic"
        /\ UNCHANGED <<mutex_count, pmutex, holds, conds>>
    BY <1>7 DEF SchedMutex, Considered, LockInv, MutexInv, Links, Link, Blocked
  <2>2. MutexInv'
    BY <2>1, RelockStep DEF LockInv, Pending
  <2>3. call[t].fn # "join"
    BY <2>1 DEF LockCalls, WaitCalls
  <2>4. /\ Joins' /\ call' = call
        /\ \A u \in Thread : u # t => blocked_by'[u] = blocked_by[u]
        /\ phase' = "panic" \/ blocked_by'[t].kind = "NotBlocked"
        /\ phase' = "panic" => UNCHANGED blocked_by
    BY <2>1, <2>3, RelockJoins
  <2>5. CondLinks'
    BY <2>1, <2>4, CondLinksFrame DEF LockInv
  <2>6. QED
    BY <2>2, <2>4, <2>5 DEF LockInv
<1>8. ASSUME NEW t \in Thread, ConsideredCond(t)
      PROVE  /\ blocked_by[t].kind = "Condition" /\ blocked_by[t].obj \in Conds /\ Blocked(t)
             /\ phase # "panic" /\ call[t].fn \in WaitCalls /\ call[t].fn # "join"
             /\ "cond_reinit" \notin Misuse => Pending(t, CondMutex(t))
  <2>1. blocked_by[t].kind = "Condition" /\ phase # "panic"
    BY <1>8 DEF ConsideredCond, Considered
  <2>2. blocked_by[t].obj \in Conds /\ call[t].fn \in WaitCalls
    BY <2>1 DEF LockInv, MutexInv, Links, Link
  <2>3. "cond_reinit" \notin Misuse => CondMutex(t) = call[t].aux
    BY <2>1, <2>2, WaiterOn DEF LockInv, CondWaiter, CondMutex
  <2>4. QED
    BY <2>1, <2>2, <2>3 DEF Blocked, Pending, LockCalls, WaitCalls
<1>9. ASSUME NEW t \in Thread, SchedCondition(t) \/ SchedTimeout(t) PROVE LockInv'
  <2> DEFINE old == conds[blocked_by[t].obj]
             m == CondMutex(t)
  <2>1. /\ ConsideredCond(t) /\ ~IsLocked(mutexes[m]) /\ RelockFor(t, m)
        /\ UNCHANGED <<mutex_count, pmutex, holds>>
    BY <1>9 DEF SchedCondition, SchedTimeout, CondReady
  <2>2. /\ blocked_by[t].kind = "Condition" /\ blocked_by[t].obj \in Conds /\ Blocked(t)
        /\ phase # "panic" /\ call[t].fn # "join"
        /\ "cond_reinit" \notin Misuse => Pending(t, m)
    BY <1>8, <2>1
  <2>3. MutexInv'
    BY <2>1, <2>2, RelockStep DEF LockInv
  <2>4. /\ Joins' /\ call' = call
        /\ \A u \in Thread : u # t => blocked_by'[u] = blocked_by[u]
        /\ phase' = "panic" \/ blocked_by'[t].kind # "Condition"
    BY <2>1, <2>2, RelockJoins
  <2>5. \E cv \in CondObject :
          /\ conds' = [conds EXCEPT ![blocked_by[t].obj] = cv]
          /\ cv.state = old.state /\ cv.curr_mutex = old.curr_mutex
          /\ \A u \in Thread : u # t =>
               /\ Queued(old.waiting, u) => Queued(cv.waiting, u)
               /\ Queued(old.waking, u) => Queued(cv.waking, u)
    <3>1. CASE SchedCondition(t)
      BY <2>2, <3>1, SignalledFields DEF SchedCondition, CondReady, LockInv
    <3>2. CASE SchedTimeout(t)
      BY <2>2, <3>2, TimedOutFields DEF SchedTimeout, LockInv
    <3>3. QED
      BY <1>9, <3>1, <3>2
  <2>6. CondLinks'
    BY <2>2, <2>4, <2>5, UnqueueStep DEF LockInv
  <2>7. QED
    BY <2>3, <2>4, <2>6 DEF LockInv
<1>10. ASSUME NEW t \in Thread, SchedTimeoutLocked(t) PROVE LockInv'
  <2> DEFINE old == conds[blocked_by[t].obj]
             m == CondMutex(t)
  <2>1. /\ ConsideredCond(t) /\ TimedOut(t)
        /\ blocked_by' = [blocked_by EXCEPT ![t] = Blk("Mutex", m, FALSE)]
        /\ UNCHANGED <<len, active, call, phase, mutexVars>>
    BY <1>10 DEF SchedTimeoutLocked
  <2>2. /\ blocked_by[t].kind = "Condition" /\ blocked_by[t].obj \in Conds /\ Blocked(t)
        /\ phase # "panic" /\ call[t].fn \in WaitCalls /\ call[t].fn # "join"
        /\ "cond_reinit" \notin Misuse => Pending(t, m)
    BY <1>8, <2>1
  <2>3. /\ blocked_by'[t].kind = "Mutex" /\ blocked_by'[t].obj = m
        /\ \A u \in Thread : u # t => blocked_by'[u] = blocked_by[u]
    BY <2>1 DEF Blk, RunInv, TableOK
  <2>4. mutex_count' \in Nat /\ mutex_count' >= mutex_count /\ mutex_count' = mutex_count
    BY <2>1, PMutexAssumption DEF LockInv, MutexInv, LockTypes, MutexTypeOK, mutexVars
  <2>5. ASSUME NEW u \in Thread PROVE inhand'[u] = inhand[u] /\ Link(u)'
    <3>1. CASE u = t
      <4>1. inhand'[u] = inhand[u]
        BY <2>1, <2>2, <2>3, <3>1 DEF inhand, Taken, Blocked, Pending
      <4>2. call[t].aux \in MutexId /\ call[t].aux < mutex_count
        BY <2>2 DEF LockInv, MutexInv, Links, Link, LockCalls
      <4>3. Link(t)'
        BY <2>1, <2>2, <2>3, <2>4, <4>2 DEF Link, BlockKind, LockCalls, Pending
      <4>4. QED
        BY <3>1, <4>1, <4>3
    <3>2. CASE u # t
      <4>1. inhand'[u] = inhand[u]
        BY <2>1, <2>3, <3>2 DEF inhand, Taken, Blocked, Pending
      <4>2. QED
        BY <2>1, <2>3, <2>4, <3>2, <4>1, LinkLater DEF LockInv
    <3>3. QED
      BY <3>1, <3>2
  <2>6. MutexInv'
    BY <1>4, <2>1, <2>5, ForeignStep DEF LockInv
  <2>7. Joins'
    BY <2>1, <2>2, <2>3, JoinsFrame DEF LockInv, Blocked
  <2>8. \E cv \in CondObject :
          /\ conds' = [conds EXCEPT ![blocked_by[t].obj] = cv]
          /\ cv.state = old.state /\ cv.curr_mutex = old.curr_mutex
          /\ \A u \in Thread : u # t =>
               /\ Queued(old.waiting, u) => Queued(cv.waiting, u)
               /\ Queued(old.waking, u) => Queued(cv.waking, u)
    BY <2>1, <2>2, TimedOutFields DEF LockInv
  <2>9. CondLinks'
    BY <2>1, <2>2, <2>3, <2>8, UnqueueStep DEF LockInv
  <2>10. QED
    BY <2>6, <2>7, <2>9 DEF LockInv
<1>11. QED
  BY <1>1, <1>2, <1>3, <1>5, <1>6, <1>7, <1>9, <1>10 DEF Schedule

LEMMA LockInvNext == RunInv /\ LockInv /\ [Next]_vars => LockInv'
<1> SUFFICES ASSUME RunInv, LockInv, [Next]_vars PROVE LockInv'
  OBVIOUS
<1>1. CASE UNCHANGED vars
  BY <1>1, LockQuiet DEF vars, threadVars, runVars, syncVars
<1>2. QED
  BY <1>1, ThreadLock, MutexLock, CondLock, SemLock, SchedLock DEF Next, Panicked

-----------------------------------------------------------------------------
(* The theorems *)

LEMMA LockInvAlways == Spec => []LockInv
  BY RunInvInit, RunInvNext, LockInvInit, LockInvNext, PTL DEF Spec

(* Exclusive, the definition of the checked properties, is ExclusiveMutex. *)
LEMMA OwnersExact ==
  ASSUME LockInv, NEW m \in MutexId, NEW t \in Thread, Exclusive(m)
  PROVE  OwnerExact(mutexes[m], t, holds[t][m], inhand[t][m])
  BY DEF LockInv, MutexInv, Owners, Exclusive, ExclusiveMutex

(* lock_mutex, the scheduler's relock and condition waits never tell two    *)
(* threads that they hold the same mutex.                                  *)
THEOREM MutualExclusionHolds == Spec => []MutualExclusion
<1>1. LockInv => MutualExclusion
  BY OwnersExact DEF MutualExclusion, OwnerExact
<1>2. QED
  BY <1>1, LockInvAlways, PTL

(* What a thread was told it holds is what unlock_mutex will make it give   *)
(* back: the count of the mutex and its phantom locks.                     *)
THEOREM LocksAreBalanced == Spec => []LocksBalanced
<1>1. LockInv => LocksBalanced
  <2> SUFFICES ASSUME LockInv, NEW m \in MutexId, NEW t \in Thread, Exclusive(m), holds[t][m] > 0
               PROVE  /\ mutexes[m].live /\ mutexes[m].owner = t
                      /\ holds[t][m] = mutexes[m].count + mutexes[m].phantom[t]
    BY DEF LocksBalanced
  <2>1. OwnerExact(mutexes[m], t, holds[t][m], inhand[t][m])
    BY OwnersExact
  <2>2. inhand[t][m] \in {0, 1}
    BY DEF inhand
  <2>3. inhand[t][m] # 1
    BY <2>1 DEF OwnerExact
  <2>4. QED
    BY <2>1, <2>2, <2>3 DEF OwnerExact
<1>2. QED
  BY <1>1, LockInvAlways, PTL

(* A call that had to wait returns only with what it waited for: the mutex  *)
(* relocked for this very thread, the joinee dead.                         *)
THEOREM WakeupsAreJustified == Spec => []WakeupsJustified
<1>1. RunInv /\ LockInv => WakeupsJustified
  <2> SUFFICES ASSUME RunInv, LockInv, phase = "guest"
               PROVE  LET cl == call[current] IN
                      /\ (cl.fn \in LockCalls /\ Exclusive(cl.aux)) =>
                           /\ mutexes[cl.aux].live /\ mutexes[cl.aux].owner = current
                           /\ mutexes[cl.aux].count = 1
                      /\ cl.fn = "join" => cl.obj \notin active
    BY DEF WakeupsJustified, LockCalls, WaitCalls
  <2> DEFINE m == call[current].aux
  <2>1. current \in Thread /\ ~Blocked(current)
    BY DEF RunInv, TableOK, RunsOnlyRunnable
  <2>2. call[current].fn = "join" => call[current].obj \notin active
    BY <2>1 DEF LockInv, Joins
  <2>3. ASSUME call[current].fn \in LockCalls, Exclusive(m)
        PROVE  mutexes[m].live /\ mutexes[m].owner = current /\ mutexes[m].count = 1
    <3>1. m \in MutexId
      BY <2>1, <2>3 DEF LockInv, MutexInv, Links, Link
    <3>2. inhand[current][m] = 1
      BY <2>1, <2>3, <3>1 DEF inhand, Taken, Pending
    <3>3. OwnerExact(mutexes[m], current, holds[current][m], 1)
      BY <2>1, <2>3, <3>1, <3>2, OwnersExact
    <3>4. QED
      BY <3>3 DEF OwnerExact
  <2>4. QED
    BY <2>2, <2>3
<1>2. Spec => []RunInv
  BY RunInvInit, RunInvNext, PTL DEF Spec
<1>3. QED
  BY <1>1, <1>2, LockInvAlways, PTL

-----------------------------------------------------------------------------
(* Type correctness of the whole environment.  The mutexes and condition   *)
(* variables are typed by LockInv, the thread table by RunInv; what is     *)
(* left is the rest of the run loop's state and the semaphores.            *)

LoopTypes ==
  /\ blocked_by \in [Thread -> Block]
  /\ call \in [Thread -> Call]
  /\ expired \subseteq Thread
  /\ phase \in {"guest", "sched", "panic"}
  /\ scan \in 0 .. len /\ grace \in 0 .. 3 /\ panic \in PanicReason

(* The scheduler looks up the semaphore a thread is blocked on. *)
SemBlocks == \A t \in Thread : blocked_by[t].kind = "Semaphore" => blocked_by[t].obj \in SemPtr

JoinTypes ==
  /\ joined_by \in [Thread -> Thread \cup {NoThread}]
  /\ detached \subseteq Thread

TypeInv == LoopTypes /\ SemBlocks /\ SemTypeOK /\ JoinTypes

LEMMA TypeInvInit == Init => TypeInv
<1> SUFFICES ASSUME Init PROVE TypeInv
  OBVIOUS
<1>1. NotBlocked \in Block /\ NotBlocked.kind = "NotBlocked" /\ NoCall \in Call
  BY DEF NotBlocked, Blk, Block, BlockKind, NoCall, Cl, Call, CallName
<1>2. LoopTypes
  BY <1>1 DEF Init, ThreadInit, LoopTypes, PanicReason
<1>3. SemBlocks
  BY <1>1 DEF Init, ThreadInit, SemBlocks
<1>4. NewSem(0, NoPtr, FALSE) \in HostSem
  BY DEF NewSem, HostSem, NoPtr
<1>5. SemTypeOK
  <2>1. host_sems \in [SemId -> HostSem]
    BY <1>4, Zenon DEF Init, SemInit
  <2>4. sem_count \in 0 .. MaxSems
    BY SemAssumption DEF Init, SemInit
  <2>2. /\ open_semaphores \in [SemPtr -> SemId \cup {NoSem}]
        /\ named_semaphores \in [SemNames -> SemId \cup {NoSem}]
    BY DEF Init, SemInit
  <2>3. balance \in [SemId -> Int]
    BY DEF Init, SemInit
  <2>5. QED
    BY <2>1, <2>2, <2>3, <2>4 DEF SemTypeOK
<1>6. JoinTypes
  BY DEF Init, JoinTypes
<1>7. QED
  BY <1>2, <1>3, <1>5, <1>6 DEF TypeInv

-----------------------------------------------------------------------------
LEMMA ThreadIsInt == Thread \subseteq Int
  BY MaxThreadsAssumption DEF Thread

LEMMA MutexIdIsInt == \A m \in MutexId \cup {NoMutex} : m \in Int
  BY DEF MutexId, NoMutex

LEMMA SemTypes ==
  ASSUME SemTypeOK
  PROVE  /\ host_sems \in [SemId -> HostSem] /\ sem_count \in Nat
         /\ open_semaphores \in [SemPtr -> SemId \cup {NoSem}]
         /\ named_semaphores \in [SemNames -> SemId \cup {NoSem}]
         /\ balance \in [SemId -> Int]
         /\ \A s \in SemPtr : s \in Int
         /\ \A o \in SemId \cup {NoSem} : o \in Int
         /\ MaxSems \in Nat /\ MaxValue \in Nat
  BY SemAssumption DEF SemTypeOK, SemPtr, SemId, NoSem

LEMMA HostSemFields ==
  ASSUME NEW h \in HostSem
  PROVE  /\ h.value \in Int /\ h.waiting \in SUBSET Thread
         /\ h.guest_sem \in Int /\ h.named \in BOOLEAN
         /\ \A v \in Int : [h EXCEPT !.value = v] \in HostSem
         /\ \A w \in SUBSET Thread : [h EXCEPT !.waiting = w] \in HostSem
         /\ \A s \in Int : [h EXCEPT !.guest_sem = s] \in HostSem
  BY DEF HostSem

LEMMA YieldTypes ==
  ASSUME LoopTypes, SemBlocks, RunInv, NEW b \in Block, NEW c \in Call, Yield(b, c),
         b.kind = "Semaphore" => b.obj \in SemPtr
  PROVE  LoopTypes' /\ SemBlocks'
<1>1. LoopTypes'
  BY DEF LoopTypes, Yield, RunInv, TableOK
<1>2. SemBlocks'
  BY DEF LoopTypes, SemBlocks, Yield
<1>3. QED
  BY <1>1, <1>2

LEMMA PanicTypes ==
  ASSUME LoopTypes, SemBlocks, NEW r \in PanicReason, Panic(r)
  PROVE  LoopTypes' /\ SemBlocks'
  BY DEF LoopTypes, SemBlocks, Panic

LEMMA ReturnTypes ==
  ASSUME LoopTypes, SemBlocks, Return
  PROVE  LoopTypes' /\ SemBlocks'
<1>1. NoCall \in Call
  BY DEF NoCall, Cl, Call, CallName
<1>2. QED
  BY <1>1 DEF LoopTypes, SemBlocks, Return, runVars

LEMMA IdleTypes ==
  ASSUME LoopTypes, SemBlocks, UNCHANGED threadVars
  PROVE  LoopTypes' /\ SemBlocks'
  BY DEF LoopTypes, SemBlocks, threadVars, runVars

LEMMA WakeTypes ==
  ASSUME LoopTypes, SemBlocks, NEW t \in Thread, Wake(t), SwitchTo(t),
         call' \in [Thread -> Call], RunInv
  PROVE  LoopTypes' /\ SemBlocks'
<1>1. NotBlocked \in Block /\ NotBlocked.kind = "NotBlocked"
  BY DEF NotBlocked, Blk, Block, BlockKind
<1>2. LoopTypes'
  BY <1>1 DEF LoopTypes, Wake, SwitchTo, RunInv, TableOK
<1>3. SemBlocks'
  BY <1>1 DEF LoopTypes, SemBlocks, Wake
<1>4. QED
  BY <1>2, <1>3

LEMMA RelockTypes ==
  ASSUME LoopTypes, SemBlocks, NEW t \in Thread, NEW m, RelockFor(t, m), RunInv
  PROVE  LoopTypes' /\ SemBlocks'
<1>1. CASE mutexes[m].live
  BY <1>1, WakeTypes DEF RelockFor, LoopTypes
<1>2. CASE ~mutexes[m].live
  BY <1>2, PanicTypes DEF RelockFor, PanicReason
<1>3. QED
  BY <1>1, <1>2

-----------------------------------------------------------------------------
LEMMA ThreadTypesNext ==
  ASSUME TypeInv, RunInv, ThreadNext
  PROVE  TypeInv'
<1>1. ASSUME UNCHANGED semVars PROVE SemTypeOK'
  BY <1>1 DEF TypeInv, SemTypeOK, semVars
<1>2. UNCHANGED semVars
  BY DEF ThreadNext, pthread_create, ThreadExit, ReturnFromJoin, sleep, Preempt, pthread_join,
         pthread_detach, thread_suspend, thread_resume, TimePasses, syncVars
<1>3. ASSUME UNCHANGED joinVars PROVE JoinTypes'
  BY <1>3 DEF TypeInv, JoinTypes, joinVars
<1>4. current \in Thread /\ current \in Int /\ len \in Nat
  BY ThreadIsInt DEF RunInv, TableOK
<1>5. ASSUME NEW fn, NEW count, pthread_create(fn, count) PROVE TypeInv'
  <2>1. LoopTypes' /\ SemBlocks'
    BY <1>4, <1>5 DEF TypeInv, LoopTypes, SemBlocks, pthread_create, runVars
  <2>2. QED
    BY <1>1, <1>2, <1>3, <1>5, <2>1 DEF TypeInv, pthread_create
<1>6. CASE ThreadExit \/ Preempt
  <2>1. LoopTypes'
    <3>1. /\ UNCHANGED <<len, blocked_by, call, expired, grace, panic>>
          /\ phase' = "sched" /\ scan' = 0
      BY <1>6 DEF ThreadExit, Preempt
    <3>2. QED
      BY <1>4, <3>1 DEF TypeInv, LoopTypes
  <2>2. SemBlocks'
    BY <1>6 DEF TypeInv, SemBlocks, ThreadExit, Preempt
  <2>3. QED
    BY <1>1, <1>2, <1>3, <1>6, <2>1, <2>2 DEF TypeInv, ThreadExit, Preempt
<1>7. CASE ReturnFromJoin
  BY <1>1, <1>2, <1>3, <1>7, ReturnTypes DEF TypeInv, ReturnFromJoin
<1>8. CASE sleep
  <2>1. Blk("Sleeping", 0, TRUE) \in Block /\ NoCall \in Call
        /\ Blk("Sleeping", 0, TRUE).kind = "Sleeping"
    BY DEF Blk, Block, BlockKind, NoCall, Cl, Call, CallName
  <2>2. LoopTypes' /\ SemBlocks'
    BY <1>8, <2>1, YieldTypes DEF TypeInv, sleep
  <2>3. QED
    BY <1>1, <1>2, <1>3, <1>8, <2>2 DEF TypeInv, sleep
<1>9. ASSUME NEW j \in Thread, pthread_join(j) PROVE TypeInv'
  <2>1. Blk("Joining", j, FALSE) \in Block /\ Cl("join", j, -1) \in Call
        /\ Blk("Joining", j, FALSE).kind = "Joining"
    BY ThreadIsInt DEF Blk, Block, BlockKind, Cl, Call, CallName
  <2>2. LoopTypes' /\ SemBlocks'
    BY <1>9, <2>1, YieldTypes, PanicTypes DEF TypeInv, pthread_join, PanicReason
  <2>3. JoinTypes'
    BY <1>4, <1>9 DEF TypeInv, JoinTypes, pthread_join
  <2>4. QED
    BY <1>1, <1>2, <2>2, <2>3 DEF TypeInv
<1>10. ASSUME NEW j \in Thread, pthread_detach(j) PROVE TypeInv'
  <2>1. JoinTypes'
    BY <1>10 DEF TypeInv, JoinTypes, pthread_detach
  <2>2. QED
    BY <1>1, <1>2, <1>10, <2>1, IdleTypes DEF TypeInv, pthread_detach
<1>11. ASSUME NEW j \in Thread, thread_suspend(j) \/ thread_resume(j) PROVE TypeInv'
  <2>1. LoopTypes'
    <3>1. /\ UNCHANGED <<len, blocked_by, call, expired, grace, panic>>
          /\ UNCHANGED <<phase, scan>> \/ (phase' = "sched" /\ scan' = 0)
      BY <1>11 DEF thread_suspend, thread_resume, runVars
    <3>2. QED
      BY <1>4, <3>1 DEF TypeInv, LoopTypes
  <2>2. SemBlocks'
    BY <1>11 DEF TypeInv, SemBlocks, thread_suspend, thread_resume
  <2>3. QED
    BY <1>1, <1>2, <1>3, <1>11, <2>1, <2>2 DEF TypeInv, thread_suspend, thread_resume
<1>12. ASSUME NEW t \in Thread, TimePasses(t) PROVE TypeInv'
  <2>1. LoopTypes' /\ SemBlocks'
    BY <1>12 DEF TypeInv, LoopTypes, SemBlocks, TimePasses, runVars
  <2>2. QED
    BY <1>1, <1>2, <1>3, <1>12, <2>1 DEF TypeInv, TimePasses
<1>13. QED
  BY <1>5, <1>6, <1>7, <1>8, <1>9, <1>10, <1>11, <1>12 DEF ThreadNext

LEMMA MutexTypesNext ==
  ASSUME TypeInv, RunInv, LockInv, MutexNext
  PROVE  LoopTypes' /\ SemBlocks'
<1>1. ASSUME NEW p \in PMutexes, CheckOrRegister(p), LockMutex(IdOf(p), Table(p))
      PROVE  LoopTypes' /\ SemBlocks'
  <2> DEFINE m == IdOf(p)
  <2>1. m \in Int
    BY <1>1, RegisterSound, MutexIdIsInt DEF LockInv, CheckOrRegister
  <2>2. Blk("Mutex", m, FALSE) \in Block /\ Cl("lock", m, m) \in Call
        /\ Blk("Mutex", m, FALSE).kind = "Mutex"
    BY <2>1 DEF Blk, Block, BlockKind, Cl, Call, CallName
  <2>3. QED
    BY <1>1, <2>2, YieldTypes, IdleTypes DEF LockMutex, TypeInv
<1>2. ASSUME NEW p \in PMutexes, NEW type \in PTypes, pthread_mutex_init(p, type)
      PROVE  LoopTypes' /\ SemBlocks'
  BY <1>2, IdleTypes DEF pthread_mutex_init, TypeInv
<1>3. ASSUME NEW p \in PMutexes, pthread_mutex_lock(p) PROVE LoopTypes' /\ SemBlocks'
  BY <1>1, <1>3 DEF pthread_mutex_lock
<1>4. ASSUME NEW p \in PMutexes, pthread_mutex_trylock(p) PROVE LoopTypes' /\ SemBlocks'
  BY <1>1, <1>4, IdleTypes DEF pthread_mutex_trylock, TypeInv
<1>5. ASSUME NEW p \in PMutexes, pthread_mutex_unlock(p) \/ pthread_mutex_destroy(p)
      PROVE  LoopTypes' /\ SemBlocks'
  BY <1>5, IdleTypes DEF pthread_mutex_unlock, pthread_mutex_destroy, TypeInv
<1>6. CASE ReturnFromLock
  BY <1>6, ReturnTypes DEF ReturnFromLock, TypeInv
<1>7. QED
  BY <1>2, <1>3, <1>4, <1>5, <1>6 DEF MutexNext

LEMMA CondTypesNext ==
  ASSUME TypeInv, RunInv, LockInv, CondNext
  PROVE  LoopTypes' /\ SemBlocks'
<1>1. ASSUME NEW c \in Conds, NEW p \in PMutexes, NEW fn \in WaitCalls, Wait(c, p, fn)
      PROVE  LoopTypes' /\ SemBlocks'
  <2> DEFINE m == IdOf(p)
             b == Blk("Condition", c, fn = "cond_timedwait")
             cl == Cl(fn, c, m)
  <2>1. m \in Int /\ c \in Int
    BY <1>1, RegisterSound, MutexIdIsInt, CondsAssumption DEF LockInv, CheckOrRegister, Wait
  <2>2. (fn = "cond_timedwait") \in BOOLEAN
    OBVIOUS
  <2>3. b \in Block /\ b.kind = "Condition"
    BY <2>1, <2>2 DEF Blk, Block, BlockKind
  <2>4. cl \in Call
    BY <2>1 DEF Cl, Call, CallName, WaitCalls
  <2>5. CASE Yield(b, cl)
    BY <2>3, <2>4, <2>5, YieldTypes DEF TypeInv
  <2>6. CASE UNCHANGED threadVars
    BY <2>6, IdleTypes DEF TypeInv
  <2>7. CASE Panic("pthread_cond_wait: waiters use different mutexes")
    BY <2>7, PanicTypes DEF TypeInv, PanicReason
  <2>8. QED
    BY <1>1, <2>5, <2>6, <2>7 DEF Wait
<1>2. ASSUME NEW c \in Conds,
             \/ pthread_cond_init(c) \/ pthread_cond_signal(c) \/ pthread_cond_broadcast(c)
             \/ pthread_cond_destroy(c)
      PROVE  LoopTypes' /\ SemBlocks'
  BY <1>2, IdleTypes, PanicTypes DEF pthread_cond_init, pthread_cond_signal,
     pthread_cond_broadcast, pthread_cond_destroy, TypeInv, PanicReason
<1>3. CASE ReturnFromWait
  BY <1>3, ReturnTypes, PanicTypes DEF ReturnFromWait, TypeInv, PanicReason
<1>4. QED
  BY <1>1, <1>2, <1>3 DEF CondNext, pthread_cond_wait, pthread_cond_timedwait, WaitCalls

(* One host semaphore is replaced, the tables as they were. *)
LEMMA SemUpdate ==
  ASSUME SemTypeOK, NEW o, NEW h, o \in SemId => h \in HostSem,
         host_sems' = [host_sems EXCEPT ![o] = h],
         balance' \in [SemId -> Int], sem_count' \in 0 .. MaxSems,
         open_semaphores' \in [SemPtr -> SemId \cup {NoSem}],
         named_semaphores' \in [SemNames -> SemId \cup {NoSem}]
  PROVE  SemTypeOK'
<1>1. host_sems \in [SemId -> HostSem]
  BY DEF SemTypeOK
<1>2. host_sems' \in [SemId -> HostSem]
  <2>1. CASE o \in SemId
    BY <1>1, <2>1
  <2>2. CASE o \notin SemId
    BY <1>1, <2>2
  <2>3. QED
    BY <2>1, <2>2
<1>3. QED
  BY <1>2 DEF SemTypeOK

LEMMA NewSemType ==
  ASSUME NEW v \in Int, NEW s \in Int
  PROVE  NewSem(v, s, TRUE) \in HostSem /\ NewSem(v, s, FALSE) \in HostSem
  BY DEF NewSem, HostSem

LEMMA SemTypesNext ==
  ASSUME TypeInv, RunInv, SemNext
  PROVE  LoopTypes' /\ SemBlocks' /\ SemTypeOK'
<1>1. /\ host_sems \in [SemId -> HostSem] /\ sem_count \in Nat /\ sem_count \in 0 .. MaxSems
      /\ open_semaphores \in [SemPtr -> SemId \cup {NoSem}]
      /\ named_semaphores \in [SemNames -> SemId \cup {NoSem}]
      /\ balance \in [SemId -> Int]
      /\ \A s \in SemPtr : s \in Int
      /\ \A o \in SemId \cup {NoSem} : o \in Int
      /\ MaxSems \in Nat /\ MaxValue \in Nat /\ SemTypeOK /\ LoopTypes /\ SemBlocks
  BY SemTypes DEF TypeInv, SemTypeOK
<1>2. /\ (\A s \in GuestSems : s \in SemPtr) /\ (\A s \in HeapSems : s \in SemPtr)
      /\ sem_count < MaxSems => sem_count \in SemId /\ sem_count + 1 \in 0 .. MaxSems
      /\ NoPtr \in Int /\ \A v \in 0 .. MaxValue : v \in Int
  BY <1>1 DEF SemPtr, SemId, NoPtr
<1>3. ASSUME NEW s \in SemPtr, Open(s)
      PROVE  /\ open_semaphores[s] \in SemId /\ ObjOf(s) \in HostSem
             /\ ObjOf(s) = host_sems[open_semaphores[s]]
  BY <1>1, <1>3 DEF Open, ObjOf
<1>4. ASSUME NEW s \in GuestSems, NEW v \in 0 .. MaxValue, sem_init(s, v)
      PROVE  LoopTypes' /\ SemBlocks' /\ SemTypeOK'
  <2>1. NewSem(v, s, FALSE) \in HostSem /\ sem_count \in SemId /\ sem_count' \in 0 .. MaxSems
    BY <1>1, <1>2, <1>4, NewSemType DEF sem_init
  <2>2. /\ balance' \in [SemId -> Int]
        /\ open_semaphores' \in [SemPtr -> SemId \cup {NoSem}]
        /\ named_semaphores' \in [SemNames -> SemId \cup {NoSem}]
    BY <1>1, <1>2, <1>4, <2>1 DEF sem_init
  <2>3. host_sems' = [host_sems EXCEPT ![sem_count] = NewSem(v, s, FALSE)]
    BY <1>4, Zenon DEF sem_init
  <2>4. SemTypeOK'
    BY <1>1, <2>1, <2>2, <2>3, SemUpdate
  <2>5. QED
    BY <1>1, <1>4, <2>4, IdleTypes DEF sem_init
<1>5. ASSUME NEW s \in GuestSems, sem_destroy(s) PROVE LoopTypes' /\ SemBlocks' /\ SemTypeOK'
  <2>1. SemTypeOK'
    BY <1>1, <1>2, <1>5 DEF sem_destroy, SemTypeOK
  <2>2. QED
    BY <1>1, <1>5, <2>1, IdleTypes DEF sem_destroy
<1>6. ASSUME NEW n \in SemNames, NEW s \in HeapSems, NEW v \in 0 .. MaxValue, sem_open_new(n, s, v)
      PROVE  LoopTypes' /\ SemBlocks' /\ SemTypeOK'
  <2> DEFINE h == [NewSem(v, NoPtr, TRUE) EXCEPT !.guest_sem = s]
  <2>1. h \in HostSem /\ sem_count \in SemId /\ sem_count' \in 0 .. MaxSems
    <3>1. NewSem(v, NoPtr, TRUE) \in HostSem
      BY <1>2, NewSemType
    <3>2. s \in Int
      BY <1>1, <1>2
    <3>3. h \in HostSem
      BY <3>1, <3>2, HostSemFields
    <3>4. QED
      BY <1>1, <1>2, <1>6, <3>3 DEF sem_open_new
  <2>2. /\ balance' \in [SemId -> Int]
        /\ open_semaphores' \in [SemPtr -> SemId \cup {NoSem}]
        /\ named_semaphores' \in [SemNames -> SemId \cup {NoSem}]
    BY <1>1, <1>2, <1>6, <2>1 DEF sem_open_new, OpenAt
  <2>3. host_sems' = [host_sems EXCEPT ![sem_count] = h]
    BY <1>6, Zenon DEF sem_open_new, OpenAt
  <2> HIDE DEF h
  <2>4. SemTypeOK'
    BY <1>1, <2>1, <2>2, <2>3, SemUpdate
  <2>5. QED
    BY <1>1, <1>6, <2>4, IdleTypes DEF sem_open_new
<1>7. ASSUME NEW n \in SemNames, NEW s \in HeapSems, sem_open_existing(n, s)
      PROVE  LoopTypes' /\ SemBlocks' /\ SemTypeOK'
  <2> DEFINE o == named_semaphores[n]
             h == [host_sems[o] EXCEPT !.guest_sem = s]
  <2>1. o \in SemId /\ host_sems[o] \in HostSem /\ s \in Int
    BY <1>1, <1>2, <1>7 DEF sem_open_existing
  <2>2. h \in HostSem
    BY <2>1, HostSemFields
  <2>3. open_semaphores' \in [SemPtr -> SemId \cup {NoSem}] /\ host_sems' = [host_sems EXCEPT ![o] = h]
    BY <1>1, <1>2, <1>7, <2>1 DEF sem_open_existing, OpenAt
  <2>4. UNCHANGED <<sem_count, named_semaphores, balance, threadVars>>
    BY <1>7 DEF sem_open_existing
  <2> HIDE DEF h, o
  <2>5. SemTypeOK'
    BY <1>1, <2>1, <2>2, <2>3, <2>4, SemUpdate
  <2>6. QED
    BY <1>1, <2>4, <2>5, IdleTypes
<1>8. ASSUME NEW s \in SemPtr, Open(s), NEW v \in Int, NEW n \in Int,
             host_sems' = [host_sems EXCEPT ![open_semaphores[s]] = [host_sems[open_semaphores[s]] EXCEPT !.value = v]],
             balance' = [balance EXCEPT ![open_semaphores[s]] = n],
             UNCHANGED <<sem_count, open_semaphores, named_semaphores>>
      PROVE  SemTypeOK'
  <2> DEFINE o == open_semaphores[s]
             h == [host_sems[o] EXCEPT !.value = v]
  <2>1. o \in SemId /\ host_sems[o] \in HostSem
    BY <1>1, <1>3, <1>8
  <2>2. h \in HostSem
    BY <2>1, HostSemFields
  <2>3. host_sems' = [host_sems EXCEPT ![o] = h] /\ balance' \in [SemId -> Int]
    BY <1>1, <1>8, <2>1
  <2> HIDE DEF h, o
  <2>4. QED
    BY <1>1, <1>8, <2>1, <2>2, <2>3, SemUpdate
<1>9. ASSUME NEW s \in SemPtr, sem_post(s) PROVE LoopTypes' /\ SemBlocks' /\ SemTypeOK'
  <2> DEFINE o == open_semaphores[s]
  <2>1. host_sems[o].value + 1 \in Int /\ balance[o] + 1 \in Int /\ Open(s)
    BY <1>1, <1>3, <1>9, HostSemFields DEF sem_post
  <2>2. /\ host_sems' = [host_sems EXCEPT ![o] = [host_sems[o] EXCEPT !.value = host_sems[o].value + 1]]
        /\ balance' = [balance EXCEPT ![o] = balance[o] + 1]
        /\ UNCHANGED <<sem_count, open_semaphores, named_semaphores, threadVars>>
    BY <1>9 DEF sem_post
  <2>3. SemTypeOK'
    BY <1>8, <2>1, <2>2
  <2>4. QED
    BY <1>1, <2>2, <2>3, IdleTypes
<1>10. ASSUME NEW s \in SemPtr, Open(s), Decrement(s) PROVE LoopTypes' /\ SemBlocks' /\ SemTypeOK'
  <2> DEFINE o == open_semaphores[s]
  <2>1. host_sems[o].value - 1 \in Int /\ balance[o] - 1 \in Int
    BY <1>1, <1>3, <1>10, HostSemFields
  <2>2. /\ host_sems' = [host_sems EXCEPT ![o] = [host_sems[o] EXCEPT !.value = host_sems[o].value - 1]]
        /\ balance' = [balance EXCEPT ![o] = balance[o] - 1]
        /\ UNCHANGED <<sem_count, open_semaphores, named_semaphores, threadVars>>
    BY <1>10 DEF Decrement
  <2>3. SemTypeOK'
    BY <1>8, <1>10, <2>1, <2>2
  <2>4. QED
    BY <1>1, <2>2, <2>3, IdleTypes
<1>11. ASSUME NEW s \in SemPtr, sem_wait(s) PROVE LoopTypes' /\ SemBlocks' /\ SemTypeOK'
  <2> DEFINE o == open_semaphores[s]
             h == [host_sems[o] EXCEPT !.waiting = host_sems[o].waiting \cup {current}]
             b == Blk("Semaphore", s, FALSE)
             c == Cl("sem_wait", s, NoSem)
  <2>1. CASE Decrement(s)
    BY <1>10, <1>11, <2>1 DEF sem_wait
  <2>2. CASE /\ host_sems' = [host_sems EXCEPT ![o].waiting = @ \cup {current}]
             /\ Yield(b, c)
             /\ UNCHANGED <<sem_count, open_semaphores, named_semaphores, balance>>
    <3>1. b \in Block /\ c \in Call /\ b.obj = s
      BY <1>1 DEF Blk, Block, BlockKind, Cl, Call, CallName
    <3>2. LoopTypes' /\ SemBlocks'
      BY <1>1, <2>2, <3>1, YieldTypes
    <3>3. o \in SemId /\ host_sems[o] \in HostSem /\ current \in Thread
      BY <1>3, <1>11 DEF sem_wait, RunInv, TableOK
    <3>4. h \in HostSem
      BY <3>3, HostSemFields
    <3>5. host_sems' = [host_sems EXCEPT ![o] = h]
      BY <2>2
    <3> HIDE DEF h, o
    <3>6. SemTypeOK'
      BY <1>1, <2>2, <3>3, <3>4, <3>5, SemUpdate
    <3>7. QED
      BY <3>2, <3>6
  <2>3. QED
    BY <1>11, <2>1, <2>2 DEF sem_wait
<1>12. ASSUME NEW s \in SemPtr, sem_trywait(s) PROVE LoopTypes' /\ SemBlocks' /\ SemTypeOK'
  BY <1>10, <1>12 DEF sem_trywait
<1>13. ASSUME NEW s \in SemPtr, sem_close(s) PROVE LoopTypes' /\ SemBlocks' /\ SemTypeOK'
  <2> DEFINE o == open_semaphores[s]
             h == [host_sems[o] EXCEPT !.guest_sem = NoPtr]
  <2>1. o \in SemId /\ host_sems[o] \in HostSem
    BY <1>3, <1>13 DEF sem_close
  <2>2. h \in HostSem
    BY <1>2, <2>1, HostSemFields
  <2>3. /\ host_sems' = [host_sems EXCEPT ![o] = h]
        /\ open_semaphores' \in [SemPtr -> SemId \cup {NoSem}]
        /\ UNCHANGED <<sem_count, named_semaphores, balance, threadVars>>
    BY <1>1, <1>13 DEF sem_close
  <2> HIDE DEF h, o
  <2>4. SemTypeOK'
    BY <1>1, <2>1, <2>2, <2>3, SemUpdate
  <2>5. QED
    BY <1>1, <2>3, <2>4, IdleTypes
<1>14. ASSUME NEW n \in SemNames, sem_unlink(n) PROVE LoopTypes' /\ SemBlocks' /\ SemTypeOK'
  <2>1. SemTypeOK'
    BY <1>1, <1>14 DEF sem_unlink, SemTypeOK
  <2>2. QED
    BY <1>1, <1>14, <2>1, IdleTypes DEF sem_unlink
<1>15. CASE ReturnFromSemWait
  <2> DEFINE o == call[current].aux
  <2>1. balance' \in [SemId -> Int]
    <3>1. balance' = balance \/ balance' = [balance EXCEPT ![o] = balance[o] - 1]
      BY <1>15 DEF ReturnFromSemWait
    <3>2. o \in SemId => balance[o] - 1 \in Int
      BY <1>1
    <3> HIDE DEF o
    <3>3. QED
      BY <1>1, <3>1, <3>2
  <2>2. SemTypeOK'
    BY <1>1, <1>15, <2>1 DEF ReturnFromSemWait, SemTypeOK
  <2>3. QED
    BY <1>1, <1>15, <2>2, ReturnTypes DEF ReturnFromSemWait
<1>16. QED
  BY <1>4, <1>5, <1>6, <1>7, <1>9, <1>11, <1>12, <1>13, <1>14, <1>15 DEF SemNext

LEMMA SchedTypesNext ==
  ASSUME TypeInv, RunInv, LockInv, Schedule
  PROVE  TypeInv'
<1>1. /\ LoopTypes /\ SemBlocks /\ call \in [Thread -> Call] /\ len \in Nat
      /\ current \in Thread
  BY DEF TypeInv, LoopTypes, RunInv, TableOK
<1>2. ASSUME UNCHANGED semVars PROVE SemTypeOK'
  BY <1>2 DEF TypeInv, SemTypeOK, semVars
<1>3. ASSUME UNCHANGED joinVars PROVE JoinTypes'
  BY <1>3 DEF TypeInv, JoinTypes, joinVars
<1>4. ASSUME NEW t \in Thread, SchedRunnable(t) PROVE TypeInv'
  <2>1. LoopTypes' /\ SemBlocks'
    BY <1>1, <1>4 DEF LoopTypes, SemBlocks, SchedRunnable, SwitchTo
  <2>2. QED
    BY <1>2, <1>3, <1>4, <2>1 DEF TypeInv, SchedRunnable, SwitchTo, syncVars
<1>5. ASSUME NEW t \in Thread, SchedSlept(t) \/ SchedSemaphoreGone(t) \/ SchedJoined(t)
      PROVE  TypeInv'
  <2>1. Wake(t) /\ SwitchTo(t) /\ UNCHANGED <<call, syncVars>>
    BY <1>5 DEF SchedSlept, SchedSemaphoreGone, SchedJoined
  <2>2. LoopTypes' /\ SemBlocks'
    BY <1>1, <2>1, WakeTypes
  <2>3. QED
    BY <1>2, <1>3, <2>1, <2>2 DEF TypeInv, SwitchTo, syncVars
<1>6. ASSUME NEW t \in Thread, NEW m, RelockFor(t, m), UNCHANGED semVars PROVE TypeInv'
  <2>1. LoopTypes' /\ SemBlocks'
    BY <1>1, <1>6, RelockTypes
  <2>2. UNCHANGED joinVars
    BY <1>6 DEF RelockFor, SwitchTo
  <2>3. QED
    BY <1>2, <1>3, <1>6, <2>1, <2>2 DEF TypeInv
<1>7. ASSUME NEW t \in Thread, SchedMutex(t) \/ SchedCondition(t) \/ SchedTimeout(t) PROVE TypeInv'
  BY <1>6, <1>7 DEF SchedMutex, SchedCondition, SchedTimeout
<1>8. ASSUME NEW t \in Thread, SchedSemaphore(t) PROVE TypeInv'
  <2> DEFINE s == blocked_by[t].obj
             o == open_semaphores[s]
             h == [host_sems[o] EXCEPT !.value = host_sems[o].value - 1,
                                       !.waiting = host_sems[o].waiting \ {t}]
  <2>1. s \in SemPtr /\ Open(s)
    BY <1>1, <1>8 DEF SemBlocks, SchedSemaphore
  <2>2. o \in SemId /\ host_sems[o] \in HostSem /\ o \in Int
    BY <2>1, SemTypes DEF Open, TypeInv
  <2>3. host_sems[o].value - 1 \in Int /\ host_sems[o].waiting \ {t} \in SUBSET Thread
    BY <2>2, HostSemFields
  <2>4. h \in HostSem
    BY <2>2, <2>3 DEF HostSem
  <2>5. host_sems' = [host_sems EXCEPT ![o] = h]
    BY <1>8, <2>2, SemTypes DEF SchedSemaphore, HostSem, TypeInv
  <2>6. /\ call' = [call EXCEPT ![t].aux = o] /\ Wake(t) /\ SwitchTo(t)
        /\ UNCHANGED <<sem_count, open_semaphores, named_semaphores, balance>>
    BY <1>8 DEF SchedSemaphore
  <2> HIDE DEF h, o
  <2>7. SemTypeOK'
    BY <2>2, <2>4, <2>5, <2>6, SemUpdate DEF TypeInv, SemTypeOK
  <2>8. call' \in [Thread -> Call]
    <3>1. [call[t] EXCEPT !.aux = o] \in Call
      BY <1>1, <2>2 DEF Call
    <3>2. QED
      BY <1>1, <2>6, <3>1
  <2>9. LoopTypes' /\ SemBlocks'
    BY <1>1, <2>6, <2>8, WakeTypes
  <2>10. QED
    BY <1>3, <2>6, <2>7, <2>9 DEF TypeInv, SwitchTo
<1>9. ASSUME NEW t \in Thread, SchedCondLost(t) PROVE TypeInv'
  BY <1>1, <1>2, <1>3, <1>9, PanicTypes DEF SchedCondLost, PanicReason, syncVars, TypeInv
<1>10. ASSUME NEW t \in Thread, SchedTimeoutLocked(t) PROVE TypeInv'
  <2> DEFINE b == Blk("Mutex", CondMutex(t), FALSE)
  <2>1. blocked_by[t].obj \in Conds
    BY <1>10 DEF SchedTimeoutLocked, ConsideredCond, LockInv, MutexInv, Links, Link
  <2>2. CondMutex(t) \in Int
    BY <2>1, CondFields, MutexIdIsInt DEF LockInv, CondLinks, CondTypeOK, CondMutex
  <2>3. b \in Block /\ b.kind = "Mutex"
    BY <2>2 DEF Blk, Block, BlockKind
  <2>4. /\ blocked_by' = [blocked_by EXCEPT ![t] = b] /\ scan' = scan + 1 /\ scan < len
        /\ UNCHANGED <<len, expired, call, phase, panic, grace, semVars, joinVars>>
    BY <1>10 DEF SchedTimeoutLocked, ConsideredCond, Considered
  <2> HIDE DEF b
  <2>5. LoopTypes'
    BY <1>1, <2>3, <2>4 DEF LoopTypes
  <2>6. SemBlocks'
    BY <1>1, <2>3, <2>4 DEF SemBlocks, LoopTypes
  <2>7. QED
    BY <1>2, <1>3, <2>4, <2>5, <2>6 DEF TypeInv
<1>11. CASE SchedSkip \/ SchedRetry \/ SchedDeadlock
  <2>1. /\ UNCHANGED <<len, blocked_by, expired, call, syncVars, joinVars>>
        /\ phase' = phase \/ phase' = "panic"
    BY <1>11, Zenon DEF SchedSkip, SchedRetry, SchedDeadlock
  <2>2. panic' \in PanicReason
    <3>1. panic \in PanicReason
      BY <1>1 DEF LoopTypes
    <3>2. QED
      BY <1>11, <3>1, Zenon DEF SchedSkip, SchedRetry, SchedDeadlock, PanicReason
  <2>3. grace' \in 0 .. 3
    <3>1. grace \in 0 .. 3
      BY <1>1 DEF LoopTypes
    <3>2. grace' = grace \/ grace' = 0 \/ (grace' = grace + 1 /\ grace < 3)
      <4>1. CASE SchedSkip
        BY <4>1, Zenon DEF SchedSkip
      <4>2. CASE SchedRetry
        BY <4>2 DEF SchedRetry
      <4>3. CASE SchedDeadlock
        BY <4>3, Zenon DEF SchedDeadlock
      <4>4. QED
        BY <1>11, <4>1, <4>2, <4>3
    <3>3. QED
      BY <3>1, <3>2
  <2>4. scan' \in 0 .. len
    <3>1. scan \in 0 .. len /\ len \in Nat
      BY <1>1 DEF LoopTypes
    <3>2. scan' = 0 \/ scan' = scan \/ (scan' = scan + 1 /\ scan < len)
      BY <1>11, Zenon DEF SchedSkip, SchedRetry, SchedDeadlock
    <3>3. QED
      BY <3>1, <3>2
  <2>5. LoopTypes'
    BY <1>1, <2>1, <2>2, <2>3, <2>4 DEF LoopTypes
  <2>6. SemBlocks'
    BY <1>1, <2>1 DEF SemBlocks
  <2>7. QED
    BY <1>2, <1>3, <2>1, <2>5, <2>6 DEF TypeInv, syncVars
<1>12. QED
  BY <1>4, <1>5, <1>7, <1>8, <1>9, <1>10, <1>11 DEF Schedule

LEMMA TypeInvNext == RunInv /\ LockInv /\ TypeInv /\ [Next]_vars => TypeInv'
<1> SUFFICES ASSUME RunInv, LockInv, TypeInv, [Next]_vars PROVE TypeInv'
  OBVIOUS
<1>1. ASSUME UNCHANGED semVars PROVE SemTypeOK'
  BY <1>1 DEF TypeInv, SemTypeOK, semVars
<1>2. ASSUME UNCHANGED joinVars PROVE JoinTypes'
  BY <1>2 DEF TypeInv, JoinTypes, joinVars
<1>3. CASE UNCHANGED vars
  BY <1>1, <1>2, <1>3, IdleTypes DEF TypeInv, vars, syncVars
<1>4. CASE MutexNext /\ UNCHANGED <<conds, semVars, joinVars>>
  BY <1>1, <1>2, <1>4, MutexTypesNext DEF TypeInv
<1>5. CASE CondNext /\ UNCHANGED <<semVars, joinVars>>
  BY <1>1, <1>2, <1>5, CondTypesNext DEF TypeInv
<1>6. CASE SemNext /\ UNCHANGED <<mutexVars, conds, joinVars>>
  BY <1>2, <1>6, SemTypesNext DEF TypeInv
<1>7. QED
  BY <1>3, <1>4, <1>5, <1>6, ThreadTypesNext, SchedTypesNext DEF Next, Panicked

(* Every variable of the scheduler and of libc's mutexes, condition         *)
(* variables and semaphores keeps its type, whatever the guest calls.      *)
THEOREM TypeCorrect == Spec => []TypeOK
<1>1. RunInv /\ LockInv /\ TypeInv => TypeOK
  <2> SUFFICES ASSUME RunInv, LockInv, TypeInv PROVE TypeOK
    OBVIOUS
  <2>1. active \subseteq Thread /\ guest_context \subseteq Thread /\ host_context \subseteq Thread
    BY MaxThreadsAssumption DEF RunInv, TableOK, ContextsConserved, Thread
  <2>2. ThreadTypeOK
    BY <2>1 DEF RunInv, TableOK, TypeInv, LoopTypes, ThreadTypeOK
  <2>3. QED
    BY <2>2 DEF TypeOK, TypeInv, JoinTypes, LockInv, MutexInv, LockTypes, CondLinks
<1>2. Spec => []RunInv
  BY RunInvInit, RunInvNext, PTL DEF Spec
<1>3. Spec => []TypeInv
  BY <1>2, LockInvAlways, TypeInvInit, TypeInvNext, PTL DEF Spec
<1>4. QED
  BY <1>1, <1>2, <1>3, LockInvAlways, PTL
=============================================================================
