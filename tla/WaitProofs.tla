----------------------------- MODULE WaitProofs -----------------------------
(***************************************************************************)
(* What the blocking calls wait for: the tokens and the waiting sets of    *)
(* semaphores, the queues and timeouts of condition variables, what the    *)
(* scheduler has seen when it reports a deadlock, and the waiting counts   *)
(* of mutexes.                                                             *)
(***************************************************************************)
EXTENDS LockProofs, FiniteSetTheorems

-----------------------------------------------------------------------------
(* Semaphores *)

SemBlocked(t) == blocked_by[t].kind = "Semaphore"
InSemWait(t) == call[t].fn = "sem_wait"

(* An open sem_t* and its host object name each other, so two addresses     *)
(* never share one; numbers from sem_count on have never been used.        *)
SemTable ==
  /\ \A s \in SemPtr : Open(s) => open_semaphores[s] < sem_count /\ ObjOf(s).guest_sem = s
  /\ \A n \in SemNames : named_semaphores[n] < sem_count

(* A thread that is still blocked has drawn no token yet, and a token comes *)
(* from an object that was created.                                        *)
SemDraws ==
  \A t \in Thread : InSemWait(t) =>
    call[t].aux < sem_count /\ (SemBlocked(t) => call[t].aux = NoSem)

(* The part of SemInv that holds whatever the guest does. *)
SemInv == SemTable /\ SemDraws /\ SemConservation

(* The guest destroys or closes no semaphore that threads wait on. *)
CarefulWithSems == "sem_destroy_busy" \notin Misuse /\ "sem_close_busy" \notin Misuse

(* Then nobody waits for a semaphore that is gone, an object that can be    *)
(* opened again has no waiters left, and a thread that leaves its wait has *)
(* its token.                                                              *)
SemQueues ==
  /\ SemWaitersExact
  /\ \A t \in Thread : SemBlocked(t) => Open(blocked_by[t].obj)
  /\ \A o \in SemId : (\A s \in SemPtr : open_semaphores[s] # o) => host_sems[o].waiting = {}
  /\ \A t \in Thread : (InSemWait(t) /\ call[t].aux = NoSem) => SemBlocked(t)

-----------------------------------------------------------------------------
(* Steps that have nothing to do with semaphores *)

(* No thread starts or ends a sem_wait, or its block. *)
SemApart ==
  /\ UNCHANGED semVars
  /\ \A t \in Thread :
       /\ SemBlocked(t)' <=> SemBlocked(t)
       /\ SemBlocked(t) => blocked_by'[t] = blocked_by[t]
       /\ InSemWait(t)' <=> InSemWait(t)
       /\ InSemWait(t) => call'[t] = call[t]

LEMMA SemInvApart ==
  ASSUME SemInv, SemApart
  PROVE  SemInv'
<1>1. UNCHANGED <<host_sems, sem_count, open_semaphores, named_semaphores, balance>>
  BY DEF SemApart, semVars
<1>2. SemTable'
  BY <1>1 DEF SemInv, SemTable, Open, ObjOf
<1>3. SemDraws'
  BY <1>1 DEF SemInv, SemDraws, SemApart
<1>4. ASSUME NEW o \in SemId PROVE InFlight(o)' = InFlight(o)
  BY DEF SemApart, InFlight, InSemWait
<1>5. SemConservation'
  BY <1>1, <1>4 DEF SemInv, SemConservation
<1>6. QED
  BY <1>2, <1>3, <1>5 DEF SemInv

LEMMA SemQueuesApart ==
  ASSUME SemQueues, SemApart
  PROVE  SemQueues'
<1>1. UNCHANGED <<host_sems, sem_count, open_semaphores, named_semaphores, balance>>
  BY DEF SemApart, semVars
<1>2. ASSUME NEW s \in SemPtr
      PROVE  {t \in Thread : blocked_by[t].kind = "Semaphore" /\ blocked_by[t].obj = s}'
               = {t \in Thread : blocked_by[t].kind = "Semaphore" /\ blocked_by[t].obj = s}
  BY DEF SemApart, SemBlocked
<1>3. SemWaitersExact'
  BY <1>1, <1>2 DEF SemQueues, SemWaitersExact, Open, ObjOf
<1>4. \A t \in Thread : SemBlocked(t)' => Open(blocked_by[t].obj)'
  BY <1>1 DEF SemQueues, SemApart, Open
<1>5. \A t \in Thread : (InSemWait(t)' /\ call'[t].aux = NoSem) => SemBlocked(t)'
  BY DEF SemQueues, SemApart
<1>6. \A o \in SemId : (\A s \in SemPtr : open_semaphores'[s] # o) => host_sems'[o].waiting = {}
  BY <1>1 DEF SemQueues
<1>7. QED
  BY <1>3, <1>4, <1>5, <1>6 DEF SemQueues

(* Nothing but the thread table changes, and there only what SemApart       *)
(* allows: the running thread is in no call and not blocked.               *)
LEMMA ApartQuiet ==
  ASSUME UNCHANGED <<semVars, call, blocked_by>>
  PROVE  SemApart
  BY DEF SemApart, SemBlocked, InSemWait

LEMMA ApartYield ==
  ASSUME RunInv, LoopTypes, phase = "guest", ~InSemWait(current), NEW b, NEW c, Yield(b, c),
         b.kind # "Semaphore", c.fn # "sem_wait", UNCHANGED semVars
  PROVE  SemApart
<1>1. /\ current \in Thread /\ ~SemBlocked(current) /\ DOMAIN blocked_by = Thread
      /\ DOMAIN call = Thread
  BY DEF RunInv, TableOK, RunsOnlyRunnable, Blocked, SemBlocked, LoopTypes
<1>2. /\ blocked_by'[current] = b /\ call'[current] = c
      /\ \A t \in Thread : t # current => blocked_by'[t] = blocked_by[t] /\ call'[t] = call[t]
  BY <1>1 DEF Yield
<1>3. QED
  BY <1>1, <1>2 DEF SemApart, SemBlocked, InSemWait

LEMMA ApartReturn ==
  ASSUME RunInv, LoopTypes, ~InSemWait(current), Return, UNCHANGED semVars
  PROVE  SemApart
<1>1. current \in Thread /\ DOMAIN call = Thread /\ NoCall.fn = "none"
  BY DEF RunInv, TableOK, LoopTypes, NoCall, Cl
<1>2. QED
  BY <1>1 DEF SemApart, SemBlocked, InSemWait, Return

LEMMA ApartWake ==
  ASSUME RunInv, NEW t \in Thread, ~SemBlocked(t), Wake(t), UNCHANGED <<call, semVars>>
  PROVE  SemApart
<1>1. DOMAIN blocked_by = Thread /\ NotBlocked.kind = "NotBlocked"
  BY DEF RunInv, TableOK, NotBlocked, Blk
<1>2. QED
  BY <1>1 DEF SemApart, SemBlocked, InSemWait, Wake

LEMMA ApartRelock ==
  ASSUME RunInv, NEW t \in Thread, NEW m, ~SemBlocked(t), RelockFor(t, m), UNCHANGED semVars
  PROVE  SemApart
  BY ApartWake, ApartQuiet DEF RelockFor, Panic

(* The steps of semaphore.rs and of the scheduler's Semaphore arm. *)
SemStep ==
  \/ SemNext /\ UNCHANGED <<mutexVars, conds, joinVars>>
  \/ \E t \in Thread : SchedSemaphore(t) \/ SchedSemaphoreGone(t)

LEMMA ApartNext ==
  ASSUME RunInv, LockInv, TypeInv, [Next]_vars, ~SemStep
  PROVE  SemApart
<1> USE DEF TypeInv
<1>1. ASSUME UNCHANGED <<semVars, call, blocked_by>> PROVE SemApart
  BY <1>1, ApartQuiet
<1>2. ASSUME NEW f, Calls(f) PROVE phase = "guest" /\ ~InSemWait(current)
  BY <1>2 DEF Calls, InSemWait
<1>3. CASE UNCHANGED vars
  BY <1>1, <1>3 DEF vars, threadVars, syncVars
<1>4. CASE ThreadNext
  <2>1. UNCHANGED semVars
    BY <1>4 DEF ThreadNext, pthread_create, ThreadExit, ReturnFromJoin, sleep, Preempt,
           pthread_join, pthread_detach, thread_suspend, thread_resume, TimePasses, syncVars
  <2>2. ASSUME NEW fn, NEW count, pthread_create(fn, count) PROVE SemApart
    BY <1>1, <2>1, <2>2 DEF pthread_create
  <2>3. CASE ThreadExit \/ Preempt
    BY <1>1, <2>1, <2>3 DEF ThreadExit, Preempt
  <2>4. CASE ReturnFromJoin
    BY <2>1, <2>4, ApartReturn DEF ReturnFromJoin, InSemWait
  <2>5. CASE sleep
    BY <1>2, <2>1, <2>5, ApartYield DEF sleep, Blk, NoCall, Cl
  <2>6. ASSUME NEW j \in Thread, pthread_join(j) PROVE SemApart
    <3>1. CASE j = 0
      BY <1>1, <2>1, <2>6, <3>1 DEF pthread_join, Panic
    <3>2. CASE j # 0
      <4>1. Calls("pthread_join") /\ Yield(Blk("Joining", j, FALSE), Cl("join", j, -1))
        BY <2>6, <3>2 DEF pthread_join
      <4>2. Blk("Joining", j, FALSE).kind # "Semaphore" /\ Cl("join", j, -1).fn # "sem_wait"
        BY DEF Blk, Cl
      <4>3. QED
        BY <1>2, <2>1, <4>1, <4>2, ApartYield
    <3>3. QED
      BY <3>1, <3>2
  <2>7. ASSUME NEW j \in Thread,
               pthread_detach(j) \/ thread_suspend(j) \/ thread_resume(j) \/ TimePasses(j)
        PROVE  SemApart
    BY <1>1, <2>1, <2>7 DEF pthread_detach, thread_suspend, thread_resume, TimePasses, threadVars
  <2>8. QED
    BY <1>4, <2>2, <2>3, <2>4, <2>5, <2>6, <2>7 DEF ThreadNext
<1>5. CASE MutexNext /\ UNCHANGED <<conds, semVars, joinVars>>
  <2>1. ASSUME NEW m, NEW tab, LockMutex(m, tab), NEW f, Calls(f) PROVE SemApart
    <3>1. CASE UNCHANGED threadVars
      BY <1>1, <1>5, <3>1 DEF threadVars
    <3>2. CASE Yield(Blk("Mutex", m, FALSE), Cl("lock", m, m))
      BY <1>2, <1>5, <2>1, <3>2, ApartYield DEF Blk, Cl
    <3>3. QED
      BY <2>1, <3>1, <3>2 DEF LockMutex
  <2>2. ASSUME NEW p \in PMutexes, pthread_mutex_lock(p) \/ pthread_mutex_trylock(p) PROVE SemApart
    BY <1>1, <1>5, <2>1, <2>2 DEF pthread_mutex_lock, pthread_mutex_trylock, threadVars
  <2>3. CASE ReturnFromLock
    BY <1>5, <2>3, ApartReturn DEF ReturnFromLock, InSemWait
  <2>4. QED
    BY <1>1, <1>5, <2>2, <2>3
       DEF MutexNext, pthread_mutex_init, pthread_mutex_unlock, pthread_mutex_destroy, threadVars
<1>6. CASE CondNext /\ UNCHANGED <<semVars, joinVars>>
  <2>1. ASSUME NEW c, NEW p, NEW fn \in WaitCalls, NEW f, Calls(f), Wait(c, p, fn) PROVE SemApart
    <3>1. CASE UNCHANGED <<call, blocked_by>>
      BY <1>1, <1>6, <3>1
    <3>2. CASE Yield(Blk("Condition", c, fn = "cond_timedwait"), Cl(fn, c, IdOf(p)))
      BY <1>2, <1>6, <2>1, <3>2, ApartYield DEF Blk, Cl, WaitCalls
    <3>3. QED
      BY <2>1, <3>1, <3>2 DEF Wait, threadVars, Panic
  <2>2. CASE ReturnFromWait
    BY <1>1, <1>6, <2>2, ApartReturn DEF ReturnFromWait, InSemWait, Panic
  <2>3. ASSUME NEW c \in Conds, NEW p \in PMutexes,
               pthread_cond_wait(c, p) \/ pthread_cond_timedwait(c, p)
        PROVE  SemApart
    BY <2>1, <2>3 DEF pthread_cond_wait, pthread_cond_timedwait, WaitCalls
  <2>4. QED
    BY <1>1, <1>6, <2>2, <2>3
       DEF CondNext, pthread_cond_init, pthread_cond_signal, pthread_cond_broadcast,
           pthread_cond_destroy, threadVars, Panic
<1>7. CASE Schedule
  <2>1. ASSUME NEW t \in Thread, SchedRunnable(t) PROVE SemApart
    BY <1>1, <2>1 DEF SchedRunnable, syncVars
  <2>2. ASSUME NEW t \in Thread, SchedSlept(t) \/ SchedJoined(t) PROVE SemApart
    BY <2>2, ApartWake DEF SchedSlept, SchedJoined, syncVars, SemBlocked
  <2>3. ASSUME NEW t \in Thread, SchedMutex(t) \/ SchedCondition(t) \/ SchedTimeout(t)
        PROVE  SemApart
    BY <2>3, ApartRelock DEF SchedMutex, SchedCondition, SchedTimeout, ConsideredCond, SemBlocked
  <2>4. ASSUME NEW t \in Thread, SchedCondLost(t) PROVE SemApart
    BY <1>1, <2>4 DEF SchedCondLost, Panic, syncVars
  <2>5. ASSUME NEW t \in Thread, SchedTimeoutLocked(t) PROVE SemApart
    <3>1. ~SemBlocked(t) /\ UNCHANGED <<call, semVars>> /\ DOMAIN blocked_by = Thread
      BY <2>5 DEF SchedTimeoutLocked, ConsideredCond, SemBlocked, RunInv, TableOK
    <3>2. blocked_by'[t].kind = "Mutex" /\ \A u \in Thread : u # t => blocked_by'[u] = blocked_by[u]
      BY <2>5, <3>1 DEF SchedTimeoutLocked, Blk
    <3>3. QED
      BY <3>1, <3>2 DEF SemApart, SemBlocked, InSemWait
  <2>6. CASE SchedSkip \/ SchedRetry \/ SchedDeadlock
    BY <1>1, <2>6 DEF SchedSkip, SchedRetry, SchedDeadlock, syncVars
  <2>7. QED
    BY <1>7, <2>1, <2>2, <2>3, <2>4, <2>5, <2>6 DEF Schedule, SemStep
<1>8. QED
  BY <1>3, <1>4, <1>5, <1>6, <1>7 DEF Next, Panicked, SemStep

-----------------------------------------------------------------------------
(* Tokens *)

LEMMA InFlightFinite ==
  ASSUME NEW o
  PROVE  IsFiniteSet(InFlight(o)) /\ Cardinality(InFlight(o)) \in Nat
<1>1. IsFiniteSet(0 .. MaxThreads - 1)
  BY MaxThreadsAssumption, FS_Interval
<1>2. InFlight(o) \subseteq 0 .. MaxThreads - 1
  BY DEF InFlight, Thread
<1>3. QED
  BY <1>1, <1>2, FS_Subset, FS_CardinalityType

LEMMA SemFacts ==
  ASSUME TypeInv, SemInv
  PROVE  /\ \A o \in SemId : /\ host_sems[o] \in HostSem /\ host_sems[o].value \in Nat
                             /\ balance[o] \in Int /\ o \in Int
                             /\ host_sems[o].value + Cardinality(InFlight(o)) = balance[o]
         /\ \A s \in SemPtr : Open(s) =>
              /\ open_semaphores[s] \in SemId /\ open_semaphores[s] < sem_count
              /\ host_sems[open_semaphores[s]].guest_sem = s
         /\ sem_count \in Nat /\ DOMAIN host_sems = SemId /\ DOMAIN balance = SemId
         /\ DOMAIN open_semaphores = SemPtr /\ DOMAIN named_semaphores = SemNames
         /\ NoPtr \notin SemPtr
<1>1. SemTypeOK
  BY DEF TypeInv
<1>2. ASSUME NEW o \in SemId
      PROVE  /\ host_sems[o] \in HostSem /\ host_sems[o].value \in Nat
             /\ host_sems[o].value + Cardinality(InFlight(o)) = balance[o]
  <2>1. host_sems[o] \in HostSem
    BY <1>1, SemTypes
  <2>2. host_sems[o].value \in Int
    BY <2>1, HostSemFields
  <2>3. QED
    BY <2>1, <2>2 DEF SemInv, SemConservation
<1>3. NoPtr \notin SemPtr
  BY SemAssumption DEF NoPtr, SemPtr
<1>4. \A s \in SemPtr : Open(s) =>
        /\ open_semaphores[s] \in SemId /\ open_semaphores[s] < sem_count
        /\ host_sems[open_semaphores[s]].guest_sem = s
  BY <1>1, SemTypes DEF SemInv, SemTable, Open, ObjOf
<1>5. QED
  BY <1>1, <1>2, <1>3, <1>4, SemTypes

(* The objects other than o keep their value and their balance, no token is *)
(* handed over, and o gains as much in value as in balance.                *)
LEMMA ConserveObject ==
  ASSUME TypeInv, SemInv, NEW o \in SemId, \A x \in SemId : InFlight(x)' = InFlight(x),
         \A x \in SemId : x # o => host_sems'[x].value = host_sems[x].value /\ balance'[x] = balance[x],
         NEW d \in Int, host_sems'[o].value = host_sems[o].value + d, balance'[o] = balance[o] + d,
         host_sems[o].value + d >= 0
  PROVE  SemConservation'
<1>1. ASSUME NEW x \in SemId
      PROVE  /\ host_sems[x].value \in Nat /\ balance[x] \in Int
             /\ host_sems[x].value + Cardinality(InFlight(x)) = balance[x]
             /\ Cardinality(InFlight(x)) \in Nat
  BY SemFacts, InFlightFinite
<1>2. ASSUME NEW x \in SemId
      PROVE  host_sems'[x].value >= 0 /\ host_sems'[x].value + Cardinality(InFlight(x)) = balance'[x]
  <2>1. CASE x = o
    BY <1>1, <2>1
  <2>2. CASE x # o
    BY <1>1, <2>2
  <2>3. QED
    BY <2>1, <2>2
<1>3. ASSUME NEW x \in SemId PROVE Cardinality(InFlight(x))' = Cardinality(InFlight(x))
  OBVIOUS
<1>4. QED
  BY <1>2, <1>3 DEF SemConservation

LEMMA ConserveNone ==
  ASSUME SemInv, \A x \in SemId : InFlight(x)' = InFlight(x),
         \A x \in SemId : host_sems'[x].value = host_sems[x].value, balance' = balance
  PROVE  SemConservation'
<1>1. ASSUME NEW x \in SemId PROVE Cardinality(InFlight(x))' = Cardinality(InFlight(x))
  OBVIOUS
<1>2. QED
  BY <1>1 DEF SemInv, SemConservation

(* A token passes between the value and the hands of a thread, or from a    *)
(* thread to the guest: d is what the value loses, e what the balance does. *)
LEMMA ConserveHanded ==
  ASSUME TypeInv, SemInv, NEW o \in SemId, NEW t \in Thread, NEW d \in {0, 1},
         \A x \in SemId : x # o => InFlight(x)' = InFlight(x),
         \A x \in SemId : x # o => host_sems'[x].value = host_sems[x].value /\ balance'[x] = balance[x],
         host_sems'[o].value = host_sems[o].value - d, balance'[o] = balance[o] - (1 - d),
         d = 1 => host_sems[o].value > 0 /\ t \notin InFlight(o) /\ InFlight(o)' = InFlight(o) \cup {t},
         d = 0 => t \in InFlight(o) /\ InFlight(o)' = InFlight(o) \ {t}
  PROVE  SemConservation'
<1>1. ASSUME NEW x \in SemId
      PROVE  /\ host_sems[x].value \in Nat /\ balance[x] \in Int
             /\ host_sems[x].value + Cardinality(InFlight(x)) = balance[x]
             /\ IsFiniteSet(InFlight(x)) /\ Cardinality(InFlight(x)) \in Nat
  BY SemFacts, InFlightFinite
<1>2. d = 1 => Cardinality(InFlight(o))' = Cardinality(InFlight(o)) + 1
  <2>1. SUFFICES ASSUME d = 1 PROVE Cardinality(InFlight(o)') = Cardinality(InFlight(o)) + 1
    OBVIOUS
  <2>2. Cardinality(InFlight(o) \cup {t}) = Cardinality(InFlight(o)) + 1
    BY <1>1, <2>1, FS_AddElement
  <2>3. InFlight(o)' = InFlight(o) \cup {t}
    BY <2>1
  <2>4. QED
    BY <2>2, <2>3, Zenon
<1>3. d = 0 => Cardinality(InFlight(o))' = Cardinality(InFlight(o)) - 1
  <2>1. SUFFICES ASSUME d = 0 PROVE Cardinality(InFlight(o)') = Cardinality(InFlight(o)) - 1
    OBVIOUS
  <2>2. Cardinality(InFlight(o) \ {t}) = Cardinality(InFlight(o)) - 1
    BY <1>1, <2>1, FS_RemoveElement
  <2>3. InFlight(o)' = InFlight(o) \ {t}
    BY <2>1
  <2>4. QED
    BY <2>2, <2>3, Zenon
<1>4. host_sems'[o].value >= 0 /\ host_sems'[o].value + Cardinality(InFlight(o))' = balance'[o]
  <2>1. /\ host_sems[o].value \in Nat /\ balance[o] \in Int /\ Cardinality(InFlight(o)) \in Nat
        /\ host_sems[o].value + Cardinality(InFlight(o)) = balance[o]
    BY <1>1
  <2>2. CASE d = 1
    <3>1. host_sems'[o].value = host_sems[o].value - 1 /\ balance'[o] = balance[o] - 0
          /\ host_sems[o].value > 0
      BY <2>2
    <3>2. QED
      BY <1>2, <2>1, <2>2, <3>1
  <2>3. CASE d = 0
    <3>1. host_sems'[o].value = host_sems[o].value - 0 /\ balance'[o] = balance[o] - 1
      BY <2>3
    <3>2. QED
      BY <1>3, <2>1, <2>3, <3>1
  <2>4. QED
    BY <2>2, <2>3
<1>5. ASSUME NEW x \in SemId, x # o
      PROVE  host_sems'[x].value >= 0 /\ host_sems'[x].value + Cardinality(InFlight(x))' = balance'[x]
  <2>1. Cardinality(InFlight(x))' = Cardinality(InFlight(x))
    BY <1>5
  <2>2. QED
    BY <1>1, <1>5, <2>1
<1>6. QED
  BY <1>4, <1>5 DEF SemConservation

-----------------------------------------------------------------------------
(* Calls that change the table of semaphores and no thread *)

LEMMA IdleThreads ==
  ASSUME UNCHANGED threadVars
  PROVE  /\ \A o : InFlight(o)' = InFlight(o)
         /\ \A t \in Thread : /\ SemBlocked(t)' <=> SemBlocked(t)
                              /\ InSemWait(t)' <=> InSemWait(t)
         /\ UNCHANGED <<call, blocked_by>>
  BY DEF threadVars, InFlight, SemBlocked, InSemWait

(* Nobody has drawn a token from an object that was never created. *)
LEMMA NoneInFlight ==
  ASSUME SemInv, NEW o, ~(o < sem_count)
  PROVE  InFlight(o) = {} /\ Cardinality(InFlight(o)) = 0
<1>1. InFlight(o) = {}
  BY DEF InFlight, SemInv, SemDraws, InSemWait
<1>2. QED
  BY <1>1, FS_EmptySet

LEMMA NewObject ==
  ASSUME TypeInv, SemInv, NEW s \in SemPtr, ~Open(s), sem_count < MaxSems, NEW v \in Nat,
         NEW h, h.value = v, h.waiting = {}, h.guest_sem = s,
         host_sems' = [host_sems EXCEPT ![sem_count] = h],
         open_semaphores' = [open_semaphores EXCEPT ![s] = sem_count],
         balance' = [balance EXCEPT ![sem_count] = v],
         sem_count' = sem_count + 1,
         \A n \in SemNames : named_semaphores'[n] < sem_count + 1,
         UNCHANGED threadVars
  PROVE  SemInv' /\ (SemQueues => SemQueues')
<1> DEFINE o == sem_count
<1>1. o \in SemId /\ o \in Nat
  BY SemTypes DEF TypeInv, SemId
<1>2. /\ host_sems'[o] = h /\ \A x \in SemId : x # o => host_sems'[x] = host_sems[x]
      /\ balance'[o] = v /\ \A x \in SemId : x # o => balance'[x] = balance[x]
      /\ open_semaphores'[s] = o /\ \A r \in SemPtr : r # s => open_semaphores'[r] = open_semaphores[r]
  BY <1>1, SemFacts
<1>3. \A r \in SemPtr : (r # s /\ Open(r)) => open_semaphores[r] \in SemId /\ open_semaphores[r] < o
  BY SemFacts
<1> HIDE DEF o
<1>4. SemTable'
  <2>1. ASSUME NEW r \in SemPtr, Open(r)'
        PROVE  open_semaphores'[r] < sem_count' /\ host_sems'[open_semaphores'[r]].guest_sem = r
    <3>1. CASE r = s
      BY <1>1, <1>2, <3>1 DEF o
    <3>2. CASE r # s
      <4>1. Open(r) /\ open_semaphores'[r] = open_semaphores[r]
        BY <1>2, <2>1, <3>2 DEF Open
      <4>2. /\ open_semaphores[r] \in SemId /\ open_semaphores[r] < o
            /\ host_sems[open_semaphores[r]].guest_sem = r /\ open_semaphores[r] \in Int
        BY <1>3, <3>2, <4>1, SemFacts
      <4>3. QED
        BY <1>1, <1>2, <4>1, <4>2 DEF o
    <3>3. QED
      BY <3>1, <3>2
  <2>2. QED
    BY <2>1 DEF SemTable, ObjOf
<1>5. SemDraws'
  <2>1. ASSUME NEW t \in Thread, InSemWait(t)
        PROVE  call[t].aux < sem_count' /\ (SemBlocked(t) => call[t].aux = NoSem)
    <3>1. call[t].aux \in Int /\ call[t].aux < o /\ (SemBlocked(t) => call[t].aux = NoSem)
      BY <2>1 DEF TypeInv, LoopTypes, Call, SemInv, SemDraws, o
    <3>2. QED
      BY <1>1, <3>1 DEF o
  <2>2. QED
    BY <2>1, IdleThreads DEF SemDraws
<1>6. SemConservation'
  <2>1. host_sems[o].value = balance[o] /\ balance[o] \in Int
    <3>1. Cardinality(InFlight(o)) = 0
      BY <1>1, NoneInFlight DEF o
    <3>2. host_sems[o].value \in Nat /\ host_sems[o].value + Cardinality(InFlight(o)) = balance[o]
      BY <1>1, SemFacts
    <3>3. QED
      BY <3>1, <3>2
  <2>2. v - balance[o] \in Int /\ balance[o] + (v - balance[o]) = v
    BY <2>1
  <2>3. /\ host_sems'[o].value = host_sems[o].value + (v - balance[o])
        /\ balance'[o] = balance[o] + (v - balance[o])
        /\ host_sems[o].value + (v - balance[o]) >= 0
    <3>1. host_sems'[o].value = v /\ balance'[o] = v
      BY <1>2, Zenon
    <3>2. /\ host_sems'[o].value = host_sems[o].value + (v - balance[o])
          /\ balance'[o] = balance[o] + (v - balance[o])
      BY <2>1, <2>2, <3>1, Zenon
    <3>3. host_sems[o].value + (v - balance[o]) = v /\ v >= 0
      BY <2>1, <2>2
    <3>4. QED
      BY <3>2, <3>3
  <2>4. \A x \in SemId : x # o => host_sems'[x].value = host_sems[x].value /\ balance'[x] = balance[x]
    BY <1>2
  <2>5. QED
    BY <1>1, <2>2, <2>3, <2>4, IdleThreads, ConserveObject
<1>7. ASSUME SemQueues PROVE SemQueues'
  <2>1. \A t \in Thread : SemBlocked(t) => Open(blocked_by[t].obj) /\ blocked_by[t].obj \in SemPtr
    BY <1>7 DEF SemQueues, TypeInv, SemBlocks, SemBlocked
  <2>2. ASSUME NEW r \in SemPtr, Open(r)'
        PROVE  host_sems'[open_semaphores'[r]].waiting
                 = {t \in Thread : blocked_by[t].kind = "Semaphore" /\ blocked_by[t].obj = r}
    <3>1. CASE r = s
      BY <1>2, <2>1, <3>1 DEF SemBlocked
    <3>2. CASE r # s
      <4>1. Open(r) /\ open_semaphores'[r] = open_semaphores[r]
        BY <1>2, <2>2, <3>2 DEF Open
      <4>2. open_semaphores[r] \in SemId /\ open_semaphores[r] # o
        BY <1>1, <1>3, <3>2, <4>1, SemFacts DEF o
      <4>3. QED
        BY <1>2, <1>7, <4>1, <4>2 DEF SemQueues, SemWaitersExact, ObjOf
    <3>3. QED
      BY <3>1, <3>2
  <2>3. SemWaitersExact'
    BY <2>2, IdleThreads DEF SemWaitersExact, ObjOf
  <2>4. ASSUME NEW t \in Thread, SemBlocked(t) PROVE Open(blocked_by[t].obj)'
    <3>1. blocked_by[t].obj \in SemPtr /\ blocked_by[t].obj # s /\ UNCHANGED blocked_by
      BY <2>1, <2>4, IdleThreads
    <3>2. QED
      BY <1>2, <2>1, <2>4, <3>1 DEF Open
  <2>5. ASSUME NEW x \in SemId, \A r \in SemPtr : open_semaphores'[r] # x
        PROVE  host_sems'[x].waiting = {}
    <3>1. x # o
      BY <1>2, <2>5
    <3>2. \A r \in SemPtr : open_semaphores[r] # x
      BY <1>2, <2>5, SemTypes DEF Open, SemId, NoSem
    <3>3. QED
      BY <1>2, <1>7, <3>1, <3>2 DEF SemQueues
  <2>6. \A t \in Thread : (InSemWait(t)' /\ call'[t].aux = NoSem) => SemBlocked(t)'
    BY <1>7, IdleThreads DEF SemQueues
  <2>7. QED
    BY <2>3, <2>4, <2>5, <2>6, IdleThreads DEF SemQueues
<1>8. QED
  BY <1>4, <1>5, <1>6, <1>7 DEF SemInv

(* sem_destroy and sem_close: the address is forgotten. *)
LEMMA CloseObject ==
  ASSUME TypeInv, SemInv, NEW s \in SemPtr, Open(s),
         open_semaphores' = [open_semaphores EXCEPT ![s] = NoSem],
         \A x \in SemId : /\ host_sems'[x].value = host_sems[x].value
                          /\ host_sems'[x].waiting = host_sems[x].waiting
                          /\ x # open_semaphores[s] => host_sems'[x] = host_sems[x],
         UNCHANGED <<sem_count, named_semaphores, balance, threadVars>>
  PROVE  SemInv' /\ (SemQueues /\ ObjOf(s).waiting = {} => SemQueues')
<1> DEFINE o == open_semaphores[s]
<1>1. /\ open_semaphores'[s] = NoSem
      /\ \A r \in SemPtr : r # s => open_semaphores'[r] = open_semaphores[r]
      /\ o \in SemId
  BY SemFacts
<1>2. ASSUME NEW r \in SemPtr, Open(r)'
      PROVE  /\ r # s /\ Open(r) /\ open_semaphores'[r] = open_semaphores[r]
             /\ open_semaphores[r] \in SemId /\ open_semaphores[r] # o
             /\ open_semaphores[r] < sem_count /\ host_sems[open_semaphores[r]].guest_sem = r
  <2>1. r # s
    BY <1>1, <1>2 DEF Open
  <2>2. Open(r) /\ open_semaphores'[r] = open_semaphores[r]
    BY <1>1, <1>2, <2>1 DEF Open
  <2>3. QED
    BY <2>1, <2>2, SemFacts
<1>3. SemTable'
  BY <1>2 DEF SemTable, SemInv, ObjOf
<1>4. SemDraws'
  BY IdleThreads DEF SemInv, SemDraws
<1>5. SemConservation'
  BY IdleThreads, ConserveNone
<1>6. ASSUME SemQueues, ObjOf(s).waiting = {} PROVE SemQueues'
  <2>1. \A t \in Thread : SemBlocked(t) => Open(blocked_by[t].obj) /\ blocked_by[t].obj \in SemPtr
    BY <1>6 DEF SemQueues, TypeInv, SemBlocks, SemBlocked
  <2>2. \A t \in Thread : SemBlocked(t) => blocked_by[t].obj # s
    BY <1>6 DEF SemQueues, SemWaitersExact, SemBlocked
  <2>3. ASSUME NEW r \in SemPtr, Open(r)'
        PROVE  host_sems'[open_semaphores'[r]].waiting
                 = {t \in Thread : blocked_by[t].kind = "Semaphore" /\ blocked_by[t].obj = r}
    BY <1>2, <1>6, <2>3 DEF SemQueues, SemWaitersExact, ObjOf
  <2>4. SemWaitersExact'
    BY <2>3, IdleThreads DEF SemWaitersExact, ObjOf
  <2>5. ASSUME NEW t \in Thread, SemBlocked(t) PROVE Open(blocked_by[t].obj)'
    <3>1. blocked_by[t].obj \in SemPtr /\ blocked_by[t].obj # s /\ UNCHANGED blocked_by
      BY <2>1, <2>2, <2>5, IdleThreads
    <3>2. QED
      BY <1>1, <2>1, <2>5, <3>1 DEF Open
  <2>6. ASSUME NEW x \in SemId, \A r \in SemPtr : open_semaphores'[r] # x
        PROVE  host_sems'[x].waiting = {}
    <3>1. CASE x = o
      BY <1>6, <3>1 DEF ObjOf
    <3>2. CASE x # o
      BY <1>1, <1>6, <2>6, <3>2 DEF SemQueues
    <3>3. QED
      BY <3>1, <3>2
  <2>7. \A t \in Thread : (InSemWait(t)' /\ call'[t].aux = NoSem) => SemBlocked(t)'
    BY <1>6, IdleThreads DEF SemQueues
  <2>8. QED
    BY <2>4, <2>5, <2>6, <2>7, IdleThreads DEF SemQueues
<1>7. QED
  BY <1>3, <1>4, <1>5, <1>6 DEF SemInv

(* sem_open of a name whose descriptor was closed. *)
LEMMA ReopenObject ==
  ASSUME TypeInv, SemInv, NEW s \in SemPtr, ~Open(s), NEW o \in SemId, o < sem_count,
         host_sems[o].guest_sem = NoPtr,
         open_semaphores' = [open_semaphores EXCEPT ![s] = o],
         host_sems' = [host_sems EXCEPT ![o] = [host_sems[o] EXCEPT !.guest_sem = s]],
         UNCHANGED <<sem_count, named_semaphores, balance, threadVars>>
  PROVE  SemInv' /\ (SemQueues => SemQueues')
<1>1. /\ open_semaphores'[s] = o
      /\ \A r \in SemPtr : r # s => open_semaphores'[r] = open_semaphores[r]
  BY SemFacts
<1>2. /\ host_sems'[o].value = host_sems[o].value /\ host_sems'[o].waiting = host_sems[o].waiting
      /\ host_sems'[o].guest_sem = s
      /\ \A x \in SemId : x # o => host_sems'[x] = host_sems[x]
  BY SemFacts DEF HostSem
<1>3. \A r \in SemPtr : open_semaphores[r] # o
  BY SemFacts DEF Open, NoSem, SemId
<1>4. ASSUME NEW r \in SemPtr, Open(r)', r # s
      PROVE  /\ Open(r) /\ open_semaphores'[r] = open_semaphores[r]
             /\ open_semaphores[r] \in SemId /\ open_semaphores[r] # o
             /\ open_semaphores[r] < sem_count /\ host_sems[open_semaphores[r]].guest_sem = r
  <2>1. Open(r) /\ open_semaphores'[r] = open_semaphores[r]
    BY <1>1, <1>4 DEF Open
  <2>2. QED
    BY <1>3, <2>1, SemFacts
<1>5. SemTable'
  <2>1. ASSUME NEW r \in SemPtr, Open(r)'
        PROVE  open_semaphores'[r] < sem_count' /\ host_sems'[open_semaphores'[r]].guest_sem = r
    <3>1. CASE r = s
      BY <1>1, <1>2, <3>1
    <3>2. CASE r # s
      BY <1>2, <1>4, <2>1, <3>2
    <3>3. QED
      BY <3>1, <3>2
  <2>2. QED
    BY <2>1 DEF SemTable, SemInv, ObjOf
<1>6. SemDraws'
  BY IdleThreads DEF SemInv, SemDraws
<1>7. SemConservation'
  <2>1. \A x \in SemId : host_sems'[x].value = host_sems[x].value
    BY <1>2
  <2>2. QED
    BY <2>1, IdleThreads, ConserveNone
<1>8. ASSUME SemQueues PROVE SemQueues'
  <2>1. \A t \in Thread : SemBlocked(t) => Open(blocked_by[t].obj) /\ blocked_by[t].obj \in SemPtr
    BY <1>8 DEF SemQueues, TypeInv, SemBlocks, SemBlocked
  <2>2. host_sems[o].waiting = {}
    BY <1>3, <1>8 DEF SemQueues
  <2>3. ASSUME NEW r \in SemPtr, Open(r)'
        PROVE  host_sems'[open_semaphores'[r]].waiting
                 = {t \in Thread : blocked_by[t].kind = "Semaphore" /\ blocked_by[t].obj = r}
    <3>1. CASE r = s
      BY <1>1, <1>2, <2>1, <2>2, <3>1 DEF SemBlocked
    <3>2. CASE r # s
      BY <1>2, <1>4, <1>8, <2>3, <3>2 DEF SemQueues, SemWaitersExact, ObjOf
    <3>3. QED
      BY <3>1, <3>2
  <2>4. SemWaitersExact'
    BY <2>3, IdleThreads DEF SemWaitersExact, ObjOf
  <2>5. ASSUME NEW t \in Thread, SemBlocked(t) PROVE Open(blocked_by[t].obj)'
    <3>1. blocked_by[t].obj \in SemPtr /\ blocked_by[t].obj # s /\ UNCHANGED blocked_by
      BY <2>1, <2>5, IdleThreads
    <3>2. QED
      BY <1>1, <2>1, <2>5, <3>1 DEF Open
  <2>6. ASSUME NEW x \in SemId, \A r \in SemPtr : open_semaphores'[r] # x
        PROVE  host_sems'[x].waiting = {}
    <3>1. x # o
      BY <1>1, <2>6
    <3>2. \A r \in SemPtr : open_semaphores[r] # x
      BY <1>1, <2>6, <3>1, SemTypes DEF Open, SemId, NoSem
    <3>3. QED
      BY <1>2, <1>8, <3>1, <3>2 DEF SemQueues
  <2>7. \A t \in Thread : (InSemWait(t)' /\ call'[t].aux = NoSem) => SemBlocked(t)'
    BY <1>8, IdleThreads DEF SemQueues
  <2>8. QED
    BY <2>4, <2>5, <2>6, <2>7, IdleThreads DEF SemQueues
<1>9. QED
  BY <1>5, <1>6, <1>7, <1>8 DEF SemInv

(* sem_post, and a wait that need not block. *)
LEMMA ChangeValue ==
  ASSUME TypeInv, SemInv, NEW s \in SemPtr, Open(s), NEW d \in {-1, 1}, ObjOf(s).value + d >= 0,
         host_sems' = [host_sems EXCEPT ![open_semaphores[s]] =
                         [host_sems[open_semaphores[s]] EXCEPT !.value = ObjOf(s).value + d]],
         balance' = [balance EXCEPT ![open_semaphores[s]] = balance[open_semaphores[s]] + d],
         UNCHANGED <<sem_count, open_semaphores, named_semaphores, threadVars>>
  PROVE  SemInv' /\ (SemQueues => SemQueues')
<1> DEFINE o == open_semaphores[s]
<1>1. /\ o \in SemId /\ host_sems[o] \in HostSem /\ d \in Int
      /\ DOMAIN host_sems = SemId /\ DOMAIN balance = SemId
  BY SemFacts
<1>2. /\ host_sems'[o].value = host_sems[o].value + d
      /\ \A x \in SemId : /\ host_sems'[x].waiting = host_sems[x].waiting
                          /\ host_sems'[x].guest_sem = host_sems[x].guest_sem
                          /\ x # o => host_sems'[x].value = host_sems[x].value
  BY <1>1 DEF HostSem, ObjOf
<1>3. balance'[o] = balance[o] + d /\ \A x \in SemId : x # o => balance'[x] = balance[x]
  BY <1>1
<1>4. SemTable'
  <2>1. \A r \in SemPtr : Open(r) => open_semaphores[r] \in SemId
    BY SemFacts
  <2>2. QED
    BY <1>2, <2>1 DEF SemTable, SemInv, ObjOf, Open
<1>5. SemDraws'
  BY IdleThreads DEF SemInv, SemDraws
<1>6. SemConservation'
  BY <1>1, <1>2, <1>3, IdleThreads, ConserveObject DEF ObjOf
<1>7. ASSUME SemQueues PROVE SemQueues'
  <2>1. \A r \in SemPtr : Open(r) => open_semaphores[r] \in SemId
    BY SemFacts
  <2>2. ASSUME NEW r \in SemPtr, Open(r)'
        PROVE  host_sems'[open_semaphores'[r]].waiting
                 = {t \in Thread : blocked_by[t].kind = "Semaphore" /\ blocked_by[t].obj = r}
    BY <1>2, <1>7, <2>1, <2>2 DEF SemQueues, SemWaitersExact, ObjOf, Open
  <2>3. SemWaitersExact'
    BY <2>2, IdleThreads DEF SemWaitersExact, ObjOf
  <2>4. \A t \in Thread : SemBlocked(t)' => Open(blocked_by[t].obj)'
    BY <1>7, IdleThreads DEF SemQueues, Open
  <2>5. \A x \in SemId : (\A r \in SemPtr : open_semaphores'[r] # x) => host_sems'[x].waiting = {}
    BY <1>2, <1>7 DEF SemQueues
  <2>6. \A t \in Thread : (InSemWait(t)' /\ call'[t].aux = NoSem) => SemBlocked(t)'
    BY <1>7, IdleThreads DEF SemQueues
  <2>7. QED
    BY <2>3, <2>4, <2>5, <2>6 DEF SemQueues
<1>8. QED
  BY <1>4, <1>5, <1>6, <1>7 DEF SemInv

-----------------------------------------------------------------------------
(* Steps in which a thread blocks, gets its token or returns *)

LEMMA BlockOnSem ==
  ASSUME TypeInv, RunInv, SemInv, NEW s \in SemPtr, Open(s), Calls("sem_wait"),
         host_sems' = [host_sems EXCEPT ![open_semaphores[s]] =
                         [host_sems[open_semaphores[s]] EXCEPT
                            !.waiting = host_sems[open_semaphores[s]].waiting \cup {current}]],
         Yield(Blk("Semaphore", s, FALSE), Cl("sem_wait", s, NoSem)),
         UNCHANGED <<sem_count, open_semaphores, named_semaphores, balance>>
  PROVE  SemInv' /\ (SemQueues => SemQueues')
<1> DEFINE o == open_semaphores[s]
<1>1. /\ o \in SemId /\ host_sems[o] \in HostSem /\ o < sem_count
      /\ DOMAIN host_sems = SemId /\ sem_count \in Nat
  BY SemFacts
<1>2. /\ host_sems'[o].waiting = host_sems[o].waiting \cup {current}
      /\ \A x \in SemId : /\ host_sems'[x].value = host_sems[x].value
                          /\ host_sems'[x].guest_sem = host_sems[x].guest_sem
                          /\ x # o => host_sems'[x].waiting = host_sems[x].waiting
  BY <1>1 DEF HostSem
<1>3. /\ current \in Thread /\ DOMAIN blocked_by = Thread /\ DOMAIN call = Thread
      /\ ~SemBlocked(current) /\ ~InSemWait(current)
  BY DEF RunInv, TableOK, RunsOnlyRunnable, Blocked, SemBlocked, InSemWait, TypeInv, LoopTypes, Calls
<1>4. /\ blocked_by'[current].kind = "Semaphore" /\ blocked_by'[current].obj = s
      /\ call'[current].fn = "sem_wait" /\ call'[current].aux = NoSem
      /\ \A t \in Thread : t # current => blocked_by'[t] = blocked_by[t] /\ call'[t] = call[t]
  BY <1>3 DEF Yield, Blk, Cl
<1>5. SemTable'
  <2>1. \A r \in SemPtr : Open(r) => open_semaphores[r] \in SemId
    BY SemFacts
  <2>2. QED
    BY <1>2, <2>1 DEF SemTable, SemInv, ObjOf, Open
<1>6. SemDraws'
  <2>1. NoSem < sem_count
    BY <1>1 DEF NoSem
  <2>2. QED
    BY <1>4, <2>1 DEF SemInv, SemDraws, InSemWait, SemBlocked
<1>7. SemConservation'
  <2>1. \A x \in SemId : x # NoSem
    BY DEF SemId, NoSem
  <2>2. \A x \in SemId : InFlight(x)' = InFlight(x)
    BY <1>3, <1>4, <2>1 DEF InFlight, InSemWait
  <2>3. QED
    BY <1>2, <2>2, ConserveNone
<1>8. ASSUME SemQueues PROVE SemQueues'
  <2>1. \A r \in SemPtr : Open(r) => /\ open_semaphores[r] \in SemId
                                     /\ open_semaphores[r] = o => r = s
    BY SemFacts
  <2>2. ASSUME NEW r \in SemPtr, Open(r)
        PROVE  host_sems'[open_semaphores[r]].waiting
                 = {t \in Thread : blocked_by'[t].kind = "Semaphore" /\ blocked_by'[t].obj = r}
    <3> DEFINE W(x) == {t \in Thread : blocked_by[t].kind = "Semaphore" /\ blocked_by[t].obj = x}
               V(x) == {t \in Thread : blocked_by'[t].kind = "Semaphore" /\ blocked_by'[t].obj = x}
    <3>1. host_sems[open_semaphores[r]].waiting = W(r)
      BY <1>8, <2>2 DEF SemQueues, SemWaitersExact, ObjOf
    <3>2. CASE r = s
      <4>1. V(s) = W(s) \cup {current}
        BY <1>3, <1>4
      <4>2. QED
        BY <1>2, <3>1, <3>2, <4>1
    <3>3. CASE r # s
      <4>1. V(r) = W(r)
        BY <1>3, <1>4, <3>3 DEF SemBlocked
      <4>2. open_semaphores[r] \in SemId /\ open_semaphores[r] # o
        BY <2>1, <2>2, <3>3
      <4>3. QED
        BY <1>2, <3>1, <4>1, <4>2
    <3>4. QED
      BY <3>2, <3>3
  <2>3. SemWaitersExact'
    BY <2>2 DEF SemWaitersExact, ObjOf, Open
  <2>4. \A t \in Thread : SemBlocked(t)' => Open(blocked_by[t].obj)'
    BY <1>4, <1>8 DEF SemQueues, Open, SemBlocked
  <2>5. ASSUME NEW x \in SemId, \A r \in SemPtr : open_semaphores'[r] # x
        PROVE  host_sems'[x].waiting = {}
    BY <1>2, <1>8, <2>5 DEF SemQueues
  <2>6. \A t \in Thread : (InSemWait(t)' /\ call'[t].aux = NoSem) => SemBlocked(t)'
    BY <1>4, <1>8 DEF SemQueues, InSemWait, SemBlocked
  <2>7. QED
    BY <2>3, <2>4, <2>5, <2>6 DEF SemQueues
<1>9. QED
  BY <1>5, <1>6, <1>7, <1>8 DEF SemInv

(* The scheduler draws a token for t. *)
LEMMA DrawToken ==
  ASSUME TypeInv, RunInv, LockInv, SemInv, NEW t \in Thread, SchedSemaphore(t)
  PROVE  SemInv' /\ (SemQueues => SemQueues')
<1> DEFINE s == blocked_by[t].obj
           o == open_semaphores[s]
<1>1. s \in SemPtr /\ Open(s) /\ SemBlocked(t) /\ InSemWait(t)
  BY DEF SchedSemaphore, TypeInv, SemBlocks, SemBlocked, InSemWait, LockInv, MutexInv, Links, Link
<1>2. /\ o \in SemId /\ host_sems[o] \in HostSem /\ o < sem_count /\ host_sems[o].value \in Nat
      /\ DOMAIN host_sems = SemId /\ o \in Int /\ balance[o] \in Int
      /\ \A r \in SemPtr : Open(r) => /\ open_semaphores[r] \in SemId
                                      /\ open_semaphores[r] = o => r = s
  BY <1>1, SemFacts
<1>3. /\ host_sems[o].value > 0
      /\ host_sems' = [host_sems EXCEPT ![o].value = @ - 1, ![o].waiting = @ \ {t}]
      /\ call' = [call EXCEPT ![t].aux = o]
      /\ Wake(t)
      /\ UNCHANGED <<sem_count, open_semaphores, named_semaphores, balance>>
  BY DEF SchedSemaphore
<1>4. /\ host_sems'[o].value = host_sems[o].value - 1
      /\ host_sems'[o].waiting = host_sems[o].waiting \ {t}
      /\ host_sems'[o].guest_sem = host_sems[o].guest_sem
      /\ \A x \in SemId : x # o => host_sems'[x] = host_sems[x]
  BY <1>2, <1>3 DEF HostSem
<1>5. call \in [Thread -> Call] /\ DOMAIN blocked_by = Thread
  BY DEF TypeInv, LoopTypes, RunInv, TableOK
<1>6. /\ ~SemBlocked(t)' /\ call'[t].fn = "sem_wait" /\ call'[t].aux = o
      /\ \A u \in Thread : u # t => blocked_by'[u] = blocked_by[u] /\ call'[u] = call[u]
  BY <1>1, <1>3, <1>5 DEF Wake, NotBlocked, Blk, SemBlocked, InSemWait, Call
<1> HIDE DEF s, o
<1>7. SemTable'
  BY <1>2, <1>3, <1>4 DEF SemTable, SemInv, ObjOf, Open
<1>8. SemDraws'
  BY <1>2, <1>3, <1>6 DEF SemInv, SemDraws, InSemWait, SemBlocked
<1>9. SemConservation'
  <2>1. call[t].aux = NoSem /\ \A x \in SemId : x # NoSem
    BY <1>1 DEF SemInv, SemDraws, SemId, NoSem
  <2>2. PICK k \in SemId : k = o
    BY <1>2
  <2>3. /\ host_sems[k].value > 0 /\ host_sems'[k].value = host_sems[k].value - 1
        /\ call'[t].aux = k /\ balance[k] \in Int /\ balance'[k] = balance[k]
        /\ \A x \in SemId : x # k => host_sems'[x].value = host_sems[x].value /\ balance'[x] = balance[x]
    BY <1>2, <1>3, <1>4, <1>6, <2>2
  <2>4. t \notin InFlight(k) /\ InFlight(k)' = InFlight(k) \cup {t}
    BY <1>6, <2>1, <2>3 DEF InFlight
  <2>5. \A x \in SemId : x # k => InFlight(x)' = InFlight(x)
    BY <1>6, <2>1, <2>3 DEF InFlight
  <2>6. balance'[k] = balance[k] - (1 - 1) /\ 1 \in {0, 1}
    BY <2>3
  <2>7. QED
    BY <2>3, <2>4, <2>5, <2>6, ConserveHanded
<1>10. ASSUME SemQueues PROVE SemQueues'
  <2>1. ASSUME NEW r \in SemPtr, Open(r)
        PROVE  host_sems'[open_semaphores[r]].waiting
                 = {u \in Thread : blocked_by'[u].kind = "Semaphore" /\ blocked_by'[u].obj = r}
    <3> DEFINE W(x) == {u \in Thread : blocked_by[u].kind = "Semaphore" /\ blocked_by[u].obj = x}
               V(x) == {u \in Thread : blocked_by'[u].kind = "Semaphore" /\ blocked_by'[u].obj = x}
    <3>1. host_sems[open_semaphores[r]].waiting = W(r)
      BY <1>10, <2>1 DEF SemQueues, SemWaitersExact, ObjOf
    <3>2. CASE r = s
      <4>1. V(s) = W(s) \ {t}
        BY <1>6 DEF SemBlocked
      <4>2. QED
        BY <1>4, <3>1, <3>2, <4>1 DEF o
    <3>3. CASE r # s
      <4>1. V(r) = W(r)
        BY <1>6, <3>3 DEF SemBlocked, s
      <4>2. open_semaphores[r] \in SemId /\ open_semaphores[r] # o
        BY <1>2, <2>1, <3>3
      <4>3. QED
        BY <1>4, <3>1, <4>1, <4>2
    <3>4. QED
      BY <3>2, <3>3
  <2>2. SemWaitersExact'
    BY <1>3, <2>1 DEF SemWaitersExact, ObjOf, Open
  <2>3. \A u \in Thread : SemBlocked(u)' => Open(blocked_by[u].obj)'
    BY <1>3, <1>6, <1>10 DEF SemQueues, Open, SemBlocked
  <2>4. ASSUME NEW x \in SemId, \A r \in SemPtr : open_semaphores'[r] # x
        PROVE  host_sems'[x].waiting = {}
    BY <1>1, <1>3, <1>4, <1>10, <2>4 DEF SemQueues, o
  <2>5. \A u \in Thread : (InSemWait(u)' /\ call'[u].aux = NoSem) => SemBlocked(u)'
    BY <1>2, <1>6, <1>10 DEF SemQueues, InSemWait, SemBlocked, SemId, NoSem
  <2>6. QED
    BY <2>2, <2>3, <2>4, <2>5 DEF SemQueues
<1>11. QED
  BY <1>7, <1>8, <1>9, <1>10 DEF SemInv

(* A waiter is let go because its semaphore was destroyed or closed; a      *)
(* careful guest has no such waiter.                                       *)
LEMMA LetGo ==
  ASSUME TypeInv, RunInv, SemInv, NEW t \in Thread, SchedSemaphoreGone(t)
  PROVE  SemInv' /\ ~SemQueues
<1>1. /\ Wake(t) /\ UNCHANGED <<call, host_sems, sem_count, open_semaphores, named_semaphores, balance>>
      /\ DOMAIN blocked_by = Thread /\ SemBlocked(t) /\ ~Open(blocked_by[t].obj)
  BY DEF SchedSemaphoreGone, syncVars, semVars, RunInv, TableOK, SemBlocked
<1>2. \A u \in Thread : SemBlocked(u)' => SemBlocked(u)
  BY <1>1 DEF Wake, NotBlocked, Blk, SemBlocked
<1>3. SemTable'
  BY <1>1 DEF SemInv, SemTable, Open, ObjOf
<1>4. SemDraws'
  BY <1>1, <1>2 DEF SemInv, SemDraws, InSemWait
<1>5. SemConservation'
  <2>1. \A x \in SemId : InFlight(x)' = InFlight(x)
    BY <1>1 DEF InFlight
  <2>2. QED
    BY <1>1, <2>1, ConserveNone
<1>6. QED
  BY <1>1, <1>3, <1>4, <1>5 DEF SemInv, SemQueues

LEMMA ReturnToken ==
  ASSUME TypeInv, RunInv, SemInv, ReturnFromSemWait
  PROVE  SemInv' /\ (SemQueues => SemQueues')
<1> DEFINE o == call[current].aux
<1>1. /\ current \in Thread /\ call \in [Thread -> Call] /\ ~SemBlocked(current)
      /\ InSemWait(current)
  BY DEF RunInv, TableOK, TypeInv, LoopTypes, ReturnFromSemWait, RunsOnlyRunnable, Blocked,
         SemBlocked, InSemWait
<1>2. /\ UNCHANGED <<host_sems, sem_count, open_semaphores, named_semaphores, blocked_by>>
      /\ balance' = IF o = NoSem THEN balance ELSE [balance EXCEPT ![o] = @ - 1]
  BY DEF ReturnFromSemWait, Return
<1>3. call'[current].fn = "none" /\ \A t \in Thread : t # current => call'[t] = call[t]
  BY <1>1 DEF ReturnFromSemWait, Return, NoCall, Cl
<1>4. SemTable'
  BY <1>2 DEF SemInv, SemTable, Open, ObjOf
<1>5. SemDraws'
  BY <1>2, <1>3 DEF SemInv, SemDraws, InSemWait, SemBlocked
<1>6. SemConservation'
  <2>1. DOMAIN balance = SemId
    BY SemFacts
  <2>2. CASE o \notin SemId
    <3>1. balance' = balance
      BY <1>2, <2>1, <2>2, SemTypes DEF TypeInv
    <3>2. \A x \in SemId : InFlight(x)' = InFlight(x)
      BY <1>3, <2>2 DEF InFlight
    <3>3. QED
      BY <1>2, <3>1, <3>2, ConserveNone
  <2>3. CASE o \in SemId
    <3>1. PICK k \in SemId : k = o
      BY <2>3
    <3>2. /\ balance' = [balance EXCEPT ![k] = @ - 1] /\ balance[k] \in Int
          /\ host_sems[k].value \in Nat
      BY <1>2, <3>1, SemFacts DEF SemId, NoSem
    <3>3. balance'[k] = balance[k] - (1 - 0) /\ host_sems'[k].value = host_sems[k].value - 0
      BY <1>2, <2>1, <3>2
    <3>4. \A x \in SemId : x # k => host_sems'[x].value = host_sems[x].value /\ balance'[x] = balance[x]
      BY <1>2, <2>1, <3>2
    <3>5. current \in InFlight(k) /\ InFlight(k)' = InFlight(k) \ {current}
      BY <1>1, <1>3, <3>1 DEF InFlight, InSemWait
    <3>6. \A x \in SemId : x # k => InFlight(x)' = InFlight(x)
      BY <1>3, <3>1 DEF InFlight
    <3>7. PICK t \in Thread : t = current
      BY <1>1
    <3>8. 0 \in {0, 1} /\ t \in InFlight(k) /\ InFlight(k)' = InFlight(k) \ {t}
      BY <3>5, <3>7
    <3>9. QED
      BY <3>3, <3>4, <3>6, <3>8, ConserveHanded
  <2>4. QED
    BY <2>2, <2>3
<1>7. ASSUME SemQueues PROVE SemQueues'
  <2>1. SemWaitersExact'
    BY <1>2, <1>7 DEF SemQueues, SemWaitersExact, Open, ObjOf
  <2>2. \A t \in Thread : SemBlocked(t)' => Open(blocked_by[t].obj)'
    BY <1>2, <1>7 DEF SemQueues, Open, SemBlocked
  <2>3. \A x \in SemId : (\A r \in SemPtr : open_semaphores'[r] # x) => host_sems'[x].waiting = {}
    BY <1>2, <1>7 DEF SemQueues
  <2>4. \A t \in Thread : (InSemWait(t)' /\ call'[t].aux = NoSem) => SemBlocked(t)'
    BY <1>2, <1>3, <1>7 DEF SemQueues, InSemWait, SemBlocked
  <2>5. QED
    BY <2>1, <2>2, <2>3, <2>4 DEF SemQueues
<1>8. QED
  BY <1>4, <1>5, <1>6, <1>7 DEF SemInv

-----------------------------------------------------------------------------
LEMMA SemPreserved ==
  ASSUME RunInv, LockInv, TypeInv, SemInv, [Next]_vars
  PROVE  SemInv' /\ (CarefulWithSems /\ SemQueues => SemQueues')
<1> DEFINE Kept == SemInv' /\ (CarefulWithSems /\ SemQueues => SemQueues')
<1>1. CASE ~SemStep
  BY <1>1, ApartNext, SemInvApart, SemQueuesApart
<1>2. ASSUME NEW t \in Thread, SchedSemaphore(t) \/ SchedSemaphoreGone(t) PROVE Kept
  BY <1>2, DrawToken, LetGo
<1>3. CASE SemNext
  <2>1. ASSUME NEW s \in GuestSems, NEW v \in 0 .. MaxValue, sem_init(s, v) PROVE Kept
    <3>1. s \in SemPtr /\ v \in Nat /\ sem_count \in Nat
      BY SemTypes DEF SemPtr, TypeInv
    <3>2. \A n \in SemNames : named_semaphores'[n] < sem_count + 1
      <4>1. \A n \in SemNames : named_semaphores[n] \in Int /\ named_semaphores[n] < sem_count
        BY SemTypes DEF TypeInv, SemInv, SemTable
      <4>2. QED
        BY <2>1, <3>1, <4>1 DEF sem_init
    <3>3. LET h == NewSem(v, s, FALSE) IN h.value = v /\ h.waiting = {} /\ h.guest_sem = s
      BY DEF NewSem
    <3>4. QED
      BY <2>1, <3>1, <3>2, <3>3, NewObject DEF sem_init
  <2>2. ASSUME NEW s \in GuestSems, sem_destroy(s) PROVE Kept
    <3>1. s \in SemPtr /\ (CarefulWithSems => ObjOf(s).waiting = {})
      BY <2>2 DEF SemPtr, sem_destroy, CarefulWithSems
    <3>2. QED
      BY <2>2, <3>1, CloseObject DEF sem_destroy
  <2>3. ASSUME NEW n \in SemNames, NEW s \in HeapSems, NEW v \in 0 .. MaxValue, sem_open_new(n, s, v)
        PROVE  Kept
    <3>1. s \in SemPtr /\ v \in Nat /\ sem_count \in Nat
      BY SemTypes DEF SemPtr, TypeInv
    <3>2. \A m \in SemNames : named_semaphores'[m] < sem_count + 1
      <4>1. \A m \in SemNames : named_semaphores[m] \in Int /\ named_semaphores[m] < sem_count
        BY SemTypes DEF TypeInv, SemInv, SemTable
      <4>2. DOMAIN named_semaphores = SemNames
        BY SemFacts
      <4>3. QED
        BY <2>3, <3>1, <4>1, <4>2 DEF sem_open_new
    <3> DEFINE h == [NewSem(v, NoPtr, TRUE) EXCEPT !.guest_sem = s]
    <3>3. h.value = v /\ h.waiting = {} /\ h.guest_sem = s
      BY DEF NewSem
    <3>4. /\ ~Open(s) /\ sem_count < MaxSems
          /\ host_sems' = [host_sems EXCEPT ![sem_count] = h]
          /\ open_semaphores' = [open_semaphores EXCEPT ![s] = sem_count]
          /\ balance' = [balance EXCEPT ![sem_count] = v]
          /\ sem_count' = sem_count + 1
          /\ UNCHANGED threadVars
      BY <2>3, Zenon DEF sem_open_new, OpenAt
    <3> HIDE DEF h
    <3>5. QED
      BY <3>1, <3>2, <3>3, <3>4, NewObject
  <2>4. ASSUME NEW n \in SemNames, NEW s \in HeapSems, sem_open_existing(n, s) PROVE Kept
    <3>1. s \in SemPtr
      BY DEF SemPtr
    <3>2. PICK o \in SemId : o = named_semaphores[n]
      BY <2>4, SemTypes DEF sem_open_existing, TypeInv
    <3>3. o < sem_count
      BY <3>2 DEF SemInv, SemTable
    <3>4. QED
      BY <2>4, <3>1, <3>2, <3>3, ReopenObject DEF sem_open_existing, OpenAt
  <2>5. ASSUME NEW s \in SemPtr, Open(s), Decrement(s) PROVE Kept
    <3>1. open_semaphores[s] \in SemId /\ ObjOf(s).value \in Nat /\ balance[open_semaphores[s]] \in Int
      BY <2>5, SemFacts DEF ObjOf
    <3>2. ObjOf(s).value + (-1) = ObjOf(s).value - 1 /\ ObjOf(s).value + (-1) >= 0
      BY <2>5, <3>1 DEF Decrement
    <3>3. balance[open_semaphores[s]] + (-1) = balance[open_semaphores[s]] - 1
      BY <3>1
    <3>4. /\ host_sems' = [host_sems EXCEPT ![open_semaphores[s]] =
                             [host_sems[open_semaphores[s]] EXCEPT !.value = ObjOf(s).value + (-1)]]
          /\ balance' = [balance EXCEPT ![open_semaphores[s]] = balance[open_semaphores[s]] + (-1)]
      BY <2>5, <3>2, <3>3 DEF Decrement, ObjOf
    <3>5. -1 \in {-1, 1}
      OBVIOUS
    <3>6. QED
      BY <2>5, <3>2, <3>4, <3>5, ChangeValue DEF Decrement
  <2>6. ASSUME NEW s \in SemPtr, sem_post(s) PROVE Kept
    <3>1. Open(s) /\ ObjOf(s).value \in Nat
      BY <2>6, SemFacts DEF sem_post, ObjOf
    <3>2. ObjOf(s).value + 1 >= 0 /\ 1 \in {-1, 1}
      BY <3>1
    <3>3. /\ host_sems' = [host_sems EXCEPT ![open_semaphores[s]] =
                             [host_sems[open_semaphores[s]] EXCEPT !.value = ObjOf(s).value + 1]]
          /\ balance' = [balance EXCEPT ![open_semaphores[s]] = balance[open_semaphores[s]] + 1]
      BY <2>6 DEF sem_post, ObjOf
    <3>4. QED
      BY <2>6, <3>1, <3>2, <3>3, ChangeValue DEF sem_post
  <2>7. ASSUME NEW s \in SemPtr, sem_wait(s) PROVE Kept
    <3>1. CASE Decrement(s)
      BY <2>5, <2>7, <3>1 DEF sem_wait
    <3>2. CASE ~Decrement(s)
      <4>1. host_sems' = [host_sems EXCEPT ![open_semaphores[s]] =
                            [host_sems[open_semaphores[s]] EXCEPT
                               !.waiting = host_sems[open_semaphores[s]].waiting \cup {current}]]
        BY <2>7, <3>2 DEF sem_wait
      <4>2. QED
        BY <2>7, <3>2, <4>1, BlockOnSem DEF sem_wait
    <3>3. QED
      BY <3>1, <3>2
  <2>8. ASSUME NEW s \in SemPtr, sem_trywait(s) PROVE Kept
    BY <2>5, <2>8 DEF sem_trywait
  <2>9. ASSUME NEW s \in SemPtr, sem_close(s) PROVE Kept
    <3>1. Open(s) /\ (CarefulWithSems => ObjOf(s).waiting = {})
      BY <2>9 DEF sem_close, CarefulWithSems
    <3>2. /\ open_semaphores[s] \in SemId /\ DOMAIN host_sems = SemId
          /\ \A x \in SemId : host_sems[x] \in HostSem
      BY <3>1, SemFacts
    <3>3. \A x \in SemId : /\ host_sems'[x].value = host_sems[x].value
                           /\ host_sems'[x].waiting = host_sems[x].waiting
                           /\ x # open_semaphores[s] => host_sems'[x] = host_sems[x]
      BY <2>9, <3>2 DEF sem_close, HostSem
    <3>4. QED
      BY <2>9, <3>1, <3>3, CloseObject DEF sem_close
  <2>10. ASSUME NEW n \in SemNames, sem_unlink(n) PROVE Kept
    <3>1. /\ UNCHANGED <<host_sems, sem_count, open_semaphores, balance, threadVars>>
          /\ named_semaphores' = [named_semaphores EXCEPT ![n] = NoSem]
      BY <2>10 DEF sem_unlink
    <3>2. \A m \in SemNames : named_semaphores'[m] < sem_count
      <4>1. NoSem < sem_count /\ DOMAIN named_semaphores = SemNames
        BY SemFacts DEF NoSem
      <4>2. QED
        BY <3>1, <4>1 DEF SemInv, SemTable
    <3>3. SemTable'
      BY <3>1, <3>2 DEF SemInv, SemTable, Open, ObjOf
    <3>4. SemDraws'
      BY <3>1, IdleThreads DEF SemInv, SemDraws
    <3>5. SemConservation'
      BY <3>1, IdleThreads, ConserveNone
    <3>6. SemQueues => SemQueues'
      BY <3>1, IdleThreads DEF SemQueues, SemWaitersExact, Open, ObjOf
    <3>7. QED
      BY <3>3, <3>4, <3>5, <3>6 DEF SemInv
  <2>11. CASE ReturnFromSemWait
    BY <2>11, ReturnToken
  <2>12. QED
    BY <1>3, <2>1, <2>2, <2>3, <2>4, <2>6, <2>7, <2>8, <2>9, <2>10, <2>11 DEF SemNext
<1>4. QED
  BY <1>1, <1>2, <1>3 DEF SemStep

LEMMA SemInvInit == Init => SemInv /\ SemQueues
<1> SUFFICES ASSUME Init PROVE SemInv /\ SemQueues
  OBVIOUS
<1>1. /\ host_sems = [o \in SemId |-> NewSem(0, NoPtr, FALSE)] /\ sem_count = 0
      /\ open_semaphores = [s \in SemPtr |-> NoSem]
      /\ named_semaphores = [n \in SemNames |-> NoSem]
      /\ balance = [o \in SemId |-> 0]
  BY DEF Init, SemInit
<1>2. \A t \in Thread : ~SemBlocked(t) /\ ~InSemWait(t)
  BY DEF Init, ThreadInit, NotBlocked, Blk, NoCall, Cl, SemBlocked, InSemWait
<1>3. SemTable
  BY <1>1 DEF SemTable, Open, NoSem
<1>4. SemDraws
  BY <1>2 DEF SemDraws
<1>5. \A o \in SemId : host_sems[o].value = 0 /\ host_sems[o].waiting = {} /\ balance[o] = 0
  BY <1>1 DEF NewSem
<1>6. SemConservation
  <2>1. \A o \in SemId : InFlight(o) = {}
    BY <1>2 DEF InFlight, InSemWait
  <2>2. \A o \in SemId : Cardinality(InFlight(o)) = 0
    BY <2>1, FS_EmptySet
  <2>3. QED
    BY <1>5, <2>2 DEF SemConservation
<1>7. SemQueues
  BY <1>1, <1>2, <1>5 DEF SemQueues, SemWaitersExact, Open
<1>8. QED
  BY <1>3, <1>4, <1>6, <1>7 DEF SemInv

LEMMA LoopInvAlways == Spec => [](RunInv /\ LockInv /\ TypeInv)
<1>1. Spec => []RunInv
  BY RunInvInit, RunInvNext, PTL DEF Spec
<1>2. Spec => []TypeInv
  BY <1>1, LockInvAlways, TypeInvInit, TypeInvNext, PTL DEF Spec
<1>3. QED
  BY <1>1, <1>2, LockInvAlways, PTL

LEMMA SemInvAlways == Spec => []SemInv
  BY LoopInvAlways, SemInvInit, SemPreserved, PTL DEF Spec

(* sem_post and sem_wait lose and invent no token, whatever the guest does: *)
(* the value of a semaphore is what was posted and not yet drawn, counting *)
(* the tokens the scheduler drew for threads that have not run since.      *)
THEOREM SemTokensConserved == Spec => []SemConservation
<1>1. SemInv => SemConservation
  BY DEF SemInv
<1>2. QED
  BY <1>1, SemInvAlways, PTL

LEMMA SemQueuesAlways ==
  ASSUME CarefulWithSems
  PROVE  Spec => []SemQueues
  BY LoopInvAlways, SemInvAlways, SemInvInit, SemPreserved, PTL DEF Spec

(* What sem_getvalue reports: the waiting set of an open semaphore is the   *)
(* set of threads blocked on it, for a guest that does not destroy or close *)
(* a semaphore in use.                                                     *)
THEOREM SemWaitersAreExact ==
  ASSUME CarefulWithSems
  PROVE  Spec => []SemWaitersExact
<1>1. SemQueues => SemWaitersExact
  BY DEF SemQueues
<1>2. QED
  BY <1>1, SemQueuesAlways, PTL

(* sem_wait returns success only with a token, for the same guests. *)
THEOREM SemWaitsTakeTokens ==
  ASSUME CarefulWithSems
  PROVE  Spec => []SemWaitTookToken
<1>1. RunInv /\ SemQueues => SemWaitTookToken
  BY DEF RunInv, TableOK, RunsOnlyRunnable, Blocked, SemQueues, SemBlocked, InSemWait, SemWaitTookToken
<1>2. QED
  BY <1>1, LoopInvAlways, SemQueuesAlways, PTL

-----------------------------------------------------------------------------
(* Queues without repetition *)

NoDup(q) == \A i, j \in 1 .. Len(q) : q[i] = q[j] => i = j

LEMMA EmptyQueue ==
  ASSUME NEW q \in Seq(Thread)
  PROVE  /\ q = <<>> <=> \A u \in Thread : ~Queued(q, u)
         /\ q = <<>> => NoDup(q)
         /\ \A u : Queued(q, u) => u \in Thread
<1>1. Len(q) \in Nat /\ (q = <<>> <=> Len(q) = 0) /\ \A i \in 1 .. Len(q) : q[i] \in Thread
  OBVIOUS
<1>2. ASSUME \A u \in Thread : ~Queued(q, u) PROVE Len(q) = 0
  <2>1. CASE 1 \in 1 .. Len(q)
    BY <1>1, <1>2, <2>1 DEF Queued
  <2>2. CASE 1 \notin 1 .. Len(q)
    BY <1>1, <2>2
  <2>3. QED
    BY <2>1, <2>2
<1>3. QED
  BY <1>1, <1>2 DEF Queued, NoDup

LEMMA AppendExact ==
  ASSUME NEW q \in Seq(Thread), NEW t \in Thread
  PROVE  /\ \A u : Queued(Append(q, t), u) <=> Queued(q, u) \/ u = t
         /\ NoDup(q) /\ ~Queued(q, t) => NoDup(Append(q, t))
<1> DEFINE a == Append(q, t)
<1>1. Len(a) = Len(q) + 1 /\ Len(q) \in Nat
  OBVIOUS
<1>2. a[Len(q) + 1] = t /\ \A i \in 1 .. Len(q) : a[i] = q[i]
  OBVIOUS
<1> HIDE DEF a
<1>3. \A i \in 1 .. Len(a) : i \in 1 .. Len(q) \/ i = Len(q) + 1
  BY <1>1
<1>4. \A u : Queued(a, u) <=> Queued(q, u) \/ u = t
  BY <1>1, <1>2, <1>3 DEF Queued
<1>5. ASSUME NoDup(q), ~Queued(q, t) PROVE NoDup(a)
  BY <1>1, <1>2, <1>3, <1>5 DEF Queued, NoDup
<1>6. QED
  BY <1>4, <1>5 DEF a

LEMMA TailExact ==
  ASSUME NEW q \in Seq(Thread), q # <<>>, NoDup(q)
  PROVE  /\ Tail(q) \in Seq(Thread) /\ NoDup(Tail(q)) /\ Head(q) \in Thread
         /\ \A u : Queued(Tail(q), u) <=> Queued(q, u) /\ u # Head(q)
         /\ Queued(q, Head(q))
<1> DEFINE r == Tail(q)
<1>1. r \in Seq(Thread) /\ Head(q) \in Thread /\ Len(q) \in Nat /\ Len(q) # 0
  OBVIOUS
<1>2. Len(r) = Len(q) - 1 /\ Head(q) = q[1]
  BY <1>1
<1>3. \A i \in 1 .. Len(q) - 1 : r[i] = q[i + 1]
  BY <1>1
<1> HIDE DEF r
<1>4. NoDup(r)
  <2> SUFFICES ASSUME NEW i \in 1 .. Len(r), NEW j \in 1 .. Len(r), r[i] = r[j] PROVE i = j
    BY DEF NoDup
  <2>1. i + 1 \in 1 .. Len(q) /\ j + 1 \in 1 .. Len(q) /\ q[i + 1] = q[j + 1]
    BY <1>1, <1>2, <1>3
  <2>2. i + 1 = j + 1
    BY <2>1 DEF NoDup
  <2>3. QED
    BY <1>1, <1>2, <2>2
<1>5. ASSUME NEW u, Queued(r, u) PROVE Queued(q, u) /\ u # Head(q)
  <2>1. PICK i \in 1 .. Len(r) : r[i] = u
    BY <1>5 DEF Queued
  <2>2. i + 1 \in 1 .. Len(q) /\ 1 \in 1 .. Len(q) /\ q[i + 1] = u /\ i + 1 # 1
    BY <1>1, <1>2, <1>3, <2>1
  <2>3. QED
    BY <1>2, <2>2 DEF Queued, NoDup
<1>6. ASSUME NEW u, Queued(q, u), u # Head(q) PROVE Queued(r, u)
  BY <1>6, TailQueued DEF r
<1>7. Queued(q, Head(q))
  BY <1>1, <1>2 DEF Queued
<1>8. QED
  BY <1>1, <1>4, <1>5, <1>6, <1>7 DEF r

LEMMA ConcatExact ==
  ASSUME NEW q \in Seq(Thread), NEW r \in Seq(Thread)
  PROVE  /\ \A u : Queued(q \o r, u) <=> Queued(q, u) \/ Queued(r, u)
         /\ NoDup(q) /\ NoDup(r) /\ (\A u \in Thread : ~(Queued(q, u) /\ Queued(r, u)))
              => NoDup(q \o r)
<1> DEFINE a == q \o r
<1>1. Len(a) = Len(q) + Len(r) /\ Len(q) \in Nat /\ Len(r) \in Nat
  OBVIOUS
<1>2. \A i \in 1 .. Len(q) : a[i] = q[i] /\ q[i] \in Thread
  OBVIOUS
<1>3. \A i \in 1 .. Len(r) : a[Len(q) + i] = r[i]
  OBVIOUS
<1> HIDE DEF a
<1>4. ASSUME NEW i \in 1 .. Len(a)
      PROVE  \/ i \in 1 .. Len(q) /\ a[i] = q[i]
             \/ i - Len(q) \in 1 .. Len(r) /\ a[i] = r[i - Len(q)]
  <2>1. CASE i <= Len(q)
    BY <1>1, <1>2, <2>1
  <2>2. CASE i > Len(q)
    <3>1. i - Len(q) \in 1 .. Len(r) /\ Len(q) + (i - Len(q)) = i
      BY <1>1, <2>2
    <3>2. a[Len(q) + (i - Len(q))] = r[i - Len(q)]
      BY <1>3, <3>1
    <3>3. QED
      BY <3>1, <3>2
  <2>3. QED
    BY <1>1, <2>1, <2>2
<1>5. ASSUME NEW u, Queued(a, u) PROVE Queued(q, u) \/ Queued(r, u)
  BY <1>4, <1>5 DEF Queued
<1>6. \A u : Queued(q, u) \/ Queued(r, u) => Queued(a, u)
  BY ConcatQueued DEF a
<1>7. ASSUME NoDup(q), NoDup(r), \A u \in Thread : ~(Queued(q, u) /\ Queued(r, u)),
             NEW i \in 1 .. Len(a), NEW j \in 1 .. Len(a), a[i] = a[j]
      PROVE  i = j
  <2>1. CASE i \in 1 .. Len(q) /\ j \in 1 .. Len(q)
    BY <1>2, <1>7, <2>1 DEF NoDup
  <2>2. CASE i - Len(q) \in 1 .. Len(r) /\ j - Len(q) \in 1 .. Len(r)
    <3>1. r[i - Len(q)] = r[j - Len(q)]
      BY <1>1, <1>4, <1>7, <2>2
    <3>2. i - Len(q) = j - Len(q)
      BY <1>7, <2>2, <3>1 DEF NoDup
    <3>3. QED
      BY <1>1, <3>2
  <2>3. ASSUME NEW k \in 1 .. Len(q), NEW l \in 1 .. Len(r), q[k] = r[l] PROVE FALSE
    BY <1>2, <1>7, <2>3 DEF Queued
  <2>4. QED
    BY <1>4, <1>7, <2>1, <2>2, <2>3
<1>8. QED
  BY <1>5, <1>6, <1>7 DEF a, NoDup

LEMMA WithoutExact ==
  ASSUME NEW q \in Seq(Thread), NEW t, NoDup(q)
  PROVE  /\ Without(q, t) \in Seq(Thread) /\ NoDup(Without(q, t))
         /\ \A u : Queued(Without(q, t), u) <=> Queued(q, u) /\ u # t
<1>1. CASE ~Queued(q, t)
  BY <1>1 DEF Without
<1>2. CASE Queued(q, t)
  <2> DEFINE k == CHOOSE i \in 1 .. Len(q) : q[i] = t
             a == SubSeq(q, 1, k - 1)
             b == SubSeq(q, k + 1, Len(q))
  <2>1. k \in 1 .. Len(q) /\ q[k] = t /\ Len(q) \in Nat
    BY <1>2 DEF Queued
  <2>2. Without(q, t) = a \o b
    BY <1>2 DEF Without
  <2> HIDE DEF k
  <2>3. /\ a \in Seq(Thread) /\ Len(a) = k - 1
        /\ \A i \in 1 .. k - 1 : a[i] = q[i]
    BY <2>1
  <2>4. /\ b \in Seq(Thread) /\ Len(b) = Len(q) - k
        /\ \A i \in 1 .. Len(q) - k : b[i] = q[k + i]
    BY <2>1
  <2> HIDE DEF a, b
  <2>5. NoDup(a)
    BY <2>1, <2>3 DEF NoDup
  <2>6. NoDup(b)
    <3> SUFFICES ASSUME NEW i \in 1 .. Len(b), NEW j \in 1 .. Len(b), b[i] = b[j] PROVE i = j
      BY DEF NoDup
    <3>1. k + i \in 1 .. Len(q) /\ k + j \in 1 .. Len(q) /\ q[k + i] = q[k + j]
      BY <2>1, <2>4
    <3>2. k + i = k + j
      BY <3>1 DEF NoDup
    <3>3. QED
      BY <2>1, <2>4, <3>2
  <2>7. ASSUME NEW u, Queued(a, u) PROVE Queued(q, u) /\ u # t /\ ~Queued(b, u)
    <3>1. PICK i \in 1 .. Len(a) : a[i] = u
      BY <2>7 DEF Queued
    <3>2. i \in 1 .. Len(q) /\ q[i] = u /\ i # k
      BY <2>1, <2>3, <3>1
    <3>3. ASSUME NEW j \in 1 .. Len(b) PROVE b[j] # u
      <4>1. k + j \in 1 .. Len(q) /\ q[k + j] = b[j] /\ k + j # i
        BY <2>1, <2>3, <2>4, <3>1
      <4>2. QED
        BY <3>2, <4>1 DEF NoDup
    <3>4. QED
      BY <2>1, <3>2, <3>3 DEF Queued, NoDup
  <2>8. ASSUME NEW u, Queued(b, u) PROVE Queued(q, u) /\ u # t
    <3>1. PICK j \in 1 .. Len(b) : b[j] = u
      BY <2>8 DEF Queued
    <3>2. k + j \in 1 .. Len(q) /\ q[k + j] = u /\ k + j # k
      BY <2>1, <2>4, <3>1
    <3>3. QED
      BY <2>1, <3>2 DEF Queued, NoDup
  <2>9. \A u : Queued(a \o b, u) <=> Queued(a, u) \/ Queued(b, u)
    BY <2>3, <2>4, ConcatExact
  <2>10. NoDup(a \o b)
    BY <2>3, <2>4, <2>5, <2>6, <2>7, ConcatExact
  <2>11. \A u : (Queued(q, u) /\ u # t) => Queued(Without(q, t), u)
    BY WithoutQueued
  <2>12. ASSUME NEW u, Queued(Without(q, t), u) PROVE Queued(q, u) /\ u # t
    <3>1. Queued(a, u) \/ Queued(b, u)
      BY <2>2, <2>9, <2>12
    <3>2. QED
      BY <2>7, <2>8, <3>1
  <2>13. NoDup(Without(q, t))
    BY <2>2, <2>10
  <2>14. Without(q, t) \in Seq(Thread)
    BY WithoutQueued
  <2>15. QED
    BY <2>11, <2>12, <2>13, <2>14
<1>3. QED
  BY <1>1, <1>2

-----------------------------------------------------------------------------
(* Condition variables *)

CondBlocked(t) == blocked_by[t].kind = "Condition"
InCondWait(t) == call[t].fn \in WaitCalls

(* The queues of a condition variable object hold no thread twice. *)
Proper(cv) ==
  /\ NoDup(cv.waiting) /\ NoDup(cv.waking)
  /\ \A t \in Thread : ~(Queued(cv.waiting, t) /\ Queued(cv.waking, t))
  /\ cv.state = "static" => cv.waiting = <<>> /\ cv.waking = <<>>

Stands(cv, t) == Queued(cv.waiting, t) \/ Queued(cv.waking, t)

(* Only threads blocked on c stand in its queues. *)
StandersBlocked(c) ==
  \A t \in Thread : Stands(conds[c], t) => CondBlocked(t) /\ blocked_by[t].obj = c

(* A blocked waiter is in a wait on the same condition variable, and only   *)
(* pthread_cond_timedwait gives it a deadline.                             *)
WaitLink(t) ==
  /\ InCondWait(t) => call[t].obj \in Conds
  /\ CondBlocked(t) =>
       /\ call[t].obj = blocked_by[t].obj
       /\ blocked_by[t].timed => call[t].fn = "cond_timedwait"

(* A mark of a timeout belongs to a wait the scheduler has ended. *)
Marked(t, c) == call[t].fn = "cond_timedwait" /\ call[t].obj = c /\ ~CondBlocked(t)

CondInv ==
  phase # "panic" =>
    /\ \A c \in Conds : Proper(conds[c]) /\ StandersBlocked(c)
    /\ \A t \in Thread : WaitLink(t)
    /\ \A c \in Conds : \A t \in conds[c].timed_out : Marked(t, c)

(* Steps that leave the condition variables, their waiters and those whose  *)
(* wait has ended alone, or end it all.                                    *)
CondApart ==
  \/ phase' = "panic"
  \/ /\ UNCHANGED conds /\ phase # "panic"
     /\ \A t \in Thread :
          /\ CondBlocked(t)' <=> CondBlocked(t)
          /\ CondBlocked(t) => blocked_by'[t] = blocked_by[t]
          /\ InCondWait(t)' <=> InCondWait(t)
          /\ InCondWait(t) => call'[t] = call[t]

LEMMA CondInvApart ==
  ASSUME LockInv, CondInv, CondApart
  PROVE  CondInv'
<1>1. CASE phase' = "panic"
  BY <1>1 DEF CondInv
<1>2. CASE phase' # "panic"
  <2>1. UNCHANGED conds /\ phase # "panic"
    BY <1>2 DEF CondApart
  <2>2. \A t \in Thread : /\ CondBlocked(t)' <=> CondBlocked(t)
                          /\ CondBlocked(t) => blocked_by'[t] = blocked_by[t]
                          /\ InCondWait(t)' <=> InCondWait(t)
                          /\ InCondWait(t) => call'[t] = call[t]
    BY <1>2 DEF CondApart
  <2>3. \A c \in Conds : Proper(conds'[c]) /\ StandersBlocked(c)'
    BY <2>1, <2>2 DEF CondInv, StandersBlocked
  <2>4. \A t \in Thread : CondBlocked(t) => InCondWait(t)
    BY DEF LockInv, MutexInv, Links, Link, InCondWait, CondBlocked
  <2>5. \A t \in Thread : WaitLink(t)'
    BY <2>1, <2>2, <2>4 DEF CondInv, WaitLink
  <2>6. \A c \in Conds : \A t \in conds[c].timed_out : t \in Thread
    BY CondFields DEF LockInv, CondLinks, CondTypeOK
  <2>7. \A c \in Conds : \A t \in conds'[c].timed_out : Marked(t, c)'
    BY <2>1, <2>2, <2>6 DEF CondInv, Marked, InCondWait, WaitCalls
  <2>8. QED
    BY <2>1, <2>3, <2>5, <2>7 DEF CondInv, Proper
<1>3. QED
  BY <1>1, <1>2

(* One condition variable object changes. *)
LEMMA CondObjectStep ==
  ASSUME LockInv, CondInv, phase # "panic", NEW c \in Conds, NEW cv,
         conds' = [conds EXCEPT ![c] = cv], Proper(cv),
         \A t \in Thread : Stands(cv, t) => CondBlocked(t)' /\ blocked_by'[t].obj = c,
         \A t \in cv.timed_out : Marked(t, c)',
         \A t \in Thread : WaitLink(t)',
         \A t \in Thread : (CondBlocked(t) /\ blocked_by[t].obj # c) => blocked_by'[t] = blocked_by[t],
         \A t \in Thread : (~CondBlocked(t) /\ InCondWait(t) /\ call[t].obj # c) =>
                              call'[t] = call[t] /\ ~CondBlocked(t)'
  PROVE  CondInv'
<1>1. conds'[c] = cv /\ \A d \in Conds : d # c => conds'[d] = conds[d]
  BY DEF LockInv, CondLinks, CondTypeOK
<1>2. ASSUME NEW d \in Conds PROVE Proper(conds'[d]) /\ StandersBlocked(d)'
  <2>1. CASE d = c
    BY <1>1, <2>1 DEF StandersBlocked
  <2>2. CASE d # c
    <3>1. Proper(conds[d]) /\ StandersBlocked(d) /\ conds'[d] = conds[d]
      BY <1>1, <2>2 DEF CondInv
    <3>2. ASSUME NEW t \in Thread, Stands(conds[d], t)
          PROVE  CondBlocked(t)' /\ blocked_by'[t].obj = d
      <4>1. CondBlocked(t) /\ blocked_by[t].obj = d
        BY <3>1, <3>2 DEF StandersBlocked
      <4>2. blocked_by'[t] = blocked_by[t]
        BY <2>2, <4>1
      <4>3. QED
        BY <4>1, <4>2 DEF CondBlocked
    <3>3. QED
      BY <3>1, <3>2 DEF StandersBlocked
  <2>3. QED
    BY <2>1, <2>2
<1>3. ASSUME NEW d \in Conds, NEW t \in conds'[d].timed_out PROVE Marked(t, d)'
  <2>1. CASE d = c
    BY <1>1, <1>3, <2>1
  <2>2. CASE d # c
    <3>1. t \in conds[d].timed_out
      BY <1>1, <1>3, <2>2
    <3>2. t \in Thread
      BY <3>1, CondFields DEF LockInv, CondLinks, CondTypeOK
    <3>3. Marked(t, d)
      BY <3>1 DEF CondInv
    <3>4. call'[t] = call[t] /\ ~CondBlocked(t)'
      BY <2>2, <3>2, <3>3 DEF Marked, InCondWait, WaitCalls
    <3>5. QED
      BY <3>3, <3>4 DEF Marked
  <2>3. QED
    BY <2>1, <2>2
<1>4. QED
  BY <1>2, <1>3 DEF CondInv, Proper

(* ... and no thread does. *)
LEMMA CondIdleStep ==
  ASSUME LockInv, CondInv, phase # "panic", NEW c \in Conds, NEW cv,
         conds' = [conds EXCEPT ![c] = cv], Proper(cv), UNCHANGED <<call, blocked_by>>,
         \A t \in Thread : Stands(cv, t) => Stands(conds[c], t),
         cv.timed_out \subseteq conds[c].timed_out
  PROVE  CondInv'
<1>1. \A t \in Thread : /\ CondBlocked(t)' <=> CondBlocked(t)
                        /\ WaitLink(t)' <=> WaitLink(t)
  BY DEF CondBlocked, InCondWait, WaitLink
<1>2. \A t \in Thread : WaitLink(t)
  BY DEF CondInv
<1>3. \A t \in Thread : Stands(cv, t) => CondBlocked(t) /\ blocked_by[t].obj = c
  BY DEF CondInv, StandersBlocked
<1>4. \A t \in cv.timed_out : Marked(t, c)'
  BY DEF CondInv, Marked, CondBlocked
<1>5. QED
  BY <1>1, <1>2, <1>3, <1>4, CondObjectStep

LEMMA RegisteredProper ==
  ASSUME LockInv, CondInv, phase # "panic", NEW c \in Conds
  PROVE  LET cv == Registered(c) IN
         /\ cv \in CondObject /\ cv.state # "static" /\ Proper(cv)
         /\ cv.waiting \in Seq(Thread) /\ cv.waking \in Seq(Thread)
         /\ cv.waiting = conds[c].waiting /\ cv.waking = conds[c].waking
         /\ cv.timed_out \subseteq conds[c].timed_out
<1> DEFINE cv == Registered(c)
<1>1. cv \in CondObject /\ cv.state # "static" /\ (conds[c].state # "static" => cv = conds[c])
  BY RegisteredType DEF LockInv
<1>2. cv.waiting \in Seq(Thread) /\ cv.waking \in Seq(Thread)
  BY <1>1, CondFields
<1>3. Proper(conds[c])
  BY DEF CondInv
<1>4. /\ cv.waiting = conds[c].waiting /\ cv.waking = conds[c].waking
      /\ cv.timed_out \subseteq conds[c].timed_out
  <2>1. CASE conds[c].state = "static"
    BY <1>3, <2>1 DEF Registered, FreshCond, Proper
  <2>2. CASE conds[c].state # "static"
    BY <1>1, <2>2
  <2>3. QED
    BY <2>1, <2>2
<1>5. Proper(cv)
  BY <1>1, <1>3, <1>4 DEF Proper
<1>6. QED
  BY <1>1, <1>2, <1>4, <1>5

LEMMA CondInitKeeps ==
  ASSUME LockInv, CondInv, NEW c \in Conds, pthread_cond_init(c)
  PROVE  CondInv'
<1>1. /\ FreshCond.waiting = <<>> /\ FreshCond.waking = <<>> /\ FreshCond.timed_out = {}
      /\ FreshCond.state = "live"
  BY DEF FreshCond
<1>2. <<>> \in Seq(Thread)
  BY EmptySeq
<1>3. NoDup(<<>>) /\ \A t \in Thread : ~Queued(<<>>, t)
  BY <1>2, EmptyQueue
<1>4. Proper(FreshCond) /\ \A t \in Thread : ~Stands(FreshCond, t)
  BY <1>1, <1>3 DEF Proper, Stands
<1>5. /\ conds' = [conds EXCEPT ![c] = FreshCond] /\ UNCHANGED <<call, blocked_by>>
      /\ phase # "panic"
  BY DEF pthread_cond_init, threadVars, Calls
<1>6. QED
  BY <1>1, <1>4, <1>5, CondIdleStep

LEMMA SignalKeeps ==
  ASSUME LockInv, CondInv, NEW c \in Conds, pthread_cond_signal(c)
  PROVE  CondInv'
<1> DEFINE cv == Registered(c)
           r == Signalled(cv)
<1>1. conds' = [conds EXCEPT ![c] = r] /\ UNCHANGED <<call, blocked_by>> /\ phase # "panic"
  BY DEF pthread_cond_signal, threadVars, Calls
<1>2. /\ cv \in CondObject /\ Proper(cv) /\ cv.state # "static"
      /\ cv.waiting \in Seq(Thread) /\ cv.waking \in Seq(Thread)
      /\ cv.timed_out \subseteq conds[c].timed_out
      /\ \A t \in Thread : Stands(cv, t) => Stands(conds[c], t)
  BY <1>1, RegisteredProper DEF Stands
<1> HIDE DEF cv
<1>3. CASE cv.waiting = <<>>
  BY <1>1, <1>2, <1>3, CondIdleStep DEF Signalled
<1>4. CASE cv.waiting # <<>>
  <2> DEFINE w == Tail(cv.waiting)
             h == Head(cv.waiting)
             k == Append(cv.waking, h)
  <2>1. /\ NoDup(w) /\ h \in Thread /\ Queued(cv.waiting, h)
        /\ \A u : Queued(w, u) <=> Queued(cv.waiting, u) /\ u # h
    BY <1>2, <1>4, TailExact DEF Proper
  <2>2. NoDup(k) /\ \A u : Queued(k, u) <=> Queued(cv.waking, u) \/ u = h
    BY <1>2, <2>1, AppendExact DEF Proper
  <2>3. r.waiting = w /\ r.waking = k /\ r.state = cv.state /\ r.timed_out = cv.timed_out
    BY <1>2, <1>4 DEF Signalled, CondObject
  <2> HIDE DEF w, h, k, r
  <2>4. Proper(r)
    BY <1>2, <2>1, <2>2, <2>3 DEF Proper
  <2>5. \A t \in Thread : Stands(r, t) => Stands(cv, t)
    BY <2>1, <2>2, <2>3 DEF Stands
  <2>6. QED
    BY <1>1, <1>2, <2>3, <2>4, <2>5, CondIdleStep
<1>5. QED
  BY <1>3, <1>4

LEMMA BroadcastKeeps ==
  ASSUME LockInv, CondInv, NEW c \in Conds, pthread_cond_broadcast(c)
  PROVE  CondInv'
<1> DEFINE cv == Registered(c)
           k == cv.waking \o conds[c].waiting
           r == [cv EXCEPT !.waking = k, !.waiting = <<>>]
<1>1. /\ conds' = [conds EXCEPT ![c] = r] /\ UNCHANGED <<call, blocked_by>> /\ phase # "panic"
  BY DEF pthread_cond_broadcast, threadVars, Calls
<1>2. /\ cv \in CondObject /\ Proper(cv) /\ cv.state # "static"
      /\ cv.waiting \in Seq(Thread) /\ cv.waking \in Seq(Thread)
      /\ cv.waiting = conds[c].waiting
      /\ cv.timed_out \subseteq conds[c].timed_out
      /\ \A t \in Thread : Stands(cv, t) => Stands(conds[c], t)
  BY <1>1, RegisteredProper DEF Stands
<1>3. NoDup(k) /\ \A u : Queued(k, u) <=> Queued(cv.waking, u) \/ Queued(cv.waiting, u)
  BY <1>2, ConcatExact DEF Proper
<1>4. <<>> \in Seq(Thread)
  BY EmptySeq
<1>5. NoDup(<<>>) /\ \A t \in Thread : ~Queued(<<>>, t)
  BY <1>4, EmptyQueue
<1>6. r.waiting = <<>> /\ r.waking = k /\ r.state = cv.state /\ r.timed_out = cv.timed_out
  BY <1>2 DEF CondObject
<1> HIDE DEF k, r, cv
<1>7. Proper(r)
  BY <1>2, <1>3, <1>5, <1>6 DEF Proper
<1>8. \A t \in Thread : Stands(r, t) => Stands(cv, t)
  BY <1>3, <1>5, <1>6 DEF Stands
<1>9. QED
  BY <1>1, <1>2, <1>6, <1>7, <1>8, CondIdleStep

LEMMA CondDestroyKeeps ==
  ASSUME LockInv, CondInv, NEW c \in Conds, pthread_cond_destroy(c)
  PROVE  CondInv'
<1> DEFINE r == [conds[c] EXCEPT !.state = "gone"]
<1>1. CASE phase' = "panic"
  BY <1>1 DEF CondInv
<1>2. CASE phase' # "panic"
  <2>1. conds' = [conds EXCEPT ![c] = r] /\ UNCHANGED <<call, blocked_by>> /\ phase # "panic"
    BY <1>2 DEF pthread_cond_destroy, threadVars, Calls, Panic
  <2>2. conds[c] \in CondObject /\ Proper(conds[c])
    BY <2>1 DEF LockInv, CondLinks, CondTypeOK, CondInv
  <2>3. /\ r.waiting = conds[c].waiting /\ r.waking = conds[c].waking /\ r.state = "gone"
        /\ r.timed_out = conds[c].timed_out
    BY <2>2 DEF CondObject
  <2> HIDE DEF r
  <2>4. Proper(r) /\ \A t \in Thread : Stands(r, t) => Stands(conds[c], t)
    BY <2>2, <2>3 DEF Proper, Stands
  <2>5. QED
    BY <2>1, <2>3, <2>4, CondIdleStep
<1>3. QED
  BY <1>1, <1>2

LEMMA WaitKeeps ==
  ASSUME RunInv, LockInv, TypeInv, CondInv, NEW f, Calls(f), NEW c \in Conds, NEW p \in PMutexes,
         NEW fn \in WaitCalls, Wait(c, p, fn)
  PROVE  CondInv'
<1> DEFINE cv == Registered(c)
           m == IdOf(p)
           w == Append(cv.waiting, current)
           r == [cv EXCEPT !.curr_mutex = m, !.waiting = w]
<1>1. phase # "panic" /\ call[current].fn = "none"
  BY DEF Calls
<1>2. /\ cv \in CondObject /\ Proper(cv) /\ cv.state # "static"
      /\ cv.waiting \in Seq(Thread) /\ cv.waking \in Seq(Thread)
      /\ cv.timed_out \subseteq conds[c].timed_out
      /\ \A t \in Thread : Stands(cv, t) => Stands(conds[c], t)
  BY <1>1, RegisteredProper DEF Stands
<1>3. CASE phase' = "panic"
  BY <1>3 DEF CondInv
<1>4. CASE conds' = [conds EXCEPT ![c] = cv] /\ UNCHANGED threadVars
  BY <1>1, <1>2, <1>4, CondIdleStep DEF threadVars
<1>5. CASE /\ conds' = [conds EXCEPT ![c] =
                [cv EXCEPT !.curr_mutex = m, !.waiting = Append(@, current)]]
           /\ Yield(Blk("Condition", c, fn = "cond_timedwait"), Cl(fn, c, m))
  <2>1. /\ current \in Thread /\ ~CondBlocked(current) /\ DOMAIN blocked_by = Thread
        /\ DOMAIN call = Thread
    BY DEF RunInv, TableOK, RunsOnlyRunnable, Blocked, CondBlocked, Calls, TypeInv, LoopTypes
  <2>2. /\ blocked_by'[current].kind = "Condition" /\ blocked_by'[current].obj = c
        /\ blocked_by'[current].timed = (fn = "cond_timedwait")
        /\ call'[current].fn = fn /\ call'[current].obj = c
        /\ \A t \in Thread : t # current => blocked_by'[t] = blocked_by[t] /\ call'[t] = call[t]
    BY <1>5, <2>1 DEF Yield, Blk, Cl, CondBlocked
  <2>3. ~Stands(cv, current)
    BY <1>1, <1>2, <2>1 DEF CondInv, StandersBlocked
  <2>4. NoDup(w) /\ \A u : Queued(w, u) <=> Queued(cv.waiting, u) \/ u = current
    BY <1>2, <2>1, <2>3, AppendExact DEF Proper, Stands
  <2>5. conds' = [conds EXCEPT ![c] = r]
    BY <1>5
  <2>6. r.waiting = w /\ r.waking = cv.waking /\ r.state = cv.state /\ r.timed_out = cv.timed_out
    BY <1>2 DEF CondObject
  <2> HIDE DEF r, w, m, cv
  <2>7. Proper(r)
    BY <1>2, <2>3, <2>4, <2>6 DEF Proper, Stands
  <2>8. ASSUME NEW t \in Thread, Stands(r, t) PROVE CondBlocked(t)' /\ blocked_by'[t].obj = c
    <3>1. t = current \/ Stands(cv, t)
      BY <2>4, <2>6, <2>8 DEF Stands
    <3>2. CASE t # current
      BY <1>1, <1>2, <2>2, <3>1, <3>2 DEF CondInv, StandersBlocked, CondBlocked
    <3>3. CASE t = current
      BY <2>2, <3>3 DEF CondBlocked
    <3>4. QED
      BY <3>2, <3>3
  <2>9. ASSUME NEW t \in r.timed_out PROVE Marked(t, c)'
    <3>1. Marked(t, c) /\ t \in Thread
      BY <1>1, <1>2, <2>6, <2>9, CondFields DEF CondInv
    <3>2. t # current
      BY <1>1, <3>1 DEF Marked
    <3>3. QED
      BY <2>2, <3>1, <3>2 DEF Marked, CondBlocked
  <2>10. ASSUME NEW t \in Thread PROVE WaitLink(t)'
    <3>1. CASE t = current
      BY <2>2, <3>1 DEF WaitLink, CondBlocked, InCondWait
    <3>2. CASE t # current
      BY <1>1, <2>2, <3>2 DEF CondInv, WaitLink, CondBlocked, InCondWait
    <3>3. QED
      BY <3>1, <3>2
  <2>11. \A t \in Thread : (CondBlocked(t) /\ blocked_by[t].obj # c) => blocked_by'[t] = blocked_by[t]
    BY <2>1, <2>2
  <2>12. \A t \in Thread : (~CondBlocked(t) /\ InCondWait(t) /\ call[t].obj # c) =>
                              call'[t] = call[t] /\ ~CondBlocked(t)'
    BY <1>1, <2>2 DEF InCondWait, WaitCalls, CondBlocked
  <2>13. QED
    BY <1>1, <2>5, <2>7, <2>8, <2>9, <2>10, <2>11, <2>12, CondObjectStep
<1>6. QED
  BY <1>3, <1>4, <1>5 DEF Wait, Panic

LEMMA ReturnFromWaitKeeps ==
  ASSUME RunInv, LockInv, TypeInv, CondInv, ReturnFromWait
  PROVE  CondInv'
<1>1. /\ current \in Thread /\ InCondWait(current) /\ ~CondBlocked(current) /\ phase # "panic"
      /\ DOMAIN call = Thread
  BY DEF RunInv, TableOK, ReturnFromWait, InCondWait, WaitCalls, RunsOnlyRunnable, Blocked,
         CondBlocked, TypeInv, LoopTypes
<1>2. PICK c \in Conds : c = call[current].obj
  BY <1>1 DEF CondInv, WaitLink
<1> DEFINE cv == conds[c]
           r == [cv EXCEPT !.timed_out = @ \ {current}]
<1>3. CASE phase' = "panic"
  BY <1>3 DEF CondInv
<1>4. CASE conds' = [conds EXCEPT ![c] = r] /\ Return
  <2>1. cv \in CondObject /\ Proper(cv)
    BY <1>1 DEF LockInv, CondLinks, CondTypeOK, CondInv
  <2> HIDE DEF cv
  <2>2. /\ r.waiting = cv.waiting /\ r.waking = cv.waking /\ r.state = cv.state
        /\ r.timed_out = cv.timed_out \ {current}
    BY <2>1 DEF CondObject
  <2> HIDE DEF r
  <2>3. /\ UNCHANGED blocked_by /\ call'[current].fn = "none"
        /\ \A t \in Thread : t # current => call'[t] = call[t]
    BY <1>1, <1>4 DEF Return, NoCall, Cl
  <2>4. Proper(r)
    BY <2>1, <2>2 DEF Proper
  <2>5. \A t \in Thread : Stands(r, t) => CondBlocked(t)' /\ blocked_by'[t].obj = c
    BY <1>1, <2>2, <2>3 DEF Stands, CondInv, StandersBlocked, CondBlocked, cv
  <2>6. ASSUME NEW t \in r.timed_out PROVE Marked(t, c)'
    <3>1. Marked(t, c) /\ t \in Thread /\ t # current
      BY <1>1, <2>1, <2>2, <2>6, CondFields DEF CondInv, cv
    <3>2. QED
      BY <2>3, <3>1 DEF Marked, CondBlocked
  <2>7. \A t \in Thread : WaitLink(t)'
    BY <1>1, <2>3 DEF CondInv, WaitLink, CondBlocked, InCondWait, WaitCalls
  <2>8. \A t \in Thread : (~CondBlocked(t) /\ InCondWait(t) /\ call[t].obj # c) =>
                             call'[t] = call[t] /\ ~CondBlocked(t)'
    BY <1>2, <2>3 DEF CondBlocked
  <2>9. QED
    BY <1>1, <1>4, <2>3, <2>4, <2>5, <2>6, <2>7, <2>8, CondObjectStep
<1>5. QED
  BY <1>2, <1>3, <1>4 DEF ReturnFromWait, Panic

(* The scheduler ends the wait of t: it leaves the queues, with or without  *)
(* a mark.                                                                 *)
LEMMA LeaveQueues ==
  ASSUME RunInv, LockInv, CondInv, phase # "panic", NEW t \in Thread, CondBlocked(t),
         NEW cv, conds' = [conds EXCEPT ![blocked_by[t].obj] = cv], UNCHANGED call,
         NEW b, blocked_by' = [blocked_by EXCEPT ![t] = b], b.kind # "Condition",
         Proper(cv), \A u \in Thread : Stands(cv, u) => u # t /\ Stands(conds[blocked_by[t].obj], u),
         cv.timed_out \subseteq conds[blocked_by[t].obj].timed_out \cup {t},
         t \in cv.timed_out => blocked_by[t].timed
  PROVE  CondInv'
<1>1. PICK c \in Conds : c = blocked_by[t].obj
  BY DEF LockInv, MutexInv, Links, Link, CondBlocked
<1>2. /\ ~CondBlocked(t)' /\ \A u \in Thread : u # t => blocked_by'[u] = blocked_by[u]
      /\ \A u \in Thread : u # t => (CondBlocked(u)' <=> CondBlocked(u))
  BY DEF RunInv, TableOK, CondBlocked
<1>3. call[t].obj = c /\ (blocked_by[t].timed => call[t].fn = "cond_timedwait")
  BY <1>1 DEF CondInv, WaitLink
<1>4. \A u \in Thread : Stands(cv, u) => CondBlocked(u)' /\ blocked_by'[u].obj = c
  BY <1>1, <1>2 DEF CondInv, StandersBlocked
<1>5. ASSUME NEW u \in cv.timed_out PROVE Marked(u, c)'
  <2>1. CASE u = t
    BY <1>2, <1>3, <1>5, <2>1 DEF Marked
  <2>2. CASE u # t
    <3>1. u \in conds[c].timed_out
      BY <1>1, <1>5, <2>2
    <3>2. u \in Thread
      BY <3>1, CondFields DEF LockInv, CondLinks, CondTypeOK
    <3>3. QED
      BY <1>2, <2>2, <3>1, <3>2 DEF CondInv, Marked
  <2>3. QED
    BY <2>1, <2>2
<1>6. \A u \in Thread : WaitLink(u)'
  BY <1>2 DEF CondInv, WaitLink, InCondWait
<1>7. \A u \in Thread : (CondBlocked(u) /\ blocked_by[u].obj # c) => blocked_by'[u] = blocked_by[u]
  BY <1>1, <1>2
<1>8. \A u \in Thread : (~CondBlocked(u) /\ InCondWait(u) /\ call[u].obj # c) =>
                           call'[u] = call[u] /\ ~CondBlocked(u)'
  BY <1>2
<1>9. conds' = [conds EXCEPT ![c] = cv]
  BY <1>1
<1>10. QED
  BY <1>4, <1>5, <1>6, <1>7, <1>8, <1>9, CondObjectStep

(* What a wake, or a thread sent to queue for the mutex, is blocked by. *)
LEMMA RelockLeaves ==
  ASSUME NEW t \in Thread, NEW m, RelockFor(t, m), phase' # "panic"
  PROVE  /\ UNCHANGED call /\ NotBlocked.kind # "Condition"
         /\ blocked_by' = [blocked_by EXCEPT ![t] = NotBlocked]
  BY DEF RelockFor, Wake, Panic, NotBlocked, Blk

LEMMA SchedConditionKeeps ==
  ASSUME RunInv, LockInv, CondInv, NEW t \in Thread, SchedCondition(t)
  PROVE  CondInv'
<1> DEFINE old == conds[blocked_by[t].obj]
           r == [old EXCEPT !.waking = Tail(@)]
<1>1. CASE phase' = "panic"
  BY <1>1 DEF CondInv
<1>2. CASE phase' # "panic"
  <2>1. CondBlocked(t) /\ phase # "panic" /\ blocked_by[t].obj \in Conds
    BY DEF SchedCondition, ConsideredCond, Considered, CondBlocked, LockInv, MutexInv, Links, Link
  <2>2. conds' = [conds EXCEPT ![blocked_by[t].obj] = r]
    BY DEF SchedCondition
  <2>3. old \in CondObject /\ old.waking \in Seq(Thread) /\ Proper(old)
    BY <2>1, CondFields DEF LockInv, CondLinks, CondTypeOK, CondInv
  <2>4. old.waking # <<>> /\ Head(old.waking) = t
    BY DEF SchedCondition, CondReady, FirstSignalled
  <2> HIDE DEF old
  <2>5. /\ r.waiting = old.waiting /\ r.waking = Tail(old.waking) /\ r.state = old.state
        /\ r.timed_out = old.timed_out
    BY <2>3 DEF CondObject
  <2> HIDE DEF r
  <2>6. /\ NoDup(Tail(old.waking)) /\ Queued(old.waking, t)
        /\ \A u : Queued(Tail(old.waking), u) <=> Queued(old.waking, u) /\ u # t
    BY <2>3, <2>4, TailExact DEF Proper
  <2>7. Proper(r)
    <3>1. old.state # "static"
      BY <2>3, <2>4 DEF Proper
    <3>2. QED
      BY <2>3, <2>5, <2>6, <3>1 DEF Proper
  <2>8. \A u \in Thread : Stands(r, u) => u # t /\ Stands(old, u)
    BY <2>3, <2>5, <2>6 DEF Stands, Proper
  <2>9. t \notin old.timed_out
    BY <2>1 DEF CondInv, Marked, old
  <2>10. /\ UNCHANGED call /\ NotBlocked.kind # "Condition"
         /\ blocked_by' = [blocked_by EXCEPT ![t] = NotBlocked]
    BY <1>2, RelockLeaves DEF SchedCondition
  <2>11. QED
    BY <2>1, <2>2, <2>5, <2>7, <2>8, <2>9, <2>10, LeaveQueues DEF old
<1>3. QED
  BY <1>1, <1>2

LEMMA TimeoutKeeps ==
  ASSUME RunInv, LockInv, CondInv, phase # "panic", NEW t \in Thread, CondBlocked(t),
         blocked_by[t].timed, TimedOut(t), UNCHANGED call,
         NEW b, blocked_by' = [blocked_by EXCEPT ![t] = b], b.kind # "Condition"
  PROVE  CondInv'
<1> DEFINE old == conds[blocked_by[t].obj]
           r == GivenUp(old, t)
<1>1. blocked_by[t].obj \in Conds
  BY DEF CondBlocked, LockInv, MutexInv, Links, Link
<1>2. conds' = [conds EXCEPT ![blocked_by[t].obj] = r]
  BY DEF TimedOut
<1>3. old \in CondObject /\ old.waking \in Seq(Thread) /\ old.waiting \in Seq(Thread) /\ Proper(old)
  BY <1>1, CondFields DEF LockInv, CondLinks, CondTypeOK, CondInv
<1> HIDE DEF old
<1>4. /\ r.waiting = Without(old.waiting, t) /\ r.waking = Without(old.waking, t)
      /\ r.state = old.state /\ r.timed_out = old.timed_out \cup {t}
  BY <1>3 DEF CondObject, GivenUp
<1> HIDE DEF r
<1>5. /\ NoDup(r.waiting) /\ \A u : Queued(r.waiting, u) <=> Queued(old.waiting, u) /\ u # t
      /\ NoDup(r.waking) /\ \A u : Queued(r.waking, u) <=> Queued(old.waking, u) /\ u # t
  BY <1>3, <1>4, WithoutExact DEF Proper
<1>6. Proper(r)
  <2>1. old.state = "static" => r.waiting = <<>> /\ r.waking = <<>>
    <3>1. ~Queued(<<>>, t)
      BY EmptySeq, EmptyQueue
    <3>2. QED
      BY <1>3, <1>4, <3>1 DEF Proper, Without
  <2>2. QED
    BY <1>3, <1>4, <1>5, <2>1 DEF Proper
<1>7. \A u \in Thread : Stands(r, u) => u # t /\ Stands(old, u)
  BY <1>5 DEF Stands
<1>8. QED
  BY <1>2, <1>4, <1>6, <1>7, LeaveQueues DEF old

-----------------------------------------------------------------------------
(* The steps of cond.rs and of the scheduler's Condition arm. *)
CondStepTaken ==
  \/ CondNext /\ UNCHANGED <<semVars, joinVars>>
  \/ \E t \in Thread : SchedCondition(t) \/ SchedTimeout(t) \/ SchedTimeoutLocked(t)

LEMMA CondQuiet ==
  ASSUME UNCHANGED <<conds, call, blocked_by>>, phase = "panic" => phase' = "panic"
  PROVE  CondApart
  BY DEF CondApart, CondBlocked, InCondWait

LEMMA CondYield ==
  ASSUME RunInv, LoopTypes, phase = "guest", ~InCondWait(current), NEW b, NEW c, Yield(b, c),
         b.kind # "Condition", c.fn \notin WaitCalls, UNCHANGED conds
  PROVE  CondApart
<1>1. /\ current \in Thread /\ ~CondBlocked(current) /\ DOMAIN blocked_by = Thread
      /\ DOMAIN call = Thread
  BY DEF RunInv, TableOK, RunsOnlyRunnable, Blocked, CondBlocked, LoopTypes
<1>2. /\ blocked_by'[current] = b /\ call'[current] = c
      /\ \A t \in Thread : t # current => blocked_by'[t] = blocked_by[t] /\ call'[t] = call[t]
  BY <1>1 DEF Yield
<1>3. QED
  BY <1>1, <1>2 DEF CondApart, CondBlocked, InCondWait

LEMMA CondReturn ==
  ASSUME RunInv, LoopTypes, phase = "guest", ~InCondWait(current), Return, UNCHANGED conds
  PROVE  CondApart
<1>1. current \in Thread /\ DOMAIN call = Thread /\ NoCall.fn \notin WaitCalls
  BY DEF RunInv, TableOK, LoopTypes, NoCall, Cl, WaitCalls
<1>2. QED
  BY <1>1 DEF CondApart, CondBlocked, InCondWait, Return

(* The scheduler wakes t, and perhaps notes what it drew. *)
LEMMA CondWake ==
  ASSUME RunInv, NEW t \in Thread, Considered(t), ~CondBlocked(t), Wake(t), UNCHANGED conds,
         \A u \in Thread : /\ InCondWait(u)' <=> InCondWait(u)
                           /\ InCondWait(u) => call'[u] = call[u]
  PROVE  CondApart
<1>1. DOMAIN blocked_by = Thread /\ NotBlocked.kind = "NotBlocked" /\ phase # "panic"
  BY DEF RunInv, TableOK, NotBlocked, Blk, Considered
<1>2. QED
  BY <1>1 DEF CondApart, CondBlocked, Wake

LEMMA CondApartNext ==
  ASSUME RunInv, LockInv, TypeInv, [Next]_vars, ~CondStepTaken
  PROVE  CondApart
<1> USE DEF TypeInv
<1>1. ASSUME NEW f, Calls(f) PROVE phase = "guest" /\ ~InCondWait(current)
  BY <1>1 DEF Calls, InCondWait, WaitCalls
<1>2. CASE UNCHANGED vars
  BY <1>2, CondQuiet DEF vars, threadVars, runVars, syncVars
<1>3. CASE ThreadNext
  <2>1. UNCHANGED conds
    BY <1>3 DEF ThreadNext, pthread_create, ThreadExit, ReturnFromJoin, sleep, Preempt,
           pthread_join, pthread_detach, thread_suspend, thread_resume, TimePasses, syncVars
  <2>2. ASSUME NEW fn, NEW count, pthread_create(fn, count) PROVE CondApart
    BY <2>1, <2>2, CondQuiet DEF pthread_create, runVars
  <2>3. CASE ThreadExit \/ Preempt
    BY <2>1, <2>3, CondQuiet DEF ThreadExit, Preempt
  <2>4. CASE ReturnFromJoin
    BY <2>1, <2>4, CondReturn DEF ReturnFromJoin, InCondWait, WaitCalls
  <2>5. CASE sleep
    BY <1>1, <2>1, <2>5, CondYield DEF sleep, Blk, NoCall, Cl, WaitCalls
  <2>6. ASSUME NEW j \in Thread, pthread_join(j) PROVE CondApart
    <3>1. CASE j = 0
      BY <2>6, <3>1 DEF pthread_join, Panic, CondApart
    <3>2. CASE j # 0
      <4>1. Calls("pthread_join") /\ Yield(Blk("Joining", j, FALSE), Cl("join", j, -1))
        BY <2>6, <3>2 DEF pthread_join
      <4>2. Blk("Joining", j, FALSE).kind # "Condition" /\ Cl("join", j, -1).fn \notin WaitCalls
        BY DEF Blk, Cl, WaitCalls
      <4>3. QED
        BY <1>1, <2>1, <4>1, <4>2, CondYield
    <3>3. QED
      BY <3>1, <3>2
  <2>7. ASSUME NEW j \in Thread, pthread_detach(j) \/ thread_resume(j) \/ TimePasses(j)
        PROVE  CondApart
    BY <2>1, <2>7, CondQuiet DEF pthread_detach, thread_resume, TimePasses, threadVars, runVars
  <2>8. ASSUME NEW j \in Thread, thread_suspend(j) PROVE CondApart
    BY <2>1, <2>8, CondQuiet DEF thread_suspend, Calls
  <2>9. QED
    BY <1>3, <2>2, <2>3, <2>4, <2>5, <2>6, <2>7, <2>8 DEF ThreadNext
<1>4. CASE MutexNext /\ UNCHANGED <<conds, semVars, joinVars>>
  <2>1. ASSUME UNCHANGED threadVars PROVE CondApart
    BY <1>4, <2>1, CondQuiet DEF threadVars, runVars
  <2>2. ASSUME NEW m, NEW tab, LockMutex(m, tab), NEW f, Calls(f) PROVE CondApart
    <3>1. CASE Yield(Blk("Mutex", m, FALSE), Cl("lock", m, m))
      BY <1>1, <1>4, <2>2, <3>1, CondYield DEF Blk, Cl, WaitCalls
    <3>2. QED
      BY <2>1, <2>2, <3>1 DEF LockMutex
  <2>3. ASSUME NEW p \in PMutexes, pthread_mutex_lock(p) \/ pthread_mutex_trylock(p) PROVE CondApart
    BY <2>1, <2>2, <2>3 DEF pthread_mutex_lock, pthread_mutex_trylock
  <2>4. CASE ReturnFromLock
    BY <1>4, <2>4, CondReturn DEF ReturnFromLock, InCondWait, WaitCalls
  <2>5. QED
    BY <1>4, <2>1, <2>3, <2>4
       DEF MutexNext, pthread_mutex_init, pthread_mutex_unlock, pthread_mutex_destroy
<1>5. CASE SemNext /\ UNCHANGED <<mutexVars, conds, joinVars>>
  <2>1. ASSUME UNCHANGED threadVars PROVE CondApart
    BY <1>5, <2>1, CondQuiet DEF threadVars, runVars
  <2>2. ASSUME NEW s \in SemPtr, sem_wait(s) PROVE CondApart
    <3>1. CASE Yield(Blk("Semaphore", s, FALSE), Cl("sem_wait", s, NoSem))
      BY <1>1, <1>5, <2>2, <3>1, CondYield DEF sem_wait, Blk, Cl, WaitCalls
    <3>2. QED
      BY <2>1, <2>2, <3>1 DEF sem_wait, Decrement
  <2>3. CASE ReturnFromSemWait
    BY <1>5, <2>3, CondReturn DEF ReturnFromSemWait, InCondWait, WaitCalls
  <2>4. QED
    BY <1>5, <2>1, <2>2, <2>3
       DEF SemNext, sem_init, sem_destroy, sem_open_new, sem_open_existing, sem_post,
           sem_trywait, Decrement, sem_close, sem_unlink
<1>6. CASE Schedule
  <2>1. ASSUME NEW t \in Thread, SchedRunnable(t) PROVE CondApart
    BY <2>1, CondQuiet DEF SchedRunnable, Considered, syncVars
  <2>2. ASSUME UNCHANGED call, NEW u PROVE (InCondWait(u)' <=> InCondWait(u)) /\ call'[u] = call[u]
    BY <2>2 DEF InCondWait
  <2>3. ASSUME NEW t \in Thread, SchedSlept(t) \/ SchedJoined(t) \/ SchedSemaphoreGone(t)
        PROVE  CondApart
    BY <2>2, <2>3, CondWake DEF SchedSlept, SchedJoined, SchedSemaphoreGone, syncVars, CondBlocked
  <2>4. ASSUME NEW t \in Thread, SchedMutex(t) PROVE CondApart
    <3>1. CASE phase' = "panic"
      BY <3>1 DEF CondApart
    <3>2. CASE phase' # "panic"
      <4>1. Wake(t) /\ UNCHANGED <<call, conds>> /\ Considered(t) /\ ~CondBlocked(t)
        BY <2>4, <3>2 DEF SchedMutex, RelockFor, Panic, CondBlocked
      <4>2. QED
        BY <2>2, <4>1, CondWake
    <3>3. QED
      BY <3>1, <3>2
  <2>5. ASSUME NEW t \in Thread, SchedSemaphore(t) PROVE CondApart
    <3>1. /\ Wake(t) /\ UNCHANGED conds /\ Considered(t) /\ ~CondBlocked(t)
          /\ call' = [call EXCEPT ![t].aux = open_semaphores[blocked_by[t].obj]]
          /\ call[t].fn = "sem_wait" /\ call \in [Thread -> Call]
      BY <2>5 DEF SchedSemaphore, CondBlocked, LockInv, MutexInv, Links, Link, LoopTypes
    <3>2. call'[t].fn = "sem_wait" /\ \A u \in Thread : u # t => call'[u] = call[u]
      BY <3>1 DEF Call
    <3>3. \A u \in Thread : (InCondWait(u)' <=> InCondWait(u)) /\ (InCondWait(u) => call'[u] = call[u])
      BY <3>1, <3>2 DEF InCondWait, WaitCalls
    <3>4. QED
      BY <3>1, <3>3, CondWake
  <2>6. ASSUME NEW t \in Thread, SchedCondLost(t) PROVE CondApart
    BY <2>6 DEF SchedCondLost, Panic, CondApart
  <2>7. CASE SchedSkip \/ SchedRetry \/ SchedDeadlock
    BY <2>7, CondQuiet DEF SchedSkip, SchedRetry, SchedDeadlock, syncVars
  <2>8. QED
    BY <1>6, <2>1, <2>3, <2>4, <2>5, <2>6, <2>7 DEF Schedule, CondStepTaken
<1>7. QED
  BY <1>2, <1>3, <1>4, <1>5, <1>6 DEF Next, Panicked, CondStepTaken

LEMMA CondPreserved ==
  ASSUME RunInv, LockInv, TypeInv, CondInv, [Next]_vars
  PROVE  CondInv'
<1>1. CASE ~CondStepTaken
  BY <1>1, CondApartNext, CondInvApart
<1>2. CASE CondNext
  BY <1>2, CondInitKeeps, SignalKeeps, BroadcastKeeps, CondDestroyKeeps, WaitKeeps,
     ReturnFromWaitKeeps
     DEF CondNext, pthread_cond_wait, pthread_cond_timedwait, WaitCalls
<1>3. ASSUME NEW t \in Thread, SchedTimeout(t) PROVE CondInv'
  <2>1. CASE phase' = "panic"
    BY <2>1 DEF CondInv
  <2>2. CASE phase' # "panic"
    <3>1. /\ UNCHANGED call /\ NotBlocked.kind # "Condition"
          /\ blocked_by' = [blocked_by EXCEPT ![t] = NotBlocked]
      BY <1>3, <2>2, RelockLeaves DEF SchedTimeout
    <3>2. CondBlocked(t) /\ phase # "panic" /\ blocked_by[t].timed /\ TimedOut(t)
      BY <1>3 DEF SchedTimeout, ConsideredCond, Considered, CondBlocked
    <3>3. QED
      BY <3>1, <3>2, TimeoutKeeps
  <2>3. QED
    BY <2>1, <2>2
<1>4. ASSUME NEW t \in Thread, SchedTimeoutLocked(t) PROVE CondInv'
  <2>1. /\ CondBlocked(t) /\ phase # "panic" /\ blocked_by[t].timed /\ TimedOut(t)
        /\ blocked_by' = [blocked_by EXCEPT ![t] = Blk("Mutex", CondMutex(t), FALSE)]
        /\ UNCHANGED call
    BY <1>4 DEF SchedTimeoutLocked, ConsideredCond, Considered, CondBlocked
  <2>2. Blk("Mutex", CondMutex(t), FALSE).kind # "Condition"
    BY DEF Blk
  <2>3. QED
    BY <2>1, <2>2, TimeoutKeeps
<1>5. QED
  BY <1>1, <1>2, <1>3, <1>4, SchedConditionKeeps DEF CondStepTaken

LEMMA CondInvInit == Init => CondInv
<1> SUFFICES ASSUME Init PROVE CondInv
  OBVIOUS
<1>1. \A t \in Thread : ~CondBlocked(t) /\ ~InCondWait(t)
  BY DEF Init, ThreadInit, NotBlocked, Blk, NoCall, Cl, CondBlocked, InCondWait, WaitCalls
<1>2. \A c \in Conds : /\ conds[c].waiting = <<>> /\ conds[c].waking = <<>>
                       /\ conds[c].timed_out = {}
  BY DEF Init, CondInit, FreshCond
<1>3. NoDup(<<>>) /\ \A t \in Thread : ~Queued(<<>>, t)
  BY EmptySeq, EmptyQueue
<1>4. QED
  BY <1>1, <1>2, <1>3 DEF CondInv, Proper, StandersBlocked, Stands, WaitLink

LEMMA CondInvAlways == Spec => []CondInv
  BY LoopInvAlways, CondInvInit, CondPreserved, PTL DEF Spec

(* The queues of a condition variable hold exactly the threads blocked on   *)
(* it, each once, for a guest that does not re-initialize one in use:      *)
(* signal, broadcast and timeout move or drop every waiter exactly once.   *)
THEOREM CondQueuesAreExact ==
  ASSUME "cond_reinit" \notin Misuse
  PROVE  Spec => []CondQueuesExact
<1>1. LockInv /\ CondInv => CondQueuesExact
  <2> SUFFICES ASSUME LockInv, CondInv, phase # "panic", NEW c \in Conds
               PROVE  LET q == conds[c].waiting \o conds[c].waking IN
                      /\ NoDup(q)
                      /\ \A t \in Thread : Queued(q, t) <=> (CondBlocked(t) /\ blocked_by[t].obj = c)
    BY DEF CondQueuesExact, NoDup, CondBlocked
  <2>1. conds[c].waiting \in Seq(Thread) /\ conds[c].waking \in Seq(Thread)
    BY CondFields DEF LockInv, CondLinks, CondTypeOK
  <2>2. Proper(conds[c]) /\ StandersBlocked(c)
    BY DEF CondInv
  <2>3. ASSUME NEW t \in Thread, CondBlocked(t), blocked_by[t].obj = c PROVE Stands(conds[c], t)
    BY <2>3 DEF LockInv, CondLinks, CondWaiter, CondLink, CondBlocked, Stands
  <2>4. QED
    BY <2>1, <2>2, <2>3, ConcatExact DEF Proper, StandersBlocked, Stands
<1>2. QED
  BY <1>1, LockInvAlways, CondInvAlways, PTL

(* A timed_out mark belongs to the pending pthread_cond_timedwait that      *)
(* timed out and nobody else, whatever the guest does: the assertions on   *)
(* timed_out in cond.rs and in the scheduler never fail.                   *)
THEOREM TimeoutsArePending == Spec => []TimeoutsPending
<1>1. CondInv => TimeoutsPending
  BY DEF CondInv, TimeoutsPending, Marked, CondBlocked
<1>2. QED
  BY <1>1, CondInvAlways, PTL

-----------------------------------------------------------------------------
(* The deadlock panic *)

Deadlocked == "No active threads, program has deadlocked!"

(* What the scan passes over: only a deadline could still free it. *)
Stuck(t) == t \notin active \/ suspended[t] > 0 \/ blocked_by[t].timed \/ StillBlocked(t)

(* Everyone the current scan has passed over is still stuck: nothing but    *)
(* the scan itself and the clock runs meanwhile.                           *)
ScanInv ==
  /\ phase = "sched" => \A i \in 0 .. scan - 1 : Stuck((current + 1 + i) % len)
  /\ phase # "panic" => panic = "none"
  /\ DeadlockIsReal

(* A step that ends in guest code, starts a scan, or panics over something  *)
(* else than a deadlock.                                                   *)
NoScanStep ==
  \/ phase' = "guest" /\ panic' = panic
  \/ phase' = "sched" /\ scan' = 0 /\ panic' = panic
  \/ phase' = "panic" /\ panic' # Deadlocked

LEMMA NoScanKeeps ==
  ASSUME ScanInv, phase # "panic", NoScanStep
  PROVE  ScanInv'
<1>1. panic = "none" /\ panic # Deadlocked
  BY DEF ScanInv, Deadlocked
<1>2. phase' # "panic" => panic' = "none"
  BY <1>1 DEF NoScanStep
<1>3. panic' # Deadlocked
  BY <1>1 DEF NoScanStep
<1>4. ASSUME phase' = "sched" PROVE 0 .. scan' - 1 = {}
  BY <1>4 DEF NoScanStep
<1>5. QED
  BY <1>2, <1>3, <1>4 DEF ScanInv, DeadlockIsReal, Deadlocked

(* Whatever guest code calls ends its scan-free step that way. *)
LEMMA GuestStepNoScan ==
  ASSUME Next, ~Schedule, ~Panicked, \A t \in Thread : ~TimePasses(t)
  PROVE  phase = "guest" /\ NoScanStep
<1>1. ASSUME phase = "guest", UNCHANGED runVars PROVE phase = "guest" /\ NoScanStep
  BY <1>1 DEF runVars, NoScanStep
<1>2. ASSUME phase = "guest", NEW b, NEW c, Yield(b, c) PROVE phase = "guest" /\ NoScanStep
  BY <1>2 DEF Yield, NoScanStep
<1>3. ASSUME phase = "guest", UNCHANGED threadVars PROVE phase = "guest" /\ NoScanStep
  BY <1>1, <1>3 DEF threadVars, runVars
<1>4. ASSUME phase = "guest", Return PROVE phase = "guest" /\ NoScanStep
  BY <1>1, <1>4 DEF Return
<1>5. CASE ThreadNext
  <2>1. ASSUME NEW fn, NEW count, pthread_create(fn, count) PROVE phase = "guest" /\ NoScanStep
    BY <1>1, <2>1 DEF pthread_create, Calls
  <2>2. CASE ThreadExit \/ Preempt
    BY <2>2 DEF ThreadExit, Preempt, NoScanStep
  <2>3. CASE ReturnFromJoin
    BY <1>4, <2>3 DEF ReturnFromJoin
  <2>4. CASE sleep
    BY <1>2, <2>4 DEF sleep, Calls
  <2>5. ASSUME NEW j \in Thread, pthread_join(j) PROVE phase = "guest" /\ NoScanStep
    <3>1. CASE Panic("pthread_join: joinee is the main thread")
      BY <2>5, <3>1 DEF pthread_join, Calls, Panic, NoScanStep, Deadlocked
    <3>2. CASE Yield(Blk("Joining", j, FALSE), Cl("join", j, -1))
      BY <1>2, <2>5, <3>2 DEF pthread_join, Calls
    <3>3. QED
      BY <2>5, <3>1, <3>2 DEF pthread_join
  <2>6. ASSUME NEW j \in Thread, pthread_detach(j) PROVE phase = "guest" /\ NoScanStep
    BY <1>3, <2>6 DEF pthread_detach, Calls
  <2>7. ASSUME NEW j \in Thread, thread_resume(j) PROVE phase = "guest" /\ NoScanStep
    BY <1>1, <2>7 DEF thread_resume, Calls
  <2>8. ASSUME NEW j \in Thread, thread_suspend(j) PROVE phase = "guest" /\ NoScanStep
    BY <2>8 DEF thread_suspend, Calls, NoScanStep
  <2>9. QED
    BY <1>5, <2>1, <2>2, <2>3, <2>4, <2>5, <2>6, <2>7, <2>8 DEF ThreadNext
<1>6. CASE MutexNext
  <2>1. ASSUME NEW m, NEW tab, LockMutex(m, tab), phase = "guest"
        PROVE  phase = "guest" /\ NoScanStep
    BY <1>2, <1>3, <2>1 DEF LockMutex
  <2>2. ASSUME NEW p \in PMutexes, pthread_mutex_lock(p) \/ pthread_mutex_trylock(p)
        PROVE  phase = "guest" /\ NoScanStep
    BY <1>3, <2>1, <2>2 DEF pthread_mutex_lock, pthread_mutex_trylock, Calls
  <2>3. ASSUME NEW p \in PMutexes, NEW type \in PTypes,
               pthread_mutex_init(p, type) \/ pthread_mutex_unlock(p) \/ pthread_mutex_destroy(p)
        PROVE  phase = "guest" /\ NoScanStep
    BY <1>3, <2>3 DEF pthread_mutex_init, pthread_mutex_unlock, pthread_mutex_destroy, Calls
  <2>4. ASSUME NEW p \in PMutexes, pthread_mutex_unlock(p) \/ pthread_mutex_destroy(p)
        PROVE  phase = "guest" /\ NoScanStep
    BY <1>3, <2>4 DEF pthread_mutex_unlock, pthread_mutex_destroy, Calls
  <2>5. CASE ReturnFromLock
    BY <1>4, <2>5 DEF ReturnFromLock
  <2>6. QED
    BY <1>6, <2>2, <2>3, <2>4, <2>5 DEF MutexNext
<1>7. CASE CondNext
  <2>1. ASSUME NEW c \in Conds, NEW p \in PMutexes, NEW fn, Wait(c, p, fn), phase = "guest"
        PROVE  phase = "guest" /\ NoScanStep
    <3>1. CASE Panic("pthread_cond_wait: waiters use different mutexes")
      BY <2>1, <3>1 DEF Panic, NoScanStep, Deadlocked
    <3>2. QED
      BY <1>2, <1>3, <2>1, <3>1 DEF Wait
  <2>2. ASSUME NEW c \in Conds, pthread_cond_destroy(c) PROVE phase = "guest" /\ NoScanStep
    <3>1. CASE Panic("pthread_cond_destroy: threads are waiting")
      BY <2>2, <3>1 DEF pthread_cond_destroy, Calls, Panic, NoScanStep, Deadlocked
    <3>2. QED
      BY <1>3, <2>2, <3>1 DEF pthread_cond_destroy, Calls
  <2>3. CASE ReturnFromWait
    <3>1. CASE Panic("pthread_cond_wait: unwrap or assertion failed")
      BY <2>3, <3>1 DEF ReturnFromWait, Panic, NoScanStep, Deadlocked
    <3>2. QED
      BY <1>4, <2>3, <3>1 DEF ReturnFromWait
  <2>4. ASSUME NEW c \in Conds,
               pthread_cond_init(c) \/ pthread_cond_signal(c) \/ pthread_cond_broadcast(c)
        PROVE  phase = "guest" /\ NoScanStep
    BY <1>3, <2>4 DEF pthread_cond_init, pthread_cond_signal, pthread_cond_broadcast, Calls
  <2>5. QED
    BY <1>7, <2>1, <2>2, <2>3, <2>4 DEF CondNext, pthread_cond_wait, pthread_cond_timedwait, Calls
<1>8. CASE SemNext
  <2>1. ASSUME NEW s \in SemPtr, sem_wait(s) PROVE phase = "guest" /\ NoScanStep
    BY <1>2, <1>3, <2>1 DEF sem_wait, Decrement, Calls
  <2>2. CASE ReturnFromSemWait
    BY <1>4, <2>2 DEF ReturnFromSemWait
  <2>3. QED
    BY <1>3, <1>8, <2>1, <2>2
       DEF SemNext, sem_init, sem_destroy, sem_open_new, sem_open_existing, sem_post,
           sem_trywait, Decrement, sem_close, sem_unlink, Calls
<1>9. QED
  BY <1>5, <1>6, <1>7, <1>8 DEF Next

-----------------------------------------------------------------------------
(* The ring: candidate i of a scan is a thread, and a full scan meets all.  *)
LEMMA RingStep ==
  ASSUME NEW n \in Nat \ {0}, NEW c \in 0 .. n - 1, NEW i \in Nat
  PROVE  (c + 1 + i) % n \in 0 .. n - 1
  OBVIOUS

LEMMA RingCovers ==
  ASSUME NEW n \in Nat \ {0}, NEW c \in 0 .. n - 1, NEW t \in 0 .. n - 1
  PROVE  \E i \in 0 .. n - 1 : (c + 1 + i) % n = t
<1>1. t % n = t
  OBVIOUS
<1>2. (t + n) % n = t
  OBVIOUS
<1>3. CASE t > c
  <2>1. t - c - 1 \in 0 .. n - 1 /\ c + 1 + (t - c - 1) = t
    BY <1>3
  <2>2. QED
    BY <1>1, <2>1
<1>4. CASE t <= c
  <2>1. t - c - 1 + n \in 0 .. n - 1 /\ c + 1 + (t - c - 1 + n) = t + n
    BY <1>4
  <2>2. QED
    BY <1>2, <2>1
<1>5. QED
  BY <1>3, <1>4

(* A candidate's mutex is taken when its deadline has passed: it goes to   *)
(* wait for the mutex, and nobody else gets any closer to running.         *)
LEMMA TimeoutLockedKeepsStuck ==
  ASSUME RunInv, LockInv, TypeInv, NEW t \in Thread, SchedTimeoutLocked(t)
  PROVE  /\ Stuck(t)'
         /\ \A u \in Thread : Stuck(u) => Stuck(u)'
<1> DEFINE c == blocked_by[t].obj
           m == CondMutex(t)
<1>1. /\ DOMAIN blocked_by = Thread /\ conds \in [Conds -> CondObject]
      /\ blocked_by \in [Thread -> Block]
  BY DEF RunInv, TableOK, LockInv, CondLinks, CondTypeOK, TypeInv, LoopTypes
<1>2. /\ blocked_by[t].kind = "Condition" /\ IsLocked(mutexes[m])
      /\ conds' = [conds EXCEPT ![c] = GivenUp(conds[c], t)]
      /\ blocked_by' = [blocked_by EXCEPT ![t] = Blk("Mutex", m, FALSE)]
      /\ UNCHANGED <<active, suspended, expired, mutexes, open_semaphores, host_sems>>
  BY DEF SchedTimeoutLocked, ConsideredCond, TimedOut, mutexVars, semVars
<1>3. \A u \in Thread : blocked_by[u].kind = "Condition" => blocked_by[u].obj \in Conds
  BY DEF LockInv, MutexInv, Links, Link
<1>4. conds'[c].curr_mutex = m /\ \A d \in Conds : d # c => conds'[d] = conds[d]
  BY <1>1, <1>2, <1>3 DEF GivenUp, CondMutex, CondObject
<1>5. Stuck(t)'
  <2>1. blocked_by'[t] = Blk("Mutex", m, FALSE)
    BY <1>1, <1>2
  <2>2. QED
    <3>1. blocked_by'[t].kind = "Mutex" /\ blocked_by'[t].obj = m
      BY <2>1 DEF Blk
    <3>2. StillBlocked(t)' = IsLocked(mutexes'[m])
      BY <3>1 DEF StillBlocked
    <3>3. QED
      BY <1>2, <3>2 DEF Stuck
<1>6. ASSUME NEW u \in Thread, Stuck(u) PROVE Stuck(u)'
  <2>1. CASE u = t
    BY <1>5, <2>1
  <2>2. CASE u # t
    <3>1. blocked_by'[u] = blocked_by[u]
      BY <1>1, <1>2, <2>2
    <3>2. CASE blocked_by[u].kind = "Condition" /\ StillBlocked(u)
      <4>1. CondMutex(u) # NoMutex /\ ~CondReady(u) /\ ~(blocked_by[u].timed /\ u \in expired)
        BY <3>2 DEF StillBlocked
      <4>2. CondMutex(u)' = CondMutex(u)
        BY <1>3, <1>4, <3>1, <3>2 DEF CondMutex
      <4>3. ~CondReady(u)'
        <5>1. CASE blocked_by[u].obj = c
          BY <1>2, <4>2, <5>1 DEF CondReady, CondMutex
        <5>2. CASE blocked_by[u].obj # c
          BY <1>2, <1>3, <1>4, <3>1, <3>2, <4>1, <4>2, <5>2 DEF CondReady, FirstSignalled
        <5>3. QED
          BY <5>1, <5>2
      <4>4. StillBlocked(u)'
        BY <1>2, <3>1, <3>2, <4>1, <4>2, <4>3 DEF StillBlocked
      <4>5. QED
        BY <4>4 DEF Stuck
    <3>3. CASE blocked_by[u].kind # "Condition" /\ StillBlocked(u)
      <4>1. blocked_by[u].kind \in BlockKind
        BY <1>1 DEF Block
      <4>2. StillBlocked(u)'
        <5>1. Open(blocked_by[u].obj)' <=> Open(blocked_by[u].obj)
          BY <1>2, <3>1 DEF Open
        <5>2. (ObjOf(blocked_by[u].obj).value <= 0)' <=> (ObjOf(blocked_by[u].obj).value <= 0)
          BY <1>2, <3>1 DEF ObjOf
        <5>3. CASE blocked_by[u].kind = "Semaphore"
          BY <3>1, <3>3, <5>1, <5>2, <5>3 DEF StillBlocked
        <5>4. CASE blocked_by[u].kind = "NotBlocked"
          BY <3>3, <5>4 DEF StillBlocked
        <5>5. CASE blocked_by[u].kind = "Sleeping"
          BY <1>2, <3>1, <3>3, <5>5 DEF StillBlocked
        <5>6. CASE blocked_by[u].kind = "Mutex"
          BY <1>2, <3>1, <3>3, <5>6 DEF StillBlocked
        <5>7. CASE blocked_by[u].kind = "Joining"
          <6>1. StillBlocked(u) = (blocked_by[u].obj \in active)
            BY <5>7 DEF StillBlocked
          <6>2. StillBlocked(u)' = (blocked_by[u].obj \in active)
            BY <1>2, <3>1, <5>7 DEF StillBlocked
          <6>3. QED
            BY <3>3, <6>1, <6>2
        <5>8. QED
          BY <3>3, <4>1, <5>3, <5>4, <5>5, <5>6, <5>7 DEF BlockKind
      <4>3. QED
        BY <4>2 DEF Stuck
    <3>4. QED
      BY <1>2, <1>6, <3>1, <3>2, <3>3 DEF Stuck
  <2>3. QED
    BY <2>1, <2>2
<1>7. QED
  BY <1>5, <1>6

(* Time passing frees nobody the scan has passed over: Stuck already allows *)
(* for the deadline.                                                       *)
LEMMA TimeKeepsStuck ==
  ASSUME NEW t \in Thread, TimePasses(t), NEW u \in Thread, blocked_by[u].kind \in BlockKind,
         Stuck(u)
  PROVE  Stuck(u)'
<1>1. /\ UNCHANGED <<active, suspended, blocked_by, conds, mutexes, open_semaphores, host_sems>>
      /\ blocked_by[t].timed /\ expired' = expired \cup {t}
  BY DEF TimePasses, syncVars, mutexVars, semVars
<1>2. CASE blocked_by[u].timed
  BY <1>1, <1>2 DEF Stuck
<1>3. CASE ~blocked_by[u].timed /\ StillBlocked(u)
  <2>1. u # t
    BY <1>1, <1>3
  <2>2. StillBlocked(u)'
    BY <1>1, <1>3, <2>1
       DEF StillBlocked, Open, ObjOf, BlockKind, CondReady, CondMutex, FirstSignalled
  <2>3. QED
    BY <2>2 DEF Stuck
<1>4. QED
  BY <1>1, <1>2, <1>3 DEF Stuck

LEMMA ScanInvInit == Init => ScanInv
  BY DEF Init, ThreadInit, ScanInv, DeadlockIsReal

LEMMA ScanPreserved ==
  ASSUME RunInv, LockInv, TypeInv, ScanInv, [Next]_vars
  PROVE  ScanInv'
<1> DEFINE Cand(i) == (current + 1 + i) % len
<1>1. /\ len \in Nat \ {0} /\ current \in 0 .. len - 1 /\ 0 .. len - 1 \subseteq Thread
      /\ scan \in 0 .. len /\ blocked_by \in [Thread -> Block] /\ suspended \in [Thread -> Nat]
      /\ active \subseteq 0 .. len - 1
  <2>1. /\ scan \in 0 .. len /\ blocked_by \in [Thread -> Block]
    BY DEF TypeInv, LoopTypes
  <2>2. /\ len \in 1 .. MaxThreads /\ current \in Thread /\ current < len
        /\ suspended \in [Thread -> Nat] /\ active \subseteq 0 .. len - 1
    BY DEF RunInv, TableOK
  <2>3. len \in Nat \ {0} /\ current \in 0 .. len - 1
    BY <2>2, MaxThreadsAssumption DEF Thread
  <2>4. \A t \in 0 .. len - 1 : t \in Thread
    BY <2>2, MaxThreadsAssumption DEF Thread
  <2>5. QED
    BY <2>1, <2>2, <2>3, <2>4
<1>2. \A i \in Nat : Cand(i) \in Thread
  BY <1>1, RingStep
<1>3. \A u \in Thread : blocked_by[u].kind \in BlockKind
  BY <1>1 DEF Block
<1>4. CASE UNCHANGED vars
  <2>1. /\ UNCHANGED <<len, current, active, suspended, blocked_by, expired, phase, scan, panic>>
        /\ UNCHANGED <<conds, mutexes, open_semaphores, host_sems>>
    BY <1>4 DEF vars, threadVars, runVars, syncVars, mutexVars, semVars
  <2>2. \A u : StillBlocked(u)' <=> StillBlocked(u)
    BY <2>1 DEF StillBlocked, Open, ObjOf, CondReady, CondMutex, FirstSignalled
  <2>3. QED
    BY <2>1, <2>2 DEF ScanInv, Stuck, DeadlockIsReal
<1>5. ASSUME NEW t \in Thread, TimePasses(t) PROVE ScanInv'
  <2>1. UNCHANGED <<len, current, phase, scan, panic>> /\ phase # "panic"
    BY <1>5 DEF TimePasses, runVars
  <2>2. \A u \in Thread : Stuck(u) => Stuck(u)'
    BY <1>3, <1>5, TimeKeepsStuck
  <2>3. panic' = "none"
    BY <2>1 DEF ScanInv
  <2>4. ASSUME phase = "sched", NEW i \in 0 .. scan - 1
        PROVE  \E u \in Thread : u = Cand(i) /\ Stuck(u)'
    <3>1. Cand(i) \in Thread /\ Stuck(Cand(i))
      BY <1>2, <2>4 DEF ScanInv
    <3>2. QED
      BY <2>2, <3>1
  <2>5. QED
    BY <2>1, <2>3, <2>4 DEF ScanInv, DeadlockIsReal
<1>6. CASE Schedule
  <2>1. phase = "sched" /\ panic = "none"
    BY <1>6 DEF Schedule, SchedRunnable, SchedSlept, SchedMutex, SchedSemaphoreGone, SchedSemaphore,
           SchedCondLost, SchedCondition, SchedTimeout, SchedTimeoutLocked, SchedJoined,
           ConsideredCond, Considered, SchedSkip, SchedRetry, SchedDeadlock, ScanInv
  <2>2. ASSUME NEW t, NEW m, RelockFor(t, m) PROVE NoScanStep
    BY <2>2 DEF RelockFor, SwitchTo, Panic, NoScanStep, Deadlocked
  <2>3. ASSUME NEW t \in Thread,
               \/ SchedRunnable(t) \/ SchedSlept(t) \/ SchedMutex(t)
               \/ SchedSemaphoreGone(t) \/ SchedSemaphore(t)
               \/ SchedCondLost(t) \/ SchedCondition(t) \/ SchedTimeout(t) \/ SchedJoined(t)
        PROVE  NoScanStep
    <3>1. CASE SwitchTo(t)
      BY <3>1 DEF SwitchTo, NoScanStep
    <3>2. CASE SchedCondLost(t)
      BY <3>2 DEF SchedCondLost, Panic, NoScanStep, Deadlocked
    <3>3. QED
      BY <2>2, <2>3, <3>1, <3>2
         DEF SchedRunnable, SchedSlept, SchedMutex, SchedSemaphoreGone, SchedSemaphore,
             SchedCondition, SchedTimeout, SchedJoined
  <2>4. ASSUME NEW t \in Thread, SchedTimeoutLocked(t) PROVE ScanInv'
    <3>1. /\ UNCHANGED <<len, current, phase, panic>> /\ scan' = scan + 1
          /\ t = Cand(scan)
      BY <2>4 DEF SchedTimeoutLocked, ConsideredCond, Considered, Candidate
    <3>2. Stuck(t)' /\ \A u \in Thread : Stuck(u) => Stuck(u)'
      BY <2>4, TimeoutLockedKeepsStuck
    <3>3. ASSUME NEW i \in 0 .. scan' - 1 PROVE \E u \in Thread : u = Cand(i) /\ Stuck(u)'
      <4>1. CASE i = scan
        BY <3>1, <3>2, <4>1
      <4>2. CASE i # scan
        <5>1. i \in 0 .. scan - 1
          BY <1>1, <3>1, <3>3, <4>2
        <5>2. Cand(i) \in Thread /\ Stuck(Cand(i))
          BY <1>2, <2>1, <5>1 DEF ScanInv
        <5>3. QED
          BY <3>2, <5>2
      <4>3. QED
        BY <4>1, <4>2
    <3>4. QED
      BY <2>1, <3>1, <3>3 DEF ScanInv, DeadlockIsReal
  <2>5. CASE SchedSkip
    <3>1. /\ UNCHANGED <<len, current, active, suspended, blocked_by, expired, phase, panic>>
          /\ UNCHANGED <<conds, mutexes, open_semaphores, host_sems>>
          /\ scan' = scan + 1 /\ Stuck(Cand(scan))
      BY <2>5 DEF SchedSkip, Candidate, Stuck, syncVars, mutexVars, semVars
    <3>2. \A u : Stuck(u)' <=> Stuck(u)
      BY <3>1 DEF Stuck, StillBlocked, Open, ObjOf, CondReady, CondMutex, FirstSignalled
    <3>3. \A i \in 0 .. scan' - 1 : Stuck(Cand(i))
      BY <1>1, <2>1, <3>1 DEF ScanInv
    <3>4. QED
      BY <2>1, <3>1, <3>2, <3>3 DEF ScanInv, DeadlockIsReal, Stuck
  <2>6. CASE SchedRetry
    BY <2>1, <2>6, NoScanKeeps DEF SchedRetry, NoScanStep
  <2>7. CASE SchedDeadlock
    <3>1. /\ UNCHANGED <<active, suspended, blocked_by, expired>> /\ phase' = "panic" /\ scan = len
          /\ UNCHANGED <<conds, mutexes, open_semaphores, host_sems>> /\ ~SomeoneAsleep
      BY <2>7 DEF SchedDeadlock, syncVars, mutexVars, semVars
    <3>2. \A u : StillBlocked(u)' <=> StillBlocked(u)
      BY <3>1 DEF StillBlocked, Open, ObjOf, CondReady, CondMutex, FirstSignalled
    <3>3. ASSUME NEW u \in Thread, u \in active, ~(suspended[u] > 0)
          PROVE  StillBlocked(u) /\ ~blocked_by[u].timed
      <4>1. PICK i \in 0 .. len - 1 : Cand(i) = u
        BY <1>1, <3>3, RingCovers
      <4>2. Stuck(u)
        BY <1>1, <2>1, <3>1, <4>1 DEF ScanInv
      <4>3. ~blocked_by[u].timed
        BY <1>1, <3>1, <3>3 DEF SomeoneAsleep
      <4>4. QED
        BY <3>3, <4>2, <4>3 DEF Stuck
    <3>4. QED
      BY <3>1, <3>2, <3>3 DEF ScanInv, DeadlockIsReal
  <2>8. QED
    BY <1>6, <2>1, <2>3, <2>4, <2>5, <2>6, <2>7, NoScanKeeps DEF Schedule
<1>7. CASE Next /\ ~Schedule /\ ~Panicked /\ \A t \in Thread : ~TimePasses(t)
  BY <1>7, GuestStepNoScan, NoScanKeeps
<1>8. QED
  BY <1>4, <1>5, <1>6, <1>7 DEF Panicked

(* The deadlock panic is raised only when nobody can go on: every live      *)
(* thread is suspended, or waits for something that has not happened and   *)
(* for no deadline.  The scan takes one step per candidate, and neither    *)
(* the clock nor a timeout that has to queue for its mutex makes an        *)
(* earlier candidate runnable behind the scheduler's back.                 *)
THEOREM DeadlockPanicIsReal == Spec => []DeadlockIsReal
<1>1. ScanInv => DeadlockIsReal
  BY DEF ScanInv
<1>2. QED
  BY <1>1, LoopInvAlways, ScanInvInit, ScanPreserved, PTL DEF Spec

-----------------------------------------------------------------------------
(* Waiting counts *)

(* A guest that makes no condition wait.  The scheduler relocks a mutex for *)
(* a condition waiter that lock_mutex never counted, and one that timed    *)
(* out waits uncounted: no more is true with condition waits.              *)
NoCondCalls == "pthread_cond_wait" \notin Imports /\ "pthread_cond_timedwait" \notin Imports

NoCondWait == \A t \in Thread : ~CondBlocked(t) /\ ~InCondWait(t)

MutexBlocked(t) == blocked_by[t].kind = "Mutex"

(* waiting_count counts the threads blocked on a mutex, all of them on one *)
(* that exists.                                                            *)
AliveInv ==
  /\ \A t \in Thread : MutexBlocked(t) =>
       /\ blocked_by[t].obj \in MutexId /\ blocked_by[t].obj < mutex_count
       /\ mutexes[blocked_by[t].obj].live
  /\ \A m \in MutexId : mutexes[m].waiting_count = Cardinality(WaitersFor(m))
  /\ NoCondWait

LEMMA WaitersFinite ==
  ASSUME NEW m
  PROVE  IsFiniteSet(WaitersFor(m)) /\ Cardinality(WaitersFor(m)) \in Nat
<1>1. IsFiniteSet(0 .. MaxThreads - 1)
  BY MaxThreadsAssumption, FS_Interval
<1>2. WaitersFor(m) \subseteq 0 .. MaxThreads - 1
  BY DEF WaitersFor, Thread
<1>3. QED
  BY <1>1, <1>2, FS_Subset, FS_CardinalityType

LEMMA NoWaiters ==
  ASSUME NEW m, Cardinality(WaitersFor(m)) = 0, NEW t \in Thread, MutexBlocked(t)
  PROVE  blocked_by[t].obj # m
<1>1. WaitersFor(m) = {}
  BY WaitersFinite, FS_EmptySet
<1>2. QED
  BY <1>1 DEF WaitersFor, MutexBlocked

(* Nobody starts or stops waiting for a mutex. *)
SameWaiters ==
  \A t \in Thread : /\ MutexBlocked(t)' <=> MutexBlocked(t)
                    /\ MutexBlocked(t) => blocked_by'[t].obj = blocked_by[t].obj

(* Every count stays, and only a mutex nobody is counted for can go. *)
MutexesKept ==
  /\ mutex_count' \in Nat /\ mutex_count' >= mutex_count
  /\ \A m \in MutexId :
       /\ mutexes'[m].waiting_count = mutexes[m].waiting_count
       /\ mutexes[m].live => mutexes'[m].live \/ mutexes[m].waiting_count = 0

LEMMA AliveFrame ==
  ASSUME LockInv, AliveInv, SameWaiters, MutexesKept, NoCondWait'
  PROVE  AliveInv'
<1>1. mutex_count \in Nat
  BY PMutexAssumption DEF LockInv, MutexInv, LockTypes, MutexTypeOK
<1>2. ASSUME NEW t \in Thread, MutexBlocked(t)'
      PROVE  /\ blocked_by'[t].obj \in MutexId /\ blocked_by'[t].obj < mutex_count'
             /\ mutexes'[blocked_by'[t].obj].live
  <2>1. MutexBlocked(t) /\ blocked_by'[t].obj = blocked_by[t].obj
    BY <1>2 DEF SameWaiters
  <2>2. /\ blocked_by[t].obj \in MutexId /\ blocked_by[t].obj < mutex_count
        /\ mutexes[blocked_by[t].obj].live
        /\ mutexes[blocked_by[t].obj].waiting_count = Cardinality(WaitersFor(blocked_by[t].obj))
    BY <2>1 DEF AliveInv
  <2>3. mutexes[blocked_by[t].obj].waiting_count # 0
    BY <2>1, <2>2, NoWaiters
  <2>4. mutexes'[blocked_by[t].obj].live
    BY <2>2, <2>3 DEF MutexesKept
  <2>5. blocked_by[t].obj \in Int /\ mutex_count' \in Int /\ mutex_count' >= mutex_count
    BY <2>2, MutexIdIsInt DEF MutexesKept
  <2>6. blocked_by[t].obj < mutex_count'
    BY <1>1, <2>2, <2>5
  <2>7. QED
    BY <2>1, <2>2, <2>4, <2>6
<1>3. ASSUME NEW m \in MutexId PROVE mutexes'[m].waiting_count = Cardinality(WaitersFor(m))'
  <2>1. WaitersFor(m)' = WaitersFor(m)
    BY DEF SameWaiters, WaitersFor, MutexBlocked
  <2>2. Cardinality(WaitersFor(m))' = Cardinality(WaitersFor(m))
    BY <2>1
  <2>3. QED
    BY <2>2 DEF AliveInv, MutexesKept
<1>4. QED
  BY <1>2, <1>3 DEF AliveInv

LEMMA MutexesAlone ==
  ASSUME LockInv, UNCHANGED mutexVars
  PROVE  MutexesKept
  BY PMutexAssumption DEF LockInv, MutexInv, LockTypes, MutexTypeOK, mutexVars, MutexesKept

-----------------------------------------------------------------------------
LEMMA AliveQuiet ==
  ASSUME LockInv, AliveInv, UNCHANGED <<blocked_by, call>>, MutexesKept
  PROVE  AliveInv'
<1>1. SameWaiters /\ NoCondWait'
  BY DEF SameWaiters, MutexBlocked, AliveInv, NoCondWait, CondBlocked, InCondWait
<1>2. QED
  BY <1>1, AliveFrame

LEMMA AliveYield ==
  ASSUME RunInv, LockInv, TypeInv, AliveInv, phase = "guest", UNCHANGED mutexVars,
         NEW b, NEW c, Yield(b, c), b.kind \notin {"Mutex", "Condition"}, c.fn \notin WaitCalls
  PROVE  AliveInv'
<1>1. /\ current \in Thread /\ ~MutexBlocked(current) /\ DOMAIN blocked_by = Thread
      /\ DOMAIN call = Thread
  BY DEF RunInv, TableOK, RunsOnlyRunnable, Blocked, MutexBlocked, TypeInv, LoopTypes
<1>2. /\ blocked_by'[current] = b /\ call'[current] = c
      /\ \A t \in Thread : t # current => blocked_by'[t] = blocked_by[t] /\ call'[t] = call[t]
  BY <1>1 DEF Yield
<1>3. SameWaiters
  BY <1>1, <1>2 DEF SameWaiters, MutexBlocked
<1>4. NoCondWait'
  BY <1>1, <1>2 DEF AliveInv, NoCondWait, CondBlocked, InCondWait
<1>5. QED
  BY <1>3, <1>4, AliveFrame, MutexesAlone

LEMMA AliveReturn ==
  ASSUME RunInv, LockInv, TypeInv, AliveInv, Return, MutexesKept
  PROVE  AliveInv'
<1>1. /\ current \in Thread /\ DOMAIN call = Thread /\ NoCall.fn \notin WaitCalls
      /\ UNCHANGED blocked_by /\ call' = [call EXCEPT ![current] = NoCall]
  BY DEF RunInv, TableOK, TypeInv, LoopTypes, NoCall, Cl, WaitCalls, Return
<1>2. SameWaiters
  BY <1>1 DEF SameWaiters, MutexBlocked
<1>3. NoCondWait'
  BY <1>1 DEF AliveInv, NoCondWait, CondBlocked, InCondWait
<1>4. QED
  BY <1>2, <1>3, AliveFrame

(* The scheduler wakes a thread that waited for something else. *)
LEMMA AliveWake ==
  ASSUME RunInv, LockInv, AliveInv, NEW t \in Thread, ~MutexBlocked(t), Wake(t),
         UNCHANGED mutexVars, \A u \in Thread : InCondWait(u)' <=> InCondWait(u)
  PROVE  AliveInv'
<1>1. DOMAIN blocked_by = Thread /\ NotBlocked.kind = "NotBlocked"
  BY DEF RunInv, TableOK, NotBlocked, Blk
<1>2. \A u \in Thread : blocked_by'[u] = IF u = t THEN NotBlocked ELSE blocked_by[u]
  BY <1>1 DEF Wake
<1>3. SameWaiters
  BY <1>1, <1>2 DEF SameWaiters, MutexBlocked
<1>4. NoCondWait'
  BY <1>1, <1>2 DEF AliveInv, NoCondWait, CondBlocked
<1>5. QED
  BY <1>3, <1>4, AliveFrame, MutexesAlone

-----------------------------------------------------------------------------
(* A mutex that check_or_register_mutex has just made has no waiters.      *)
LEMMA TableWaiting ==
  ASSUME LockInv, AliveInv, NEW p \in PMutexes, pmutex[p] # Garbage,
         pmutex[p] = Static => mutex_count < MaxMutexes
  PROVE  /\ IdOf(p) \in MutexId /\ Table(p) \in [MutexId -> Mutex] /\ Table(p)[IdOf(p)].live
         /\ \A n \in MutexId : /\ Table(p)[n].waiting_count = mutexes[n].waiting_count
                               /\ mutexes[n].live => Table(p)[n].live
<1>1. /\ IdOf(p) \in MutexId /\ Table(p) \in [MutexId -> Mutex] /\ Table(p)[IdOf(p)].live
      /\ \A n \in MutexId : n # IdOf(p) => Table(p)[n] = mutexes[n]
  BY RegisterSound DEF LockInv
<1>2. mutexes \in [MutexId -> Mutex] /\ mutex_count \in Nat
  BY PMutexAssumption DEF LockInv, MutexInv, LockTypes, MutexTypeOK
<1>3. Table(p)[IdOf(p)].waiting_count = mutexes[IdOf(p)].waiting_count
  <2>1. CASE pmutex[p] # Static
    BY <2>1 DEF Table
  <2>2. CASE pmutex[p] = Static
    <3>1. IdOf(p) = mutex_count /\ Table(p) = [mutexes EXCEPT ![mutex_count] = FreshMutex("NORMAL")]
      BY <2>2 DEF IdOf, Table
    <3>2. Table(p)[IdOf(p)].waiting_count = 0
      BY <1>1, <1>2, <3>1 DEF FreshMutex
    <3>3. WaitersFor(mutex_count) = {}
      <4>1. ASSUME NEW t \in Thread, MutexBlocked(t) PROVE blocked_by[t].obj # mutex_count
        BY <1>2, <4>1 DEF AliveInv
      <4>2. QED
        BY <4>1 DEF WaitersFor, MutexBlocked
    <3>4. Cardinality(WaitersFor(mutex_count)) = 0
      BY <3>3, FS_EmptySet
    <3>5. QED
      BY <1>1, <3>1, <3>2, <3>4 DEF AliveInv
  <2>3. QED
    BY <2>1, <2>2
<1>4. QED
  BY <1>1, <1>3

(* The host mutex of p is replaced by one that counts as many waiters. *)
LEMMA AliveUpdate ==
  ASSUME LockInv, AliveInv, NEW p \in PMutexes, pmutex[p] # Garbage,
         pmutex[p] = Static => mutex_count < MaxMutexes,
         mutex_count' = IF pmutex[p] = Static THEN mutex_count + 1 ELSE mutex_count,
         NEW r, mutexes' = [Table(p) EXCEPT ![IdOf(p)] = r],
         r.waiting_count = Table(p)[IdOf(p)].waiting_count,
         r.live \/ r.waiting_count = 0
  PROVE  MutexesKept
<1>1. mutex_count \in Nat
  BY PMutexAssumption DEF LockInv, MutexInv, LockTypes, MutexTypeOK
<1>2. mutex_count' \in Nat /\ mutex_count' >= mutex_count
  BY <1>1
<1>3. ASSUME NEW m \in MutexId
      PROVE  /\ mutexes'[m].waiting_count = mutexes[m].waiting_count
             /\ mutexes[m].live => mutexes'[m].live \/ mutexes[m].waiting_count = 0
  <2>1. CASE m = IdOf(p)
    BY <2>1, TableWaiting
  <2>2. CASE m # IdOf(p)
    BY <2>2, TableWaiting
  <2>3. QED
    BY <2>1, <2>2
<1>4. QED
  BY <1>2, <1>3 DEF MutexesKept

LEMMA RegisterKept ==
  ASSUME LockInv, AliveInv, NEW p \in PMutexes, pmutex[p] # Garbage,
         pmutex[p] = Static => mutex_count < MaxMutexes,
         mutex_count' = IF pmutex[p] = Static THEN mutex_count + 1 ELSE mutex_count,
         mutexes' = Table(p)
  PROVE  MutexesKept
<1>1. mutexes' = [Table(p) EXCEPT ![IdOf(p)] = Table(p)[IdOf(p)]]
  BY TableWaiting
<1>2. QED
  BY <1>1, AliveUpdate, TableWaiting

(* What an update does to the count of waiters. *)
LEMMA WaitingFields ==
  ASSUME NEW mx \in Mutex, NEW t \in Thread
  PROVE  /\ Unlocked(mx, t).waiting_count = mx.waiting_count /\ Unlocked(mx, t).live = mx.live
         /\ Locked(mx, t).live = mx.live
         /\ ~LockBlocks(mx, t) => Locked(mx, t).waiting_count = mx.waiting_count
         /\ LockBlocks(mx, t) => Locked(mx, t).waiting_count = mx.waiting_count + 1
<1>1. Unlocked(mx, t).waiting_count = mx.waiting_count
  BY DEF Mutex, Unlocked
<1>2. Unlocked(mx, t).live = mx.live
  BY DEF Mutex, Unlocked
<1>3. Locked(mx, t).live = mx.live
  BY LockedKeeps
<1>4. ~LockBlocks(mx, t) => Locked(mx, t).waiting_count = mx.waiting_count
  BY DEF Mutex, Locked, LockBlocks
<1>5. LockBlocks(mx, t) => Locked(mx, t).waiting_count = mx.waiting_count + 1
  BY DEF Mutex, Locked, LockBlocks
<1>6. QED
  BY <1>1, <1>2, <1>3, <1>4, <1>5

(* lock_mutex blocks: the caller is counted and waits. *)
LEMMA AliveBlocks ==
  ASSUME RunInv, LockInv, TypeInv, AliveInv, phase = "guest", NEW p \in PMutexes,
         CheckOrRegister(p), LockBlocks(Table(p)[IdOf(p)], current),
         mutexes' = [Table(p) EXCEPT ![IdOf(p)] = Locked(Table(p)[IdOf(p)], current)],
         Yield(Blk("Mutex", IdOf(p), FALSE), Cl("lock", IdOf(p), IdOf(p)))
  PROVE  AliveInv'
<1> DEFINE m == IdOf(p)
<1>1. /\ m \in MutexId /\ Table(p) \in [MutexId -> Mutex] /\ Table(p)[m].live
      /\ \A n \in MutexId : /\ Table(p)[n].waiting_count = mutexes[n].waiting_count
                            /\ mutexes[n].live => Table(p)[n].live
  BY TableWaiting DEF CheckOrRegister
<1>2. /\ current \in Thread /\ ~MutexBlocked(current) /\ DOMAIN blocked_by = Thread
      /\ DOMAIN call = Thread /\ mutex_count \in Nat
  BY PMutexAssumption DEF RunInv, TableOK, RunsOnlyRunnable, Blocked, MutexBlocked, TypeInv,
     LoopTypes, LockInv, MutexInv, LockTypes, MutexTypeOK
<1>3. /\ blocked_by'[current].kind = "Mutex" /\ blocked_by'[current].obj = m
      /\ call'[current].fn = "lock"
      /\ \A t \in Thread : t # current => blocked_by'[t] = blocked_by[t] /\ call'[t] = call[t]
  BY <1>2 DEF Yield, Blk, Cl
<1>4. /\ mutexes'[m].live /\ mutexes'[m].waiting_count = mutexes[m].waiting_count + 1
      /\ \A n \in MutexId : n # m => /\ mutexes'[n].waiting_count = mutexes[n].waiting_count
                                     /\ mutexes[n].live => mutexes'[n].live
  <2>1. mutexes'[m] = Locked(Table(p)[m], current)
    BY <1>1
  <2>2. \A n \in MutexId : n # m => mutexes'[n] = Table(p)[n]
    BY <1>1
  <2>3. Table(p)[m] \in Mutex
    BY <1>1
  <2>4. /\ Locked(Table(p)[m], current).live
        /\ Locked(Table(p)[m], current).waiting_count = Table(p)[m].waiting_count + 1
    BY <1>1, <1>2, <2>3, WaitingFields
  <2>5. QED
    BY <1>1, <2>1, <2>2, <2>4
<1>5. m < mutex_count' /\ mutex_count' >= mutex_count
  <2>1. pmutex[p] # Static => m < mutex_count
    BY RegisterSound DEF LockInv, CheckOrRegister
  <2>2. QED
    BY <1>2, <2>1 DEF CheckOrRegister, IdOf
<1>6. ASSUME NEW t \in Thread, MutexBlocked(t)'
      PROVE  /\ blocked_by'[t].obj \in MutexId /\ blocked_by'[t].obj < mutex_count'
             /\ mutexes'[blocked_by'[t].obj].live
  <2>1. CASE t = current
    BY <1>1, <1>3, <1>4, <1>5, <2>1
  <2>2. CASE t # current
    <3>1. blocked_by'[t] = blocked_by[t] /\ MutexBlocked(t)
      BY <1>3, <1>6, <2>2 DEF MutexBlocked
    <3>2. /\ blocked_by[t].obj \in MutexId /\ blocked_by[t].obj < mutex_count
          /\ mutexes[blocked_by[t].obj].live
      BY <3>1 DEF AliveInv
    <3>3. mutex_count' \in Int
      BY <1>2 DEF CheckOrRegister
    <3>4. blocked_by[t].obj < mutex_count'
      <4>1. blocked_by[t].obj \in Int
        BY <3>2, MutexIdIsInt
      <4>2. QED
        BY <1>2, <1>5, <3>2, <3>3, <4>1
    <3>5. mutexes'[blocked_by[t].obj].live
      BY <1>4, <3>2
    <3>6. QED
      BY <3>1, <3>2, <3>4, <3>5
  <2>3. QED
    BY <2>1, <2>2
<1>7. ASSUME NEW n \in MutexId PROVE mutexes'[n].waiting_count = Cardinality(WaitersFor(n))'
  <2>1. mutexes[n].waiting_count = Cardinality(WaitersFor(n))
    BY DEF AliveInv
  <2>2. CASE n = m
    <3>1. WaitersFor(n)' = WaitersFor(n) \cup {current}
      BY <1>2, <1>3, <2>2 DEF WaitersFor
    <3>2. current \notin WaitersFor(n)
      BY <1>2 DEF WaitersFor, MutexBlocked
    <3>3. Cardinality(WaitersFor(n) \cup {current}) = Cardinality(WaitersFor(n)) + 1
      BY <3>2, WaitersFinite, FS_AddElement
    <3>4. Cardinality(WaitersFor(n)') = Cardinality(WaitersFor(n)) + 1
      BY <3>1, <3>3, Zenon
    <3>5. QED
      BY <1>4, <2>1, <2>2, <3>4
  <2>3. CASE n # m
    <3>1. WaitersFor(n)' = WaitersFor(n)
      BY <1>2, <1>3, <2>3 DEF WaitersFor, MutexBlocked
    <3>2. Cardinality(WaitersFor(n))' = Cardinality(WaitersFor(n))
      BY <3>1
    <3>3. QED
      BY <1>4, <2>1, <2>3, <3>2
  <2>4. QED
    BY <2>2, <2>3
<1>8. NoCondWait'
  BY <1>2, <1>3 DEF AliveInv, NoCondWait, CondBlocked, InCondWait, WaitCalls
<1>9. QED
  BY <1>6, <1>7, <1>8 DEF AliveInv

(* relock_unblocked_mutex_for_thread takes the waiter it wakes off the count. *)
LEMMA AliveRelock ==
  ASSUME RunInv, LockInv, AliveInv, NEW t \in Thread, SchedMutex(t)
  PROVE  AliveInv'
<1> DEFINE m == blocked_by[t].obj
<1>1. MutexBlocked(t) /\ m \in MutexId /\ mutexes[m].live
  BY DEF SchedMutex, MutexBlocked, AliveInv
<1>2. /\ Wake(t) /\ UNCHANGED <<call, mutex_count>>
      /\ mutexes' = [mutexes EXCEPT ![m] = Relocked(mutexes[m], t)]
  BY <1>1 DEF SchedMutex, RelockFor
<1>3. /\ DOMAIN blocked_by = Thread /\ NotBlocked.kind = "NotBlocked"
      /\ mutexes \in [MutexId -> Mutex] /\ mutexes[m] \in Mutex
  BY <1>1 DEF RunInv, TableOK, NotBlocked, Blk, LockInv, MutexInv, LockTypes, MutexTypeOK
<1>4. \A u \in Thread : blocked_by'[u] = IF u = t THEN NotBlocked ELSE blocked_by[u]
  BY <1>2, <1>3 DEF Wake
<1>5. t \in WaitersFor(m) /\ mutexes[m].waiting_count = Cardinality(WaitersFor(m))
  BY <1>1 DEF WaitersFor, MutexBlocked, AliveInv
<1>6. Cardinality(WaitersFor(m) \ {t}) = Cardinality(WaitersFor(m)) - 1
  BY <1>5, WaitersFinite, FS_RemoveElement
<1>7. mutexes[m].waiting_count # 0 /\ mutexes[m].waiting_count \in Nat
  BY <1>1, <1>5, NoWaiters, WaitersFinite
<1>8. /\ mutexes'[m].live /\ mutexes'[m].waiting_count = mutexes[m].waiting_count - 1
      /\ \A n \in MutexId : n # m => mutexes'[n] = mutexes[n]
  <2>1. mutexes'[m] = Relocked(mutexes[m], t) /\ \A n \in MutexId : n # m => mutexes'[n] = mutexes[n]
    BY <1>1, <1>2, <1>3
  <2>2. Relocked(mutexes[m], t).live
    BY <1>1, <1>3, RelockedFields
  <2>3. Relocked(mutexes[m], t).waiting_count = mutexes[m].waiting_count - 1
    BY <1>3, <1>7 DEF Relocked, Mutex
  <2>4. QED
    BY <2>1, <2>2, <2>3
<1>9. ASSUME NEW u \in Thread, MutexBlocked(u)'
      PROVE  /\ blocked_by'[u].obj \in MutexId /\ blocked_by'[u].obj < mutex_count'
             /\ mutexes'[blocked_by'[u].obj].live
  <2>1. blocked_by'[u] = blocked_by[u] /\ MutexBlocked(u)
    BY <1>3, <1>4, <1>9 DEF MutexBlocked
  <2>2. QED
    BY <1>2, <1>8, <2>1 DEF AliveInv
<1>10. ASSUME NEW n \in MutexId PROVE mutexes'[n].waiting_count = Cardinality(WaitersFor(n))'
  <2>1. CASE n = m
    <3>1. WaitersFor(n)' = WaitersFor(n) \ {t}
      BY <1>3, <1>4 DEF WaitersFor
    <3>2. Cardinality(WaitersFor(n)') = Cardinality(WaitersFor(n)) - 1
      BY <1>6, <2>1, <3>1, Zenon
    <3>3. QED
      BY <1>5, <1>8, <2>1, <3>2
  <2>2. CASE n # m
    <3>1. WaitersFor(n)' = WaitersFor(n)
      BY <1>3, <1>4, <2>2 DEF WaitersFor
    <3>2. Cardinality(WaitersFor(n))' = Cardinality(WaitersFor(n))
      BY <3>1
    <3>3. QED
      BY <1>8, <2>2, <3>2 DEF AliveInv
  <2>3. QED
    BY <2>1, <2>2
<1>11. NoCondWait'
  BY <1>2, <1>3, <1>4 DEF AliveInv, NoCondWait, CondBlocked, InCondWait
<1>12. QED
  BY <1>9, <1>10, <1>11 DEF AliveInv

-----------------------------------------------------------------------------
LEMMA AliveThread ==
  ASSUME RunInv, LockInv, TypeInv, AliveInv, ThreadNext
  PROVE  AliveInv'
<1>1. UNCHANGED mutexVars
  BY DEF ThreadNext, pthread_create, ThreadExit, ReturnFromJoin, sleep, Preempt,
     pthread_join, pthread_detach, thread_suspend, thread_resume, TimePasses, syncVars
<1>2. ASSUME UNCHANGED <<blocked_by, call>> PROVE AliveInv'
  BY <1>1, <1>2, AliveQuiet, MutexesAlone
<1>3. CASE ReturnFromJoin
  BY <1>1, <1>3, AliveReturn, MutexesAlone DEF ReturnFromJoin
<1>4. CASE sleep
  BY <1>1, <1>4, AliveYield DEF sleep, Calls, Blk, NoCall, Cl, WaitCalls
<1>5. ASSUME NEW j \in Thread, pthread_join(j) PROVE AliveInv'
  <2>1. CASE Panic("pthread_join: joinee is the main thread")
    BY <1>2, <2>1 DEF Panic
  <2>2. CASE Yield(Blk("Joining", j, FALSE), Cl("join", j, -1))
    <3>1. /\ phase = "guest" /\ Blk("Joining", j, FALSE).kind \notin {"Mutex", "Condition"}
          /\ Cl("join", j, -1).fn \notin WaitCalls
      BY <1>5 DEF pthread_join, Calls, Blk, Cl, WaitCalls
    <3>2. QED
      BY <1>1, <2>2, <3>1, AliveYield
  <2>3. QED
    BY <1>5, <2>1, <2>2 DEF pthread_join
<1>6. QED
  BY <1>2, <1>3, <1>4, <1>5
     DEF ThreadNext, pthread_create, ThreadExit, Preempt, pthread_detach, thread_suspend,
         thread_resume, TimePasses, threadVars

LEMMA AliveMutex ==
  ASSUME RunInv, LockInv, TypeInv, AliveInv, MutexNext
  PROVE  AliveInv'
<1>1. ASSUME UNCHANGED threadVars, MutexesKept PROVE AliveInv'
  BY <1>1, AliveQuiet DEF threadVars
<1>2. current \in Thread
  BY DEF RunInv, TableOK
<1>3. ASSUME NEW p \in PMutexes, CheckOrRegister(p), LockMutex(IdOf(p), Table(p)), phase = "guest"
      PROVE  AliveInv'
  <2> DEFINE mx == Table(p)[IdOf(p)]
  <2>1. /\ mx \in Mutex /\ mx.live
    BY <1>3, TableWaiting DEF CheckOrRegister
  <2>2. mutexes' = [Table(p) EXCEPT ![IdOf(p)] = Locked(mx, current)]
    BY <1>3 DEF LockMutex
  <2>3. CASE LockBlocks(mx, current)
    <3>1. Yield(Blk("Mutex", IdOf(p), FALSE), Cl("lock", IdOf(p), IdOf(p)))
      BY <1>3, <2>3 DEF LockMutex
    <3>2. QED
      BY <1>3, <2>2, <2>3, <3>1, AliveBlocks
  <2>4. CASE ~LockBlocks(mx, current)
    <3>1. Locked(mx, current).live /\ Locked(mx, current).waiting_count = mx.waiting_count
      BY <1>2, <2>1, <2>4, WaitingFields
    <3>2. MutexesKept
      BY <1>3, <2>2, <3>1, AliveUpdate DEF CheckOrRegister
    <3>3. UNCHANGED threadVars
      BY <1>3, <2>4 DEF LockMutex
    <3>4. QED
      BY <1>1, <3>2, <3>3
  <2>5. QED
    BY <2>3, <2>4
<1>4. ASSUME NEW p \in PMutexes, pthread_mutex_lock(p) PROVE AliveInv'
  BY <1>3, <1>4 DEF pthread_mutex_lock, Calls
<1>5. ASSUME NEW p \in PMutexes, CheckOrRegister(p), mutexes' = Table(p) PROVE MutexesKept
  BY <1>5, RegisterKept DEF CheckOrRegister
<1>6. ASSUME NEW p \in PMutexes, pthread_mutex_trylock(p) PROVE AliveInv'
  BY <1>1, <1>3, <1>5, <1>6 DEF pthread_mutex_trylock, Calls
<1>7. ASSUME NEW p \in PMutexes, pthread_mutex_unlock(p) PROVE AliveInv'
  <2> DEFINE mx == Table(p)[IdOf(p)]
  <2>1. CheckOrRegister(p) /\ UNCHANGED threadVars
    BY <1>7 DEF pthread_mutex_unlock
  <2>2. /\ mx \in Mutex /\ mx.live
    BY <2>1, TableWaiting DEF CheckOrRegister
  <2>3. CASE UnlockFails(mx, current)
    BY <1>1, <1>5, <1>7, <2>1, <2>3 DEF pthread_mutex_unlock
  <2>4. CASE ~UnlockFails(mx, current)
    <3>1. mutexes' = [Table(p) EXCEPT ![IdOf(p)] = Unlocked(mx, current)]
      BY <1>7, <2>4 DEF pthread_mutex_unlock
    <3>2. Unlocked(mx, current).live /\ Unlocked(mx, current).waiting_count = mx.waiting_count
      BY <1>2, <2>2, WaitingFields
    <3>3. MutexesKept
      BY <2>1, <3>1, <3>2, AliveUpdate DEF CheckOrRegister
    <3>4. QED
      BY <1>1, <2>1, <3>3
  <2>5. QED
    BY <2>3, <2>4
<1>8. ASSUME NEW p \in PMutexes, pthread_mutex_destroy(p) PROVE AliveInv'
  <2> DEFINE mx == Table(p)[IdOf(p)]
  <2>1. /\ pmutex[p] # Garbage /\ (pmutex[p] = Static => mutex_count < MaxMutexes)
        /\ mutex_count' = IF pmutex[p] = Static THEN mutex_count + 1 ELSE mutex_count
        /\ UNCHANGED threadVars
    BY <1>8 DEF pthread_mutex_destroy
  <2>2. mx \in Mutex
    BY <2>1, TableWaiting
  <2>3. CASE DestroyFails(mx)
    <3>1. mutexes' = Table(p)
      BY <1>8, <2>3 DEF pthread_mutex_destroy
    <3>2. QED
      BY <1>1, <2>1, <3>1, RegisterKept
  <2>4. CASE ~DestroyFails(mx)
    <3>1. mutexes' = [Table(p) EXCEPT ![IdOf(p)] = Destroyed(mx)]
      BY <1>8, <2>4 DEF pthread_mutex_destroy
    <3>2. Destroyed(mx).waiting_count = mx.waiting_count /\ mx.waiting_count = 0
      BY <2>2, <2>4 DEF Destroyed, DestroyFails, Mutex
    <3>3. MutexesKept
      BY <2>1, <3>1, <3>2, AliveUpdate
    <3>4. QED
      BY <1>1, <2>1, <3>3
  <2>5. QED
    BY <2>3, <2>4
<1>9. ASSUME NEW p \in PMutexes, NEW type \in PTypes, pthread_mutex_init(p, type) PROVE AliveInv'
  <2>1. /\ mutexes' = [mutexes EXCEPT ![mutex_count] = FreshMutex(type)]
        /\ mutex_count' = mutex_count + 1 /\ mutex_count < MaxMutexes /\ UNCHANGED threadVars
    BY <1>9 DEF pthread_mutex_init
  <2>2. /\ mutexes \in [MutexId -> Mutex] /\ mutex_count \in Nat /\ mutex_count \in MutexId
    BY <2>1, PMutexAssumption DEF LockInv, MutexInv, LockTypes, MutexTypeOK, MutexId
  <2>3. WaitersFor(mutex_count) = {}
    <3>1. ASSUME NEW t \in Thread, MutexBlocked(t) PROVE blocked_by[t].obj # mutex_count
      BY <2>2, <3>1 DEF AliveInv
    <3>2. QED
      BY <3>1 DEF WaitersFor, MutexBlocked
  <2>4. mutexes[mutex_count].waiting_count = 0
    BY <2>2, <2>3, FS_EmptySet DEF AliveInv
  <2>5. mutexes'[mutex_count].waiting_count = 0 /\ mutexes'[mutex_count].live
    BY <2>1, <2>2 DEF FreshMutex
  <2>6. MutexesKept
    <3>1. mutex_count' \in Nat /\ mutex_count' >= mutex_count
      BY <2>1, <2>2
    <3>2. \A m \in MutexId : m # mutex_count => mutexes'[m] = mutexes[m]
      BY <2>1, <2>2
    <3>3. QED
      BY <2>4, <2>5, <3>1, <3>2 DEF MutexesKept
  <2>7. QED
    BY <1>1, <2>1, <2>6
<1>10. CASE ReturnFromLock
  <2>1. Return /\ UNCHANGED <<mutexes, mutex_count>>
    BY <1>10 DEF ReturnFromLock
  <2>2. MutexesKept
    BY <2>1, PMutexAssumption DEF LockInv, MutexInv, LockTypes, MutexTypeOK, MutexesKept
  <2>3. QED
    BY <2>1, <2>2, AliveReturn
<1>11. QED
  BY <1>4, <1>6, <1>7, <1>8, <1>9, <1>10 DEF MutexNext

LEMMA AliveCond ==
  ASSUME NoCondCalls, RunInv, LockInv, TypeInv, AliveInv, CondNext
  PROVE  AliveInv'
<1>1. current \in Thread /\ ~InCondWait(current)
  BY DEF RunInv, TableOK, AliveInv, NoCondWait
<1>2. ~ReturnFromWait
  BY <1>1 DEF ReturnFromWait, InCondWait, WaitCalls
<1>3. \A c \in Conds, p \in PMutexes : ~pthread_cond_wait(c, p) /\ ~pthread_cond_timedwait(c, p)
  BY DEF NoCondCalls, pthread_cond_wait, pthread_cond_timedwait, Calls
<1>4. UNCHANGED <<mutexVars, blocked_by, call>>
  BY <1>2, <1>3
     DEF CondNext, pthread_cond_init, pthread_cond_signal, pthread_cond_broadcast,
         pthread_cond_destroy, Panic, threadVars
<1>5. QED
  BY <1>4, AliveQuiet, MutexesAlone

LEMMA AliveSem ==
  ASSUME RunInv, LockInv, TypeInv, AliveInv, SemNext, UNCHANGED mutexVars
  PROVE  AliveInv'
<1>1. ASSUME UNCHANGED threadVars PROVE AliveInv'
  BY <1>1, AliveQuiet, MutexesAlone DEF threadVars
<1>2. ASSUME NEW s \in SemPtr, sem_wait(s) PROVE AliveInv'
  <2>1. CASE Yield(Blk("Semaphore", s, FALSE), Cl("sem_wait", s, NoSem))
    <3>1. /\ phase = "guest" /\ Blk("Semaphore", s, FALSE).kind \notin {"Mutex", "Condition"}
          /\ Cl("sem_wait", s, NoSem).fn \notin WaitCalls
      BY <1>2 DEF sem_wait, Calls, Blk, Cl, WaitCalls
    <3>2. QED
      BY <2>1, <3>1, AliveYield
  <2>2. QED
    BY <1>1, <1>2, <2>1 DEF sem_wait, Decrement
<1>3. CASE ReturnFromSemWait
  BY <1>3, AliveReturn, MutexesAlone DEF ReturnFromSemWait
<1>4. QED
  BY <1>1, <1>2, <1>3
     DEF SemNext, sem_init, sem_destroy, sem_open_new, sem_open_existing, sem_post,
         sem_trywait, Decrement, sem_close, sem_unlink

LEMMA AliveSched ==
  ASSUME RunInv, LockInv, TypeInv, AliveInv, Schedule
  PROVE  AliveInv'
<1>1. ASSUME UNCHANGED <<mutexVars, blocked_by, call>> PROVE AliveInv'
  BY <1>1, AliveQuiet, MutexesAlone
<1>2. \A t \in Thread : blocked_by[t].kind # "Condition"
  BY DEF AliveInv, NoCondWait, CondBlocked
<1>3. ASSUME NEW t \in Thread, SchedRunnable(t) PROVE AliveInv'
  BY <1>1, <1>3 DEF SchedRunnable, syncVars
<1>4. ASSUME NEW t \in Thread, SchedSlept(t) \/ SchedSemaphoreGone(t) \/ SchedJoined(t)
      PROVE  AliveInv'
  <2>1. ~MutexBlocked(t) /\ Wake(t) /\ UNCHANGED <<call, mutexVars>>
    BY <1>4 DEF SchedSlept, SchedSemaphoreGone, SchedJoined, MutexBlocked, syncVars
  <2>2. \A u \in Thread : InCondWait(u)' <=> InCondWait(u)
    BY <2>1 DEF InCondWait
  <2>3. QED
    BY <2>1, <2>2, AliveWake
<1>5. ASSUME NEW t \in Thread, SchedSemaphore(t) PROVE AliveInv'
  <2>1. /\ ~MutexBlocked(t) /\ Wake(t) /\ UNCHANGED mutexVars
        /\ call' = [call EXCEPT ![t].aux = open_semaphores[blocked_by[t].obj]]
        /\ call \in [Thread -> Call]
    BY <1>5 DEF SchedSemaphore, MutexBlocked, TypeInv, LoopTypes
  <2>2. \A u \in Thread : call'[u].fn = call[u].fn
    BY <2>1 DEF Call
  <2>3. \A u \in Thread : InCondWait(u)' <=> InCondWait(u)
    BY <2>2 DEF InCondWait
  <2>4. QED
    BY <2>1, <2>3, AliveWake
<1>6. ASSUME NEW t \in Thread
      PROVE  ~SchedCondLost(t) /\ ~SchedCondition(t) /\ ~SchedTimeout(t) /\ ~SchedTimeoutLocked(t)
  BY <1>2 DEF SchedCondLost, SchedCondition, SchedTimeout, SchedTimeoutLocked, ConsideredCond
<1>7. CASE SchedSkip \/ SchedRetry \/ SchedDeadlock
  BY <1>1, <1>7 DEF SchedSkip, SchedRetry, SchedDeadlock, syncVars
<1>8. QED
  BY <1>3, <1>4, <1>5, <1>6, <1>7, AliveRelock DEF Schedule

LEMMA AliveInit == Init => AliveInv
<1> SUFFICES ASSUME Init PROVE AliveInv
  OBVIOUS
<1>1. \A t \in Thread : blocked_by[t].kind = "NotBlocked" /\ call[t].fn = "none"
  BY DEF Init, ThreadInit, NotBlocked, Blk, NoCall, Cl
<1>2. \A m \in MutexId : WaitersFor(m) = {}
  BY <1>1 DEF WaitersFor
<1>3. \A m \in MutexId : Cardinality(WaitersFor(m)) = 0
  BY <1>2, FS_EmptySet
<1>4. \A m \in MutexId : mutexes[m].waiting_count = 0
  BY DEF Init, MutexInit, NoMutexYet, FreshMutex
<1>5. QED
  BY <1>1, <1>3, <1>4 DEF AliveInv, MutexBlocked, NoCondWait, CondBlocked, InCondWait, WaitCalls

LEMMA AlivePreserved ==
  ASSUME NoCondCalls, RunInv, LockInv, TypeInv, AliveInv, [Next]_vars
  PROVE  AliveInv'
<1>1. CASE UNCHANGED vars
  BY <1>1, AliveQuiet, MutexesAlone DEF vars, threadVars, syncVars
<1>2. QED
  BY <1>1, AliveThread, AliveMutex, AliveCond, AliveSem, AliveSched DEF Next, Panicked

(* For a program that makes no condition wait, nobody ever waits for a      *)
(* mutex that is gone: waiting_count is exactly the number of threads      *)
(* blocked in lock_mutex, so destroy_mutex answers EBUSY while there is    *)
(* one, through suspension, thread exit and reused addresses.              *)
THEOREM MutexWaitersAreSafe ==
  ASSUME NoCondCalls
  PROVE  Spec => []WaitersKeepMutexAlive
<1>1. AliveInv => WaitersKeepMutexAlive
  BY DEF AliveInv, WaitersKeepMutexAlive, WaitersFor, MutexBlocked
<1>2. RunInv /\ LockInv /\ TypeInv /\ AliveInv /\ [Next]_vars => AliveInv'
  BY AlivePreserved
<1>3. QED
  BY <1>1, <1>2, LoopInvAlways, AliveInit, PTL DEF Spec
=============================================================================
