----------------------------- MODULE Environment ----------------------------
(***************************************************************************)
(* Thread life cycle, Mach suspension and the round-robin scheduler of     *)
(* src/environment.rs, over the mutexes, condition variables and           *)
(* semaphores of the modules it extends.                                   *)
(*                                                                         *)
(* Time is left to the environment: TimePasses lets the deadline of any    *)
(* sleeping or timed-waiting thread pass at any moment (GuestClock models  *)
(* what the deadlines are compared with).  A call that only returns an     *)
(* error code changes nothing and is left out.                             *)
(***************************************************************************)
EXTENDS PthreadCond, Semaphore, FiniteSets

CONSTANT MaxSuspend      \* bound: nested suspensions of one thread

ASSUME MaxSuspendAssumption == MaxSuspend \in Nat

VARIABLES
  joined_by,             \* ThreadHostObject::joined_by
  detached               \* threads with attr.detachstate = PTHREAD_CREATE_DETACHED

joinVars == <<joined_by, detached>>
syncVars == <<mutexVars, conds, semVars>>
vars == <<threadVars, syncVars, joinVars>>

-----------------------------------------------------------------------------
(* Thread life cycle *)

(* new_thread, and suspend_thread on it for pthread_create_suspended_np. *)
pthread_create(fn, count) ==
  /\ Calls(fn)
  /\ len < MaxThreads
  /\ len' = len + 1
  /\ active' = active \cup {len}
  /\ suspended' = [suspended EXCEPT ![len] = count]
  /\ guest_context' = guest_context \cup {len}
  /\ host_context' = host_context \cup {len}
  /\ UNCHANGED <<current, blocked_by, expired, call, runVars, grace, syncVars, joinVars>>

(* The start routine returns, or pthread_exit leads to the same routine:    *)
(* the coroutine ends, and run() buries the thread and schedules.          *)
ThreadExit ==
  /\ phase = "guest" /\ call[current].fn = "none" /\ current # 0
  /\ active' = active \ {current}
  /\ phase' = "sched" /\ scan' = 0
  /\ UNCHANGED <<len, current, blocked_by, suspended, contextVars, expired, call,
                 panic, grace, syncVars, joinVars>>

(* EDEADLK, EINVAL and ESRCH change nothing; joining the main thread is an  *)
(* assertion failure.                                                      *)
pthread_join(j) ==
  /\ Calls("pthread_join")
  /\ j < len
  /\ \/ /\ j = 0 /\ "join_main" \in Misuse
        /\ Panic("pthread_join: joinee is the main thread")
        /\ UNCHANGED joined_by
     \/ /\ j # 0 /\ j # current
        /\ joined_by[current] # j
        /\ j \notin detached
        /\ joined_by' = [joined_by EXCEPT ![j] = current]
        /\ Yield(Blk("Joining", j, FALSE), Cl("join", j, -1))
  /\ UNCHANGED <<syncVars, detached>>

ReturnFromJoin ==
  /\ phase = "guest" /\ call[current].fn = "join"
  /\ Return
  /\ UNCHANGED <<syncVars, joinVars>>

pthread_detach(j) ==
  /\ Calls("pthread_detach")
  /\ j < len /\ j \notin detached
  /\ detached' = detached \cup {j}
  /\ UNCHANGED <<threadVars, syncVars, joined_by>>

(* usleep, nanosleep and the like. *)
sleep ==
  /\ Calls("sleep")
  /\ Yield(Blk("Sleeping", 0, TRUE), NoCall)
  /\ UNCHANGED <<syncVars, joinVars>>

(* Mutant: a thread that suspends itself goes on. *)
thread_suspend_runs_on(j) ==
  /\ Calls("thread_suspend")
  /\ j < len /\ suspended[j] < MaxSuspend
  /\ suspended' = [suspended EXCEPT ![j] = @ + 1]
  /\ UNCHANGED <<len, current, active, blocked_by, contextVars, expired, call, runVars,
                 grace, syncVars, joinVars>>

(* suspend_thread: a thread that suspends itself yields. *)
thread_suspend(j) ==
  /\ Calls("thread_suspend")
  /\ j < len /\ suspended[j] < MaxSuspend
  /\ suspended' = [suspended EXCEPT ![j] = @ + 1]
  /\ IF j = current THEN phase' = "sched" /\ scan' = 0 ELSE UNCHANGED <<phase, scan>>
  /\ UNCHANGED <<len, current, active, blocked_by, contextVars, expired, call, panic,
                 grace, syncVars, joinVars>>

(* Mutant: resuming makes the thread runnable whatever it was blocked by. *)
thread_resume_unblocks(j) ==
  /\ Calls("thread_resume")
  /\ j < len /\ suspended[j] > 0
  /\ suspended' = [suspended EXCEPT ![j] = @ - 1]
  /\ blocked_by' = [blocked_by EXCEPT ![j] = IF suspended[j] = 1 THEN NotBlocked ELSE @]
  /\ UNCHANGED <<len, current, active, contextVars, expired, call, runVars,
                 grace, syncVars, joinVars>>

(* resume_thread puts the state before the suspension back. *)
thread_resume(j) ==
  /\ Calls("thread_resume")
  /\ j < len /\ suspended[j] > 0
  /\ suspended' = [suspended EXCEPT ![j] = @ - 1]
  /\ UNCHANGED <<len, current, active, blocked_by, contextVars, expired, call, runVars,
                 grace, syncVars, joinVars>>

(* run_inner has used up remaining_ticks. *)
Preempt ==
  /\ phase = "guest" /\ call[current].fn = "none"
  /\ phase' = "sched" /\ scan' = 0
  /\ UNCHANGED <<len, current, active, blocked_by, suspended, contextVars, expired,
                 call, panic, grace, syncVars, joinVars>>

TimePasses(t) ==
  /\ phase # "panic"
  /\ t \in active /\ blocked_by[t].timed /\ t \notin expired
  /\ expired' = expired \cup {t}
  /\ UNCHANGED <<len, current, active, blocked_by, suspended, contextVars, call,
                 runVars, grace, syncVars, joinVars>>

-----------------------------------------------------------------------------
(* schedule_next_thread.  The scan looks at one candidate per step, in ring *)
(* order from the thread after the current one.                            *)

(* Mutant: every scan starts from the main thread. *)
CandidateFromMain == scan % len

Candidate == (current + 1 + scan) % len

Considered(t) ==
  /\ phase = "sched" /\ scan < len
  /\ t = Candidate
  /\ t \in active /\ suspended[t] = 0

(* Mutant: the coroutine of a dead thread is put back too. *)
SwitchToKeepsDead(t) ==
  /\ current' = t
  /\ phase' = "guest" /\ scan' = 0
  /\ guest_context' = IF t = current THEN guest_context
                      ELSE (guest_context \ {t}) \cup {current}
  /\ host_context' = IF t = current THEN host_context
                     ELSE (host_context \ {t}) \cup {current}
  /\ UNCHANGED <<len, active, suspended, expired, grace, panic, joinVars>>

(* Return t and switch to it: it gives up its contexts to the CPU and the  *)
(* main loop, the old thread gets its own back (switch_thread).            *)
SwitchTo(t) ==
  /\ current' = t
  /\ phase' = "guest" /\ scan' = 0
  /\ guest_context' = IF t = current THEN guest_context
                      ELSE (guest_context \ {t}) \cup {current}
  /\ host_context' = IF t = current THEN host_context
                     ELSE (host_context \ {t}) \cup ({current} \cap active)
  /\ UNCHANGED <<len, active, suspended, expired, grace, panic, joinVars>>

Wake(t) == blocked_by' = [blocked_by EXCEPT ![t] = NotBlocked]

SchedRunnable(t) ==
  /\ Considered(t) /\ ~Blocked(t)
  /\ SwitchTo(t)
  /\ UNCHANGED <<blocked_by, call, syncVars>>

SchedSlept(t) ==
  /\ Considered(t) /\ blocked_by[t].kind = "Sleeping" /\ t \in expired
  /\ Wake(t) /\ SwitchTo(t)
  /\ UNCHANGED <<call, syncVars>>

(* Wake t with mutex m in its hands; relocking a destroyed one panics. *)
RelockFor(t, m) ==
  IF mutexes[m].live
  THEN /\ Wake(t) /\ SwitchTo(t) /\ UNCHANGED call
       /\ mutexes' = [mutexes EXCEPT ![m] = Relocked(mutexes[m], t)]
  ELSE /\ Panic("relock of a destroyed mutex")
       /\ UNCHANGED <<mutexes, joinVars>>

SchedMutex(t) ==
  LET m == blocked_by[t].obj IN
  /\ Considered(t) /\ blocked_by[t].kind = "Mutex"
  /\ ~IsLocked(mutexes[m])
  /\ RelockFor(t, m)
  /\ UNCHANGED <<mutex_count, pmutex, holds, conds, semVars>>

(* A waiter whose semaphore has gone is simply let go. *)
SchedSemaphoreGone(t) ==
  /\ Considered(t) /\ blocked_by[t].kind = "Semaphore"
  /\ ~Open(blocked_by[t].obj)
  /\ Wake(t) /\ SwitchTo(t)
  /\ UNCHANGED <<call, syncVars>>

(* Mutant: the thread stays in the set of waiters. *)
SchedSemaphoreStillWaiting(t) ==
  LET s == blocked_by[t].obj
      o == open_semaphores[s] IN
  /\ Considered(t) /\ blocked_by[t].kind = "Semaphore"
  /\ Open(s) /\ host_sems[o].value > 0
  /\ host_sems' = [host_sems EXCEPT ![o].value = @ - 1]
  /\ call' = [call EXCEPT ![t].aux = o]
  /\ Wake(t) /\ SwitchTo(t)
  /\ UNCHANGED <<sem_count, open_semaphores, named_semaphores, balance, mutexVars, conds>>

SchedSemaphore(t) ==
  LET s == blocked_by[t].obj
      o == open_semaphores[s] IN
  /\ Considered(t) /\ blocked_by[t].kind = "Semaphore"
  /\ Open(s) /\ host_sems[o].value > 0
  /\ host_sems' = [host_sems EXCEPT ![o].value = @ - 1, ![o].waiting = @ \ {t}]
  /\ call' = [call EXCEPT ![t].aux = o]
  /\ Wake(t) /\ SwitchTo(t)
  /\ UNCHANGED <<sem_count, open_semaphores, named_semaphores, balance, mutexVars, conds>>

(* The mutex the waiters of c use; pthread_cond_init can have forgotten it. *)
CondMutex(t) == conds[blocked_by[t].obj].curr_mutex

ConsideredCond(t) ==
  /\ Considered(t) /\ blocked_by[t].kind = "Condition"
  /\ CondMutex(t) # NoMutex

SchedCondLost(t) ==
  /\ Considered(t) /\ blocked_by[t].kind = "Condition"
  /\ CondMutex(t) = NoMutex
  /\ Panic("schedule_next_thread: no mutex for the condition variable")
  /\ UNCHANGED <<syncVars, joinVars>>

FirstSignalled(t) ==
  LET q == conds[blocked_by[t].obj].waking IN q # <<>> /\ Head(q) = t

CondReady(t) == FirstSignalled(t) /\ ~IsLocked(mutexes[CondMutex(t)])

SchedCondition(t) ==
  /\ ConsideredCond(t) /\ CondReady(t)
  /\ conds' = [conds EXCEPT ![blocked_by[t].obj].waking = Tail(@)]
  /\ RelockFor(t, CondMutex(t))
  /\ UNCHANGED <<mutex_count, pmutex, holds, semVars>>

(* The deadline of a timed wait has passed: the thread leaves both queues.  *)
GivenUp(cv, t) ==
  [cv EXCEPT !.timed_out = @ \cup {t},
             !.waking = Without(@, t), !.waiting = Without(@, t)]

TimedOut(t) == conds' = [conds EXCEPT ![blocked_by[t].obj] = GivenUp(@, t)]

SchedTimeout(t) ==
  /\ ConsideredCond(t) /\ ~CondReady(t)
  /\ blocked_by[t].timed /\ t \in expired
  /\ ~IsLocked(mutexes[CondMutex(t)])
  /\ TimedOut(t)
  /\ RelockFor(t, CondMutex(t))
  /\ UNCHANGED <<mutex_count, pmutex, holds, semVars>>

(* Mutant: a timed-out thread is passed over while the mutex is taken. *)
SchedTimeoutPassedOver(t) ==
  /\ ConsideredCond(t) /\ ~CondReady(t)
  /\ blocked_by[t].timed /\ t \in expired
  /\ IsLocked(mutexes[CondMutex(t)])
  /\ scan' = scan + 1
  /\ UNCHANGED <<len, current, active, blocked_by, suspended, contextVars, expired, call,
                 phase, panic, grace, mutexVars, conds, semVars, joinVars>>

(* ... and has to wait for the mutex, without being counted as a waiter. *)
SchedTimeoutLocked(t) ==
  /\ ConsideredCond(t) /\ ~CondReady(t)
  /\ blocked_by[t].timed /\ t \in expired
  /\ IsLocked(mutexes[CondMutex(t)])
  /\ TimedOut(t)
  /\ blocked_by' = [blocked_by EXCEPT ![t] = Blk("Mutex", CondMutex(t), FALSE)]
  /\ scan' = scan + 1
  /\ UNCHANGED <<len, current, active, suspended, contextVars, expired, call, phase,
                 panic, grace, mutexVars, semVars, joinVars>>

(* Mutant: only the last joiner to have been recorded is woken. *)
SchedJoinedRecorded(t) ==
  /\ Considered(t) /\ blocked_by[t].kind = "Joining"
  /\ blocked_by[t].obj \notin active
  /\ IF joined_by[blocked_by[t].obj] = t THEN Wake(t) /\ SwitchTo(t)
     ELSE /\ scan' = scan + 1
          /\ UNCHANGED <<len, current, active, blocked_by, suspended, contextVars, expired,
                         phase, panic, grace, joinVars>>
  /\ UNCHANGED <<call, syncVars>>

SchedJoined(t) ==
  /\ Considered(t) /\ blocked_by[t].kind = "Joining"
  /\ blocked_by[t].obj \notin active
  /\ Wake(t) /\ SwitchTo(t)
  /\ UNCHANGED <<call, syncVars>>

(* What the candidate waits for has not happened. *)
StillBlocked(t) ==
  LET b == blocked_by[t] IN
  CASE b.kind = "NotBlocked" -> FALSE
    [] b.kind = "Sleeping"   -> t \notin expired
    [] b.kind = "Mutex"      -> IsLocked(mutexes[b.obj])
    [] b.kind = "Semaphore"  -> Open(b.obj) /\ ObjOf(b.obj).value <= 0
    [] b.kind = "Condition"  -> /\ CondMutex(t) # NoMutex
                                /\ ~CondReady(t) /\ ~(b.timed /\ t \in expired)
    [] b.kind = "Joining"    -> b.obj \in active

SchedSkip ==
  /\ phase = "sched" /\ scan < len
  /\ LET t == Candidate IN t \notin active \/ suspended[t] > 0 \/ StillBlocked(t)
  /\ scan' = scan + 1
  /\ UNCHANGED <<len, current, active, blocked_by, suspended, contextVars, expired,
                 call, phase, panic, grace, syncVars, joinVars>>

(* Mutant: the deadline of the thread that yielded last is forgotten. *)
SomeoneElseAsleep ==
  \E t \in Thread : t # current /\ t \in active /\ suspended[t] = 0 /\ blocked_by[t].timed

(* At the end of the scan, some candidate contributed to next_awakening. *)
SomeoneAsleep == \E t \in Thread : t \in active /\ suspended[t] = 0 /\ blocked_by[t].timed

(* Sleep until the next awakening, or for the grace period, and try again. *)
SchedRetry ==
  /\ phase = "sched" /\ scan = len
  /\ SomeoneAsleep \/ grace < 3
  /\ scan' = 0
  /\ grace' = IF SomeoneAsleep THEN grace ELSE grace + 1
  /\ UNCHANGED <<len, current, active, blocked_by, suspended, contextVars, expired,
                 call, phase, panic, syncVars, joinVars>>

SchedDeadlock ==
  /\ phase = "sched" /\ scan = len
  /\ ~SomeoneAsleep /\ grace = 3
  /\ phase' = "panic" /\ panic' = "No active threads, program has deadlocked!"
  /\ grace' = 0
  /\ UNCHANGED <<len, current, active, blocked_by, suspended, contextVars, expired,
                 call, scan, syncVars, joinVars>>

Schedule ==
  \/ \E t \in Thread :
       \/ SchedRunnable(t) \/ SchedSlept(t) \/ SchedMutex(t)
       \/ SchedSemaphoreGone(t) \/ SchedSemaphore(t)
       \/ SchedCondLost(t) \/ SchedCondition(t) \/ SchedTimeout(t) \/ SchedTimeoutLocked(t)
       \/ SchedJoined(t)
  \/ SchedSkip \/ SchedRetry \/ SchedDeadlock

-----------------------------------------------------------------------------
Init ==
  /\ ThreadInit /\ MutexInit /\ CondInit /\ SemInit
  /\ joined_by = [t \in Thread |-> NoThread]
  /\ detached = {}

ThreadNext ==
  \/ pthread_create("pthread_create", 0)
  \/ pthread_create("pthread_create_suspended_np", 1)
  \/ ThreadExit \/ ReturnFromJoin \/ sleep \/ Preempt
  \/ \E j \in Thread :
       \/ pthread_join(j) \/ pthread_detach(j)
       \/ thread_suspend(j) \/ thread_resume(j)
  \/ \E t \in Thread : TimePasses(t)

(* The emulator has panicked and does nothing more. *)
Panicked == phase = "panic" /\ UNCHANGED vars

Next ==
  \/ ThreadNext
  \/ MutexNext /\ UNCHANGED <<conds, semVars, joinVars>>
  \/ CondNext /\ UNCHANGED <<semVars, joinVars>>
  \/ SemNext /\ UNCHANGED <<mutexVars, conds, joinVars>>
  \/ Schedule
  \/ Panicked

Spec == Init /\ [][Next]_vars

(* The main loop never stops by itself; a batch of guest code ends when its *)
(* ticks are used up, and every deadline passes.  Nothing is assumed of    *)
(* what the guest calls.                                                   *)
Fairness ==
  /\ WF_vars(Schedule) /\ WF_vars(Preempt)
  /\ WF_vars(ReturnFromJoin)
  /\ WF_vars(ReturnFromLock /\ UNCHANGED <<conds, semVars, joinVars>>)
  /\ WF_vars(ReturnFromWait /\ UNCHANGED <<semVars, joinVars>>)
  /\ WF_vars(ReturnFromSemWait /\ UNCHANGED <<mutexVars, conds, joinVars>>)
  /\ \A t \in Thread : WF_vars(TimePasses(t))

FairSpec == Spec /\ Fairness

-----------------------------------------------------------------------------
(* Properties *)

(* Type invariant of all the state the scheduler and libc share. *)
TypeOK ==
  /\ ThreadTypeOK /\ MutexTypeOK /\ CondTypeOK /\ SemTypeOK
  /\ joined_by \in [Thread -> Thread \cup {NoThread}]
  /\ detached \subseteq Thread

(* yield_thread asserts it after every resume: guest code only ever runs on *)
(* a thread that is alive, not blocked and not suspended.                  *)
RunsOnlyRunnable ==
  phase = "guest" => current \in active /\ ~Blocked(current) /\ suspended[current] = 0

(* "There should always be (threads.len() - 1) contexts in existence": the  *)
(* CPU holds the current thread's registers, every other thread keeps its  *)
(* own, and every live thread but the current one has a coroutine to       *)
(* resume.  switch_thread unwraps on the strength of this.                 *)
ContextsConserved ==
  /\ guest_context = (0 .. len - 1) \ {current}
  /\ host_context = active \ {current}

(* Mutexes whose lock the guest program cannot have taken away from a       *)
(* thread: only a NORMAL mutex may be unlocked by somebody else, and only   *)
(* a re-initialized condition variable forgets the mutex of its waiters.   *)
Exclusive(m) ==
  /\ mutexes[m].type # "NORMAL" \/ "cross_unlock" \notin Misuse
  /\ "cond_reinit" \notin Misuse

(* Two threads are never both told that they hold the same mutex, through   *)
(* blocking locks, condition waits, timeouts, suspension and thread exit.  *)
MutualExclusion ==
  \A m \in MutexId, t, u \in Thread :
    (Exclusive(m) /\ t # u) => ~(holds[t][m] > 0 /\ holds[u][m] > 0)

(* The count of a recursive mutex, or the phantom locks of a NORMAL one,    *)
(* keep the guest's lock/unlock pairs balanced: what the owner has been    *)
(* told it holds is what it must unlock to let go.                         *)
LocksBalanced ==
  \A m \in MutexId, t \in Thread :
    (Exclusive(m) /\ holds[t][m] > 0) =>
      /\ mutexes[m].live /\ mutexes[m].owner = t
      /\ holds[t][m] = mutexes[m].count + mutexes[m].phantom[t]

(* When a blocked call is about to return success, what it waited for has   *)
(* been given to this thread: the mutex is its own, the joinee is dead.    *)
WakeupsJustified ==
  phase = "guest" =>
    LET cl == call[current] IN
    /\ (cl.fn \in {"lock", "cond_wait", "cond_timedwait"} /\ Exclusive(cl.aux)) =>
         mutexes[cl.aux].live /\ mutexes[cl.aux].owner = current /\ mutexes[cl.aux].count = 1
    /\ cl.fn = "join" => cl.obj \notin active

(* Until the emulator panics, a thread is in exactly one queue of a         *)
(* condition variable, once, exactly while it is blocked on it.            *)
CondQueuesExact ==
  phase # "panic" => \A c \in Conds :
    LET q == conds[c].waiting \o conds[c].waking IN
    /\ \A i, j \in 1 .. Len(q) : q[i] = q[j] => i = j
    /\ \A t \in Thread :
         Queued(q, t) <=> (blocked_by[t].kind = "Condition" /\ blocked_by[t].obj = c)

(* The timed_out mark stays with the very wait that timed out: the assertion *)
(* before it is set, and the one in pthread_cond_wait, can never fail.     *)
TimeoutsPending ==
  phase # "panic" => \A c \in Conds : \A t \in conds[c].timed_out :
    /\ call[t].fn = "cond_timedwait" /\ call[t].obj = c
    /\ blocked_by[t].kind # "Condition"

(* Threads waiting in lock_mutex, the timed-out condition waiters that the  *)
(* scheduler sends there included.                                         *)
WaitersFor(m) == {t \in Thread : blocked_by[t].kind = "Mutex" /\ blocked_by[t].obj = m}

(* "Add to the waiting count, so that the mutex isn't destroyed": nobody    *)
(* ever waits for a mutex that is gone.                                    *)
WaitersKeepMutexAlive == \A m \in MutexId : WaitersFor(m) # {} => mutexes[m].live

(* Tokens of a semaphore object drawn by the scheduler for threads that     *)
(* have not run since.                                                     *)
InFlight(o) == {t \in Thread : call[t].fn = "sem_wait" /\ call[t].aux = o}

(* Every post is consumed once: the value is what was posted and not yet    *)
(* drawn, by a wait that has returned or is about to.                      *)
SemConservation ==
  \A o \in SemId : /\ host_sems[o].value >= 0
                   /\ host_sems[o].value + Cardinality(InFlight(o)) = balance[o]

(* sem_getvalue reports the number of threads blocked on the semaphore. *)
SemWaitersExact ==
  \A s \in SemPtr : Open(s) =>
    ObjOf(s).waiting = {t \in Thread : blocked_by[t].kind = "Semaphore" /\ blocked_by[t].obj = s}

(* sem_wait reports success only to a thread that got a token: one whose    *)
(* semaphore has gone is woken "so it can return from sem_wait (which fails *)
(* with EINVAL)".                                                          *)
SemWaitTookToken ==
  (phase = "guest" /\ call[current].fn = "sem_wait") => call[current].aux # NoSem

(* The deadlock panic is never raised while some thread could go on. *)
DeadlockIsReal ==
  panic = "No active threads, program has deadlocked!" =>
    \A t \in Thread : t \in active => suspended[t] > 0 \/ (StillBlocked(t) /\ ~blocked_by[t].timed)

Stopped(t) == phase = "panic" \/ suspended[t] > 0

(* Round robin: a thread that could run does run, whatever the others do,   *)
(* unless it is suspended (or the emulator is lost).  Only by running can   *)
(* it die or block, so it is enough that it is not runnable for ever.      *)
RunnableRuns ==
  \A t \in Thread :
    []<>((t \in active /\ ~Blocked(t)) => ((phase = "guest" /\ current = t) \/ Stopped(t)))

(* A thread whose deadline passes leaves its sleep or its timed wait; the   *)
(* wait may still have to queue for the mutex.                             *)
DeadlinesHonoured == \A t \in Thread : []<>(~blocked_by[t].timed \/ Stopped(t))

(* Everyone who joins a thread gets to return once it has finished, even if *)
(* joined_by has been overwritten by a later joiner.  A dead joinee stays   *)
(* dead, so it is enough that nobody is inside such a join for ever.       *)
JoinersReturn ==
  \A t \in Thread :
    []<>(~(call[t].fn = "join" /\ call[t].obj \notin active) \/ Stopped(t))
=============================================================================
