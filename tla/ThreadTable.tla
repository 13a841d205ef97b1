---------------------------- MODULE ThreadTable -----------------------------
(***************************************************************************)
(* The guest threads of src/environment.rs.  Every guest thread is a       *)
(* coroutine on one host thread: exactly one runs, and it keeps running    *)
(* until it blocks, exits or has used up its tick budget.  Then            *)
(* schedule_next_thread looks for the next one.                            *)
(*                                                                         *)
(* ThreadBlock::Suspended(count, previous) is kept as two values: the      *)
(* count, and the previous state in blocked_by.  suspend_thread never      *)
(* nests Suspended in Suspended, so nothing is lost.                       *)
(***************************************************************************)
EXTENDS MutexState

CONSTANTS
  Imports,       \* names of the functions the guest program calls
  Misuse         \* undefined uses of them the guest program makes

ASSUME ImportsAssumption == Imports \subseteq STRING /\ Misuse \subseteq STRING

VARIABLES
  len,           \* threads.len()
  current,       \* current_thread
  active,        \* threads with Thread::active
  blocked_by,    \* Thread::blocked_by (inside Suspended, if suspended)
  suspended,     \* the count of Suspended, 0 if the thread is not suspended
  guest_context, \* threads whose guest_context is Some
  host_context,  \* threads whose host_context is Some
  expired,       \* threads whose sleep or wait deadline has passed
  call,          \* what the thread's coroutine returns into when it is resumed
  phase,         \* "guest" code runs, "sched"uler scans, or the emulator "panic"ked
  scan,          \* candidates schedule_next_thread has already passed over
  grace,         \* DEADLOCK_GRACE_COUNT
  panic          \* why the emulator panicked

contextVars == <<guest_context, host_context>>
runVars == <<phase, scan, panic>>
threadVars == <<len, current, active, blocked_by, suspended, contextVars,
                expired, call, runVars, grace>>

-----------------------------------------------------------------------------
BlockKind == {"NotBlocked", "Sleeping", "Mutex", "Semaphore", "Condition", "Joining"}

(* `timed` marks the blocks that carry a deadline. *)
Block == [kind : BlockKind, obj : Int, timed : BOOLEAN]
Blk(k, o, timed) == [kind |-> k, obj |-> o, timed |-> timed]
NotBlocked == Blk("NotBlocked", 0, FALSE)

(* The libc function a blocked coroutine is inside of, the object it was    *)
(* called with, and the mutex it will hold (or semaphore it drew from)      *)
(* when it returns.                                                        *)
CallName == {"none", "lock", "cond_wait", "cond_timedwait", "sem_wait", "join"}
Call == [fn : CallName, obj : Int, aux : Int]
Cl(f, o, a) == [fn |-> f, obj |-> o, aux |-> a]
NoCall == Cl("none", 0, -1)

(* The assertions, unwraps and panics a guest program can run into. *)
PanicReason ==
  {"none", "No active threads, program has deadlocked!",
   "schedule_next_thread: no mutex for the condition variable",
   "relock of a destroyed mutex",
   "pthread_cond_wait: waiters use different mutexes",
   "pthread_cond_wait: unwrap or assertion failed",
   "pthread_cond_destroy: threads are waiting",
   "pthread_join: joinee is the main thread"}

Blocked(t) == blocked_by[t].kind # "NotBlocked"

-----------------------------------------------------------------------------
(* The current thread is about to call fn from guest code. *)
Calls(fn) == phase = "guest" /\ call[current].fn = "none" /\ fn \in Imports

(* yield_thread: block the current thread and enter the scheduler. *)
Yield(b, c) ==
  /\ blocked_by' = [blocked_by EXCEPT ![current] = b]
  /\ call' = [call EXCEPT ![current] = c]
  /\ expired' = expired \ {current}
  /\ phase' = "sched" /\ scan' = 0
  /\ UNCHANGED <<len, current, active, suspended, contextVars, grace, panic>>

Panic(reason) ==
  /\ phase' = "panic" /\ panic' = reason
  /\ UNCHANGED <<len, current, active, blocked_by, suspended, contextVars,
                 expired, call, scan, grace>>

(* A blocked call returns to the guest. *)
Return ==
  /\ call' = [call EXCEPT ![current] = NoCall]
  /\ UNCHANGED <<len, current, active, blocked_by, suspended, contextVars,
                 expired, runVars, grace>>

ThreadInit ==
  /\ len = 1 /\ current = 0
  /\ active = {0}
  /\ blocked_by = [t \in Thread |-> NotBlocked]
  /\ suspended = [t \in Thread |-> 0]
  /\ guest_context = {}
  /\ host_context = {}
  /\ expired = {}
  /\ call = [t \in Thread |-> NoCall]
  /\ phase = "guest" /\ scan = 0 /\ grace = 0 /\ panic = "none"

ThreadTypeOK ==
  /\ len \in 1 .. MaxThreads /\ current \in Thread
  /\ active \subseteq Thread
  /\ blocked_by \in [Thread -> Block]
  /\ suspended \in [Thread -> Nat]
  /\ guest_context \subseteq Thread
  /\ host_context \subseteq Thread
  /\ expired \subseteq Thread
  /\ call \in [Thread -> Call]
  /\ phase \in {"guest", "sched", "panic"}
  /\ scan \in 0 .. len /\ grace \in 0 .. 3 /\ panic \in PanicReason
=============================================================================
