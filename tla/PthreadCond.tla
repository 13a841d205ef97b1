----------------------------- MODULE PthreadCond ----------------------------
(***************************************************************************)
(* pthread_cond_* (src/libc/pthread/cond.rs).  A waiter stands in          *)
(* `waiting`; a signal moves it to `waking`; the scheduler lets the head   *)
(* of `waking` go once it can relock the mutex.                            *)
(***************************************************************************)
EXTENDS PthreadMutex, Sequences

CONSTANT Conds   \* addresses of the guest's pthread_cond_t objects

ASSUME CondsAssumption == Conds \subseteq Int

VARIABLE conds   \* guest magic and CondHostObject of each condition variable

NoMutex == -1    \* curr_mutex: None

CondObject ==
  [state : {"static", "live", "gone"}, waiting : Seq(Thread), waking : Seq(Thread),
   curr_mutex : MutexId \cup {NoMutex}, timed_out : SUBSET Thread]

(* pthread_cond_init writes the magic number and a new CondHostObject. *)
FreshCond ==
  [state |-> "live", waiting |-> <<>>, waking |-> <<>>,
   curr_mutex |-> NoMutex, timed_out |-> {}]

(* check_or_register_cond: PTHREAD_COND_INITIALIZER is registered at its    *)
(* first use.  A destroyed one is not touched again before it is re-inited.*)
Registered(c) == IF conds[c].state = "static" THEN FreshCond ELSE conds[c]
Usable(c) == conds[c].state # "gone"

Queued(q, t) == \E i \in 1 .. Len(q) : q[i] = t

(* retain(|&u| u != t), for a queue that holds no thread twice. *)
Without(q, t) ==
  IF Queued(q, t)
  THEN LET i == CHOOSE i \in 1 .. Len(q) : q[i] = t
       IN  SubSeq(q, 1, i - 1) \o SubSeq(q, i + 1, Len(q))
  ELSE q

-----------------------------------------------------------------------------
(* Replacing a condition variable somebody still waits on is undefined for *)
(* the guest; the code allows it.                                          *)
pthread_cond_init(c) ==
  /\ Calls("pthread_cond_init")
  /\ (\E t \in Thread : call[t].fn \in {"cond_wait", "cond_timedwait"} /\ call[t].obj = c)
       => "cond_reinit" \in Misuse
  /\ conds' = [conds EXCEPT ![c] = FreshCond]
  /\ UNCHANGED <<mutexVars, threadVars>>

(* pthread_cond_wait and pthread_cond_timedwait up to their yield: unlock   *)
(* the mutex, or return its error; insist that all waiters use one mutex;  *)
(* join the queue.                                                         *)
Wait(c, p, fn) ==
  LET m == IdOf(p)
      mx == Table(p)[m]
      cv == Registered(c) IN
  /\ Usable(c)
  /\ CheckOrRegister(p)
  /\ MayUnlock(mx, current)
  /\ IF UnlockFails(mx, current)
     THEN /\ mutexes' = Table(p)
          /\ conds' = [conds EXCEPT ![c] = cv]
          /\ UNCHANGED <<holds, threadVars>>
     ELSE /\ mutexes' = [Table(p) EXCEPT ![m] = Unlocked(mx, current)]
          /\ holds' = Released(current, m)
          /\ IF cv.curr_mutex = m \/ (cv.waiting = <<>> /\ cv.waking = <<>>)
             THEN /\ conds' = [conds EXCEPT ![c] =
                       [cv EXCEPT !.curr_mutex = m, !.waiting = Append(@, current)]]
                  /\ Yield(Blk("Condition", c, fn = "cond_timedwait"), Cl(fn, c, m))
             ELSE /\ conds' = [conds EXCEPT ![c] = cv]
                  /\ Panic("pthread_cond_wait: waiters use different mutexes")

pthread_cond_wait(c, p) == Calls("pthread_cond_wait") /\ Wait(c, p, "cond_wait")

pthread_cond_timedwait(c, p) ==
  Calls("pthread_cond_timedwait") /\ Wait(c, p, "cond_timedwait")

(* Mutant: a signal wakes the first waiter but leaves it in the queue. *)
SignalledTwice(cv) ==
  IF cv.waiting = <<>> THEN cv
  ELSE [cv EXCEPT !.waking = Append(@, Head(cv.waiting))]

(* The first waiter moves to the end of the waking queue. *)
Signalled(cv) ==
  IF cv.waiting = <<>> THEN cv
  ELSE [cv EXCEPT !.waiting = Tail(@), !.waking = Append(@, Head(cv.waiting))]

pthread_cond_signal(c) ==
  /\ Calls("pthread_cond_signal")
  /\ Usable(c)
  /\ conds' = [conds EXCEPT ![c] = Signalled(Registered(c))]
  /\ UNCHANGED <<mutexVars, threadVars>>

pthread_cond_broadcast(c) ==
  /\ Calls("pthread_cond_broadcast")
  /\ Usable(c)
  /\ conds' = [conds EXCEPT ![c] =
        [Registered(c) EXCEPT !.waking = @ \o conds[c].waiting, !.waiting = <<>>]]
  /\ UNCHANGED <<mutexVars, threadVars>>

(* A correct guest destroys it when nobody is left to be signalled; the     *)
(* code also insists that the signalled ones have gone.                    *)
pthread_cond_destroy(c) ==
  /\ Calls("pthread_cond_destroy")
  /\ Usable(c)
  /\ conds[c].waiting # <<>> => "cond_destroy_busy" \in Misuse
  /\ conds' = [conds EXCEPT ![c].state = "gone"]
  /\ IF conds[c].waiting = <<>> /\ conds[c].waking = <<>>
     THEN UNCHANGED threadVars
     ELSE Panic("pthread_cond_destroy: threads are waiting")
  /\ UNCHANGED mutexVars

(* Mutant: the mark of a timed-out wait is not taken off. *)
ReturnFromWaitMarked ==
  /\ phase = "guest" /\ call[current].fn \in {"cond_wait", "cond_timedwait"}
  /\ holds' = Granted(current, call[current].aux)
  /\ Return
  /\ UNCHANGED <<conds, mutexes, mutex_count, pmutex>>

(* The rest of both waits, after the yield: the host object must still be   *)
(* there, and an untimed wait cannot have timed out.                       *)
ReturnFromWait ==
  LET cl == call[current]
      cv == conds[cl.obj] IN
  /\ phase = "guest" /\ cl.fn \in {"cond_wait", "cond_timedwait"}
  /\ IF cv.state = "gone" \/ (cl.fn = "cond_wait" /\ current \in cv.timed_out)
     THEN Panic("pthread_cond_wait: unwrap or assertion failed") /\ UNCHANGED <<conds, holds>>
     ELSE /\ conds' = [conds EXCEPT ![cl.obj].timed_out = @ \ {current}]
          /\ holds' = Granted(current, cl.aux)
          /\ Return
  /\ UNCHANGED <<mutexes, mutex_count, pmutex>>

-----------------------------------------------------------------------------
CondInit ==
  conds \in [Conds -> {[FreshCond EXCEPT !.state = s] : s \in {"static", "gone"}}]

CondTypeOK == conds \in [Conds -> CondObject]

CondNext ==
  \/ \E c \in Conds :
       \/ pthread_cond_init(c)
       \/ pthread_cond_signal(c)
       \/ pthread_cond_broadcast(c)
       \/ pthread_cond_destroy(c)
       \/ \E p \in PMutexes : pthread_cond_wait(c, p) \/ pthread_cond_timedwait(c, p)
  \/ ReturnFromWait
=============================================================================
