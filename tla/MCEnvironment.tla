--------------------------- MODULE MCEnvironment ----------------------------
(***************************************************************************)
(* Instances of Environment for TLC: the guest programs the runs look at,  *)
(* each given by the functions it imports.                                 *)
(***************************************************************************)
EXTENDS Environment

(* Without is retain() on the queues CondQueuesExact allows. *)
ASSUME \A n \in 0 .. 3 : \A q \in [1 .. n -> 0 .. 3], t \in 0 .. 3 :
  (\A i, j \in 1 .. n : q[i] = q[j] => i = j) =>
    Without(q, t) = SelectSeq(q, LAMBDA u : u # t)

(* Mutexes of all types, made and destroyed. *)
MutexCalls ==
  {"pthread_create", "pthread_mutex_init", "pthread_mutex_lock",
   "pthread_mutex_trylock", "pthread_mutex_unlock", "pthread_mutex_destroy"}

(* Owners of mutexes that block, on one another if it comes to that. *)
OwnerCalls == MutexCalls \cup {"pthread_join"}

CondCalls ==
  {"pthread_create", "pthread_mutex_lock", "pthread_mutex_unlock",
   "pthread_cond_init", "pthread_cond_wait", "pthread_cond_timedwait",
   "pthread_cond_signal", "pthread_cond_broadcast", "pthread_cond_destroy",
   "thread_suspend", "thread_resume"}

CondDestroyCalls == CondCalls \cup {"pthread_mutex_destroy"}

SemCalls ==
  {"pthread_create", "sem_init", "sem_destroy", "sem_open", "sem_close", "sem_unlink",
   "sem_post", "sem_wait", "sem_trywait", "thread_suspend", "thread_resume"}

(* Threads created (suspended too), joined, detached and suspended. *)
JoinCalls ==
  {"pthread_create", "pthread_create_suspended_np", "pthread_join", "pthread_detach",
   "thread_suspend", "thread_resume"}

(* Sleepers that are suspended and joined. *)
SleepCalls == (JoinCalls \ {"pthread_detach"}) \cup {"sleep"}

(* Threads that sleep, join and wait for a semaphore that may be destroyed. *)
BlockCalls ==
  {"pthread_create", "pthread_join", "sleep", "sem_init", "sem_post", "sem_wait",
   "sem_destroy"}

LiveCalls ==
  {"pthread_create", "pthread_join", "pthread_mutex_lock", "pthread_mutex_unlock",
   "pthread_cond_init", "pthread_cond_timedwait", "pthread_cond_signal"}
=============================================================================
