------------------------------ MODULE Semaphore -----------------------------
(***************************************************************************)
(* POSIX semaphores (src/libc/semaphore.rs, Environment::sem_decrement and *)
(* sem_increment).  A sem_t* is a key of open_semaphores; an unnamed one   *)
(* is the guest's own memory, a named one is allocated by sem_open and     *)
(* freed by sem_close while the host object lives on under its name.       *)
(***************************************************************************)
EXTENDS ThreadTable

CONSTANTS
  GuestSems,     \* addresses the guest passes to sem_init
  HeapSems,      \* addresses the allocator gives sem_open
  SemNames,      \* names the guest passes to sem_open
  MaxSems,       \* bound: SemaphoreHostObjects ever created
  MaxValue       \* bound: the value of a semaphore

ASSUME SemAssumption ==
  /\ GuestSems \subseteq Nat /\ HeapSems \subseteq Nat
  /\ MaxSems \in Nat /\ MaxValue \in Nat

VARIABLES
  host_sems,         \* the SemaphoreHostObjects, by number of creation
  sem_count,         \* how many were created
  open_semaphores,   \* sem_t* -> host object
  named_semaphores,  \* name -> host object
  balance            \* history: initial value + posts - successful waits, per object

semVars == <<host_sems, sem_count, open_semaphores, named_semaphores, balance>>

SemPtr == GuestSems \cup HeapSems
SemId == 0 .. MaxSems - 1
NoSem == -1          \* no entry
NoPtr == -1          \* guest_sem: None

HostSem == [value : Int, waiting : SUBSET Thread, guest_sem : Int, named : BOOLEAN]
NewSem(v, ptr, named) ==
  [value |-> v, waiting |-> {}, guest_sem |-> ptr, named |-> named]

Open(s) == open_semaphores[s] # NoSem
ObjOf(s) == host_sems[open_semaphores[s]]

-----------------------------------------------------------------------------
(* sem_init on an address that is already open changes nothing. *)
sem_init(s, v) ==
  /\ Calls("sem_init")
  /\ ~Open(s) /\ sem_count < MaxSems
  /\ host_sems' = [host_sems EXCEPT ![sem_count] = NewSem(v, s, FALSE)]
  /\ open_semaphores' = [open_semaphores EXCEPT ![s] = sem_count]
  /\ balance' = [balance EXCEPT ![sem_count] = v]
  /\ sem_count' = sem_count + 1
  /\ UNCHANGED <<named_semaphores, threadVars>>

(* Destroying a semaphore that threads wait on is undefined for the guest;  *)
(* the scheduler is written to survive it.                                 *)
sem_destroy(s) ==
  /\ Calls("sem_destroy")
  /\ Open(s)
  /\ ObjOf(s).waiting # {} => "sem_destroy_busy" \in Misuse
  /\ open_semaphores' = [open_semaphores EXCEPT ![s] = NoSem]
  /\ UNCHANGED <<host_sems, sem_count, named_semaphores, balance, threadVars>>

(* Allocate a sem_t for host object o and make it the open one. *)
OpenAt(s, o, obj) ==
  /\ ~Open(s)
  /\ host_sems' = [host_sems EXCEPT ![o] = [obj EXCEPT !.guest_sem = s]]
  /\ open_semaphores' = [open_semaphores EXCEPT ![s] = o]

(* sem_open with O_CREAT of a new name.  Without O_CREAT it fails. *)
sem_open_new(n, s, v) ==
  /\ Calls("sem_open")
  /\ named_semaphores[n] = NoSem /\ sem_count < MaxSems
  /\ OpenAt(s, sem_count, NewSem(v, NoPtr, TRUE))
  /\ named_semaphores' = [named_semaphores EXCEPT ![n] = sem_count]
  /\ balance' = [balance EXCEPT ![sem_count] = v]
  /\ sem_count' = sem_count + 1
  /\ UNCHANGED threadVars

(* sem_open of an existing name without O_EXCL: the open descriptor is      *)
(* returned as it is, a closed one gets a new address.                     *)
sem_open_existing(n, s) ==
  LET o == named_semaphores[n] IN
  /\ Calls("sem_open")
  /\ o # NoSem /\ host_sems[o].guest_sem = NoPtr
  /\ OpenAt(s, o, host_sems[o])
  /\ UNCHANGED <<sem_count, named_semaphores, balance, threadVars>>

(* Mutant: the value is raised by two. *)
sem_post_twice(s) ==
  /\ Calls("sem_post")
  /\ Open(s) /\ ObjOf(s).value < MaxValue
  /\ host_sems' = [host_sems EXCEPT ![open_semaphores[s]].value = @ + 2]
  /\ balance' = [balance EXCEPT ![open_semaphores[s]] = @ + 1]
  /\ UNCHANGED <<sem_count, open_semaphores, named_semaphores, threadVars>>

sem_post(s) ==
  /\ Calls("sem_post")
  /\ Open(s) /\ ObjOf(s).value < MaxValue
  /\ host_sems' = [host_sems EXCEPT ![open_semaphores[s]].value = @ + 1]
  /\ balance' = [balance EXCEPT ![open_semaphores[s]] = @ + 1]
  /\ UNCHANGED <<sem_count, open_semaphores, named_semaphores, threadVars>>

(* sem_decrement without having to wait. *)
Decrement(s) ==
  /\ ObjOf(s).value > 0
  /\ host_sems' = [host_sems EXCEPT ![open_semaphores[s]].value = @ - 1]
  /\ balance' = [balance EXCEPT ![open_semaphores[s]] = @ - 1]
  /\ UNCHANGED <<sem_count, open_semaphores, named_semaphores, threadVars>>

sem_wait(s) ==
  /\ Calls("sem_wait")
  /\ Open(s)
  /\ \/ Decrement(s)
     \/ /\ ObjOf(s).value <= 0
        /\ host_sems' = [host_sems EXCEPT ![open_semaphores[s]].waiting = @ \cup {current}]
        /\ Yield(Blk("Semaphore", s, FALSE), Cl("sem_wait", s, NoSem))
        /\ UNCHANGED <<sem_count, open_semaphores, named_semaphores, balance>>

(* EAGAIN, which changes nothing, unless the value is positive. *)
sem_trywait(s) ==
  /\ Calls("sem_trywait")
  /\ Open(s)
  /\ Decrement(s)

(* Only named semaphores can be closed; the host object keeps its waiters.  *)
(* Closing one that threads wait on is undefined for the guest too.        *)
sem_close(s) ==
  /\ Calls("sem_close")
  /\ Open(s) /\ ObjOf(s).named
  /\ ObjOf(s).waiting # {} => "sem_close_busy" \in Misuse
  /\ host_sems' = [host_sems EXCEPT ![open_semaphores[s]].guest_sem = NoPtr]
  /\ open_semaphores' = [open_semaphores EXCEPT ![s] = NoSem]
  /\ UNCHANGED <<sem_count, named_semaphores, balance, threadVars>>

sem_unlink(n) ==
  /\ Calls("sem_unlink")
  /\ named_semaphores[n] # NoSem
  /\ named_semaphores' = [named_semaphores EXCEPT ![n] = NoSem]
  /\ UNCHANGED <<host_sems, sem_count, open_semaphores, balance, threadVars>>

(* sem_decrement returns true to a thread that had to wait, whatever it was *)
(* woken for; aux says which object the scheduler drew from, if any.       *)
ReturnFromSemWait ==
  LET o == call[current].aux IN
  /\ phase = "guest" /\ call[current].fn = "sem_wait"
  /\ balance' = IF o = NoSem THEN balance ELSE [balance EXCEPT ![o] = @ - 1]
  /\ Return
  /\ UNCHANGED <<host_sems, sem_count, open_semaphores, named_semaphores>>

-----------------------------------------------------------------------------
SemInit ==
  /\ host_sems = [o \in SemId |-> NewSem(0, NoPtr, FALSE)]
  /\ sem_count = 0
  /\ open_semaphores = [s \in SemPtr |-> NoSem]
  /\ named_semaphores = [n \in SemNames |-> NoSem]
  /\ balance = [o \in SemId |-> 0]

SemTypeOK ==
  /\ host_sems \in [SemId -> HostSem]
  /\ sem_count \in 0 .. MaxSems
  /\ open_semaphores \in [SemPtr -> SemId \cup {NoSem}]
  /\ named_semaphores \in [SemNames -> SemId \cup {NoSem}]
  /\ balance \in [SemId -> Int]

SemNext ==
  \/ \E s \in GuestSems :
       \/ \E v \in 0 .. MaxValue : sem_init(s, v)
       \/ sem_destroy(s)
  \/ \E n \in SemNames, s \in HeapSems :
       \/ \E v \in 0 .. MaxValue : sem_open_new(n, s, v)
       \/ sem_open_existing(n, s)
  \/ \E s \in SemPtr : sem_post(s) \/ sem_wait(s) \/ sem_trywait(s) \/ sem_close(s)
  \/ \E n \in SemNames : sem_unlink(n)
  \/ ReturnFromSemWait
=============================================================================
